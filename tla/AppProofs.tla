----------------------------- MODULE AppProofs -----------------------------
(***************************************************************************)
(* Theorems about an app and its connections: first the migration of one   *)
(* connection to an engine (ConnectionMigration), for any messages in any  *)
(* number, then the life of the app (AppLifeCycle), for any number of      *)
(* engines, connections, proxies and messages.                             *)
(***************************************************************************)
EXTENDS ConnectionMigration, AppLifeCycle, QueueLemmas, FiniteSetTheorems

-----------------------------------------------------------------------------
(* The inductive invariant of a connection.                                *)

\* What the theorems about a connection assume: the engine has its own loop (in
\* the loop of the app the assertion does fail, run connection_shared), and a
\* client whose connection stays with the app sends close_app alone, so that
\* the app never takes several messages at once.
Usage ==
  /\ MigrationAssumption /\ OwnLoop = TRUE
  /\ \A q \in Scripts : \A i \in 1..Len(q) :
       q[i] = "close_app" => Len(q) = 1 \/ q[1] \in {"start", "graph"}

\* The last message that has been handed on; those behind it are kept.
Upto(a) == a.next - Len(a.cached) - 1

\* Before the connection arrives, the engine's loop has no other task of it.
OnlyInMsgs(q) == \A i \in 1..Len(q) : q[i] = "in_msgs"

\* The task that links the connection to a remote runs before the one that
\* hands on the kept messages.
LinksFirst(q) ==
  \E i \in 1..Len(q) : q[i] = "in_msgs" /\ \A j \in 1..i : q[j] # "cleaned"

\* The app's last task is to let go of the connection.
CleanLast(q) == Has(q, "clean") /\ AtEnd(q, "clean")

\* No message of q is behind u.
Below(q, u) == \A i \in 1..Len(q) : q[i] <= u

\* The messages of q are in the order in which the client has sent them, but
\* for those in P.
Ascending(q, P) == \A i, j \in 1..Len(q) : i < j => q[i] < q[j] \/ q[j] \in P

\* The app has the connection in its list, and its stream follows its state.
AppHasIt(a) ==
  /\ a.state # "destroyed" => a.lists = {"app"}
  /\ a.state = "destroyed" => a.lists = {}
  /\ a.state = "open" => a.stream["app"] \in {"reading", "stopped"}
  /\ a.state = "closing" => a.stream["app"] = "closing"
  /\ a.state = "destroyed" => a.stream["app"] = "closed"

\* The connection stays with the app, at least until a message names a graph.
AtApp(a) ==
  /\ a.stage = "none" /\ a.waits = FALSE /\ a.cleaned = FALSE /\ AppHasIt(a)
  /\ a.stream["app"] # "stopped" /\ ~Has(a.tasks["app"], "clean")
  /\ a.mstate = "DONE" => a.next = Len(script) + 1 /\ a.cached = <<>>

\* The two loops shake hands: the stream of the app no longer reads.
Handshakes(a) ==
  /\ a.stage # "none" /\ a.waits = FALSE /\ a.cleaned = FALSE /\ AppHasIt(a)
  /\ a.stream["app"] # "reading" /\ ~Has(a.tasks["app"], "clean")

\* The engine's thread waits in ten_stream_migrated: the app has still to take
\* the connection off its list, to close its stream, or to say that it has.
Waits(a) ==
  /\ a.stage = "none" /\ a.waits = TRUE
  /\ \/ /\ CleanLast(a.tasks["app"]) /\ a.cleaned = FALSE /\ AppHasIt(a)
        /\ a.stream["app"] # "reading"
     \/ /\ a.tasks["app"] = <<>> /\ a.lists = {}
        /\ \/ a.cleaned = TRUE /\ a.stream["app"] = "closed"
           \/ a.cleaned = FALSE /\ a.stream["app"] = "cleaning"

\* The connection is on its way to the engine, with the message that moves it.
Moving(a) ==
  /\ a.mstate = "FIRST_MSG" /\ a.first \in Msgs
  /\ a.state # "open" => a.cut
  /\ Handshakes(a) \/ Waits(a)

\* The thread of the app owns the connection.
WithApp(a) ==
  /\ a.attach = "app" /\ a.stream["engine"] = "none"
  /\ a.inMsgs = <<>> /\ a.putBack = {} /\ OnlyInMsgs(a.tasks["engine"])
  /\ AtApp(a) \/ Moving(a)

\* The engine has the connection, and will link it to a remote with the message
\* that moved it before it hands on what was kept.
Unlinked(a) ==
  /\ a.attach = "engine" /\ a.lists = {"engine"}
  /\ a.inMsgs = <<a.first>> /\ a.putBack = {}
  /\ LinksFirst(a.tasks["engine"]) /\ Has(a.tasks["engine"], "cleaned")
  /\ ~Has(a.tasks["engine"], "close")

\* The connection belongs to a remote; only the message that moved it may have
\* been put back, and then waits.
Linked(a) ==
  /\ a.attach = "remote"
  /\ a.lists \in {{}, {"remote"}}
  /\ a.state # "destroyed" => a.lists = {"remote"}
  /\ a.putBack \subseteq {a.first}
  /\ a.inMsgs = <<>> \/ (a.inMsgs = <<a.first>> /\ a.putBack = {a.first})

\* The thread of the engine owns the connection.
WithEngine(a) ==
  /\ a.stage = "none" /\ a.waits = FALSE /\ a.mstate = "DONE" /\ a.first \in Msgs
  /\ a.stream["app"] = "closed" /\ a.tasks["app"] = <<>>
  /\ a.stream["engine"] # "none"
  /\ ~Has(a.tasks["engine"], "clean")
  /\ Unlinked(a) \/ Linked(a)

\* Where a connection can be, whatever its client sends.
Place(a) ==
  /\ a.owner = "app" => WithApp(a)
  /\ a.owner = "engine" => WithEngine(a)

\* The kept messages are the next ones without a gap, everything that has been
\* handled came before them, and in its order.
MsgsOK(a) ==
  /\ \A i \in 1..Len(a.cached) : a.cached[i] = Upto(a) + i
  /\ Below(a.log, Upto(a)) /\ Ascending(a.log, a.putBack)

\* What is added when the client begins with a message for a graph: nothing
\* comes before that message, and nothing behind it reaches the app.
Straight(a) ==
  /\ a.failed = FALSE /\ MsgsOK(a)
  /\ a.mstate = "INIT" => a.next = 1
  /\ a.mstate # "INIT" => a.first = 1 /\ Upto(a) >= 1
  /\ a.owner = "app" =>
       /\ a.log = <<>> /\ a.tasks["app"] \in {<<>>, <<"clean">>}
       /\ a.mstate # "INIT" => InTransit(a)
  /\ a.owner = "engine" =>
       /\ a.cached # <<>> => Has(a.tasks["engine"], "cleaned")
       /\ a.attach = "engine" => a.log = <<>>

\* Which states a connection can be in.
OK(a) ==
  /\ a \in Connection /\ Len(a.cached) < a.next
  /\ Place(a)
  /\ FirstMoves => Straight(a)

\* The inductive invariant of a connection.
IInv == script \in Scripts /\ OK(s)

-----------------------------------------------------------------------------
\* The values of a stream and of a task.
StreamStates == {"none", "reading", "stopped", "cleaning", "closing", "closed"}
\* The tasks of a connection.
TaskNames == {"clean", "cleaned", "in_msgs", "close"}

\* The fields of a connection.
LEMMA Fields ==
  ASSUME Usage, script \in Scripts, NEW a \in Connection
  PROVE  /\ Len(script) \in Nat /\ Msgs = 1..Len(script) /\ script \in Seq(Kinds)
         /\ a.next \in 1..(Len(script) + 1) /\ a.next \in Nat
         /\ a.state \in {"open", "closing", "destroyed"}
         /\ a.cached \in Seq(Msgs) /\ a.inMsgs \in Seq(Msgs) /\ a.log \in Seq(Msgs)
         /\ a.tasks \in [Threads -> Seq(TaskNames)]
         /\ a.tasks["app"] \in Seq(TaskNames) /\ a.tasks["engine"] \in Seq(TaskNames)
         /\ a.stream \in [Threads -> {"none", "reading", "stopped", "cleaning", "closing",
                                      "closed"}]
         /\ a.first \in 0..Len(script) /\ a.first \in Nat
         /\ a.owner \in {"app", "engine"} /\ a.mstate \in {"INIT", "FIRST_MSG", "DONE"}
<1>1. script \in Seq(Kinds)
  BY DEF Usage, MigrationAssumption
<1>2. Len(script) \in Nat /\ Msgs = 1..Len(script)
  BY <1>1 DEF Msgs
<1> QED
  BY <1>1, <1>2 DEF Connection, TaskNames, Threads

\* What the app does with a first message h, when c came with it.
Taken(a, h, c, r) ==
  \/ /\ script[h] \in {"start", "graph"}
     /\ r = [a EXCEPT !.mstate = "FIRST_MSG", !.stream["app"] = "stopped",
                      !.stage = "start", !.first = h, !.cached = @ \o c]
  \/ /\ script[h] = "unknown"
     /\ r = [a EXCEPT !.mstate = "INIT", !.log = Append(@, h), !.cached = @ \o c,
                      !.tasks["app"] = Append(@, "cleaned")]
  \/ /\ script[h] = "close_app"
     /\ r = [a EXCEPT !.mstate = "DONE", !.log = Append(@, h), !.cached = @ \o c,
                      !.tasks["app"] = Append(@, "cleaned")]
  \/ /\ script[h] = "other"
     /\ r = [a EXCEPT !.mstate = "FIRST_MSG", !.log = Append(@, h),
                      !.cached = @ \o c]

\* The batch that a read gives, or that was kept, is handed on.
LEMMA AppTakes ==
  ASSUME Usage, script \in Scripts, NEW a \in Connection, NEW taken \in Seq(Msgs),
         taken # <<>>, a.mstate = "INIT", a.state = "open",
         NEW h, h = Head(taken), NEW c, c = Tail(taken),
         NEW r, r = ten_protocol_on_inputs_based_on_migration_state(a, taken)
  PROVE  Taken(a, h, c, r)
<1> DEFINE f == [a EXCEPT !.mstate = "FIRST_MSG"]
           b == ten_protocol_on_input(a, h)
<1>1. h \in Msgs /\ c \in Seq(Msgs) /\ script[h] \in Kinds
  BY Fields, HeadTailProperties
<1>2. r = [b EXCEPT !.cached = @ \o c]
  BY DEF ten_protocol_on_inputs_based_on_migration_state
<1>3. b = ten_app_handle_msg_default_handler(f, h)
  BY DEF ten_protocol_on_input
<1>4. f.mstate = "FIRST_MSG" /\ OwnLoop = TRUE
  BY DEF Connection, Usage
<1>5. CASE script[h] \in {"start", "graph"}
  <2>1. b = [f EXCEPT !.stream["app"] = "stopped", !.stage = "start", !.first = h]
    BY <1>3, <1>4, <1>5
    DEF ten_app_handle_msg_default_handler, ten_connection_migrate,
        ten_app_do_connection_migration_or_push_to_engine_queue
  <2>2. r = [a EXCEPT !.mstate = "FIRST_MSG", !.stream["app"] = "stopped",
                                 !.stage = "start", !.first = h, !.cached = @ \o c]
    BY <1>2, <2>1 DEF Connection
  <2> QED
    BY <1>5, <2>2 DEF Taken
<1>6. CASE script[h] = "unknown"
  <2>1. b = PostTo(Handled([f EXCEPT !.mstate = "INIT"], h), "app", "cleaned")
    BY <1>3, <1>6 DEF ten_app_handle_msg_default_handler
  <2>9. b = [a EXCEPT !.mstate = "INIT", !.log = Append(@, h),
                      !.tasks["app"] = Append(@, "cleaned")]
    BY <2>1 DEF Connection, PostTo, Handled
  <2> HIDE DEF b
  <2>2. r = [a EXCEPT !.mstate = "INIT", !.log = Append(@, h), !.cached = @ \o c,
                      !.tasks["app"] = Append(@, "cleaned")]
    BY <1>2, <2>9 DEF Connection
  <2> QED
    BY <1>6, <2>2 DEF Taken
<1>7. CASE script[h] = "close_app"
  <2>1. b = PostTo(Handled([f EXCEPT !.mstate = "DONE"], h), "app", "cleaned")
    BY <1>3, <1>7 DEF ten_app_handle_msg_default_handler
  <2>9. b = [a EXCEPT !.mstate = "DONE", !.log = Append(@, h),
                      !.tasks["app"] = Append(@, "cleaned")]
    BY <2>1 DEF Connection, PostTo, Handled
  <2> HIDE DEF b
  <2>2. r = [a EXCEPT !.mstate = "DONE", !.log = Append(@, h), !.cached = @ \o c,
                      !.tasks["app"] = Append(@, "cleaned")]
    BY <1>2, <2>9 DEF Connection
  <2> QED
    BY <1>7, <2>2 DEF Taken
<1>8. CASE script[h] = "other"
  <2>1. b = Handled(f, h)
    BY <1>3, <1>8 DEF ten_app_handle_msg_default_handler
  <2>2. r = [a EXCEPT !.mstate = "FIRST_MSG", !.log = Append(@, h), !.cached = @ \o c]
    BY <1>2, <2>1 DEF Connection, Handled
  <2> QED
    BY <1>8, <2>2 DEF Taken
<1> QED
  BY <1>1, <1>5, <1>6, <1>7, <1>8 DEF Kinds, Taken


\* q holds the messages after u.
Follow(q, u) == \A i \in 1..Len(q) : q[i] = u + i

\* q holds the messages after u, up to the one before n.
Holds(q, u, n) == q \in Seq(Msgs) /\ n = u + Len(q) + 1 /\ Follow(q, u)

\* The app is about to take the messages of q.
Takes(a, q) ==
  /\ a \in Connection /\ a.owner = "app"
  /\ a.attach = "app" /\ a.stream["engine"] = "none"
  /\ a.inMsgs = <<>> /\ a.putBack = {} /\ OnlyInMsgs(a.tasks["engine"])
  /\ a.stage = "none" /\ a.waits = FALSE /\ a.cleaned = FALSE
  /\ a.mstate = "INIT" /\ a.state = "open"
  /\ a.lists = {"app"} /\ a.stream["app"] = "reading" /\ ~Has(a.tasks["app"], "clean")
  /\ q \in Seq(Msgs) /\ q # <<>> /\ Len(a.cached) + Len(q) < a.next
  /\ Len(script) = 1 => a.cached = <<>> /\ Len(q) = 1 /\ a.next = 2
  /\ FirstMoves =>
       /\ a.failed = FALSE /\ a.log = <<>> /\ a.cached = <<>> /\ a.tasks["app"] = <<>>
       /\ Holds(q, 0, a.next)

\* A step of the handshake is one of its stages.
LEMMA SetStage ==
  ASSUME NEW a \in Connection, NEW g \in DOMAIN Stages \cup {"none", "dst_done"}
  PROVE  [a EXCEPT !.stage = g] \in Connection
  BY DEF Connection

\* The messages that have been handled are messages.
LEMMA WriteLog ==
  ASSUME NEW a \in Connection, NEW p \in Seq(Msgs)
  PROVE  [a EXCEPT !.log = p] \in Connection
  BY Zenon DEF Connection

\* The tasks of the two loops are tasks.
LEMMA WriteTasks ==
  ASSUME NEW a \in Connection,
         NEW v \in [Threads -> Seq({"clean", "cleaned", "in_msgs", "close"})]
  PROVE  [a EXCEPT !.tasks = v] \in Connection
  BY Zenon DEF Connection

\* The app hands on the first of the messages, whatever it is.
LEMMA AppTakesOK ==
  ASSUME Usage, script \in Scripts, NEW a, NEW taken, Takes(a, taken),
         NEW r, r = ten_protocol_on_inputs_based_on_migration_state(a, taken)
  PROVE  OK(r)
<1> DEFINE h == Head(taken)
           c == Tail(taken)
           k == a.cached \o c
<1>1. /\ a \in Connection /\ taken \in Seq(Msgs) /\ taken # <<>> /\ a.mstate = "INIT"
      /\ a.state = "open" /\ a.cached \in Seq(Msgs) /\ a.log \in Seq(Msgs) /\ a.next \in Nat
  BY Fields DEF Takes
<1>2. /\ Len(script) \in Nat /\ Msgs = 1..Len(script) /\ script \in Seq(Kinds)
      /\ a.tasks \in [Threads -> Seq(TaskNames)] /\ a.tasks["app"] \in Seq(TaskNames)
      /\ a.stream \in [Threads -> StreamStates]
  BY <1>1, Fields DEF StreamStates
<1>3. /\ h \in Msgs /\ h = taken[1] /\ c \in Seq(Msgs) /\ Len(c) = Len(taken) - 1
      /\ Len(taken) \in Nat /\ Len(taken) >= 1 /\ Len(c) \in Nat
      /\ \A i \in 1..Len(c) : c[i] = taken[i + 1]
  <2>1. /\ h \in Msgs /\ h = taken[1] /\ c \in Seq(Msgs) /\ Len(c) = Len(taken) - 1
        /\ \A i \in 1..Len(c) : c[i] = taken[i + 1]
    BY <1>1, HeadTailProperties
  <2>2. Len(taken) \in Nat /\ Len(c) \in Nat
    BY <1>1, <2>1
  <2> QED
    BY <2>1, <2>2
<1>4. Taken(a, h, c, r)
  <2> HIDE DEF h, c
  <2> QED
    BY <1>1, AppTakes DEF h, c
<1>5. k \in Seq(Msgs) /\ Len(k) < a.next
  <2>1. k \in Seq(Msgs) /\ Len(k) = Len(a.cached) + Len(c) /\ Len(a.cached) \in Nat
    BY <1>1, <1>3
  <2>2. Len(a.cached) + Len(taken) < a.next
    BY DEF Takes
  <2> HIDE DEF k, c
  <2> QED
    BY <1>1, <1>3, <2>1, <2>2
<1>6. FirstMoves => h = 1 /\ script[h] \in {"start", "graph"}
  <2> SUFFICES ASSUME FirstMoves PROVE h = 1 /\ script[h] \in {"start", "graph"}
    OBVIOUS
  <2>1. 1 \in 1..Len(taken) /\ taken[1] = 0 + 1
    BY <1>3 DEF Takes, Holds, Follow
  <2> QED
    BY <1>3, <2>1 DEF FirstMoves
<1> HIDE DEF h, c, k
<1>7. CASE script[h] \in {"start", "graph"}
  <2> DEFINE g == [a.stream EXCEPT !["app"] = "stopped"]
  <2>1. r = [a EXCEPT !.mstate = "FIRST_MSG", !.stream = g, !.stage = "start",
                      !.first = h, !.cached = k]
    BY <1>4, <1>7 DEF Taken, k
  <2>2. g \in [Threads -> StreamStates] /\ g["app"] = "stopped" /\ g["engine"] = a.stream["engine"]
    BY <1>2 DEF StreamStates, Threads
  <2>3. h \in 0..Len(script) /\ "start" \in DOMAIN Stages
    BY <1>2, <1>3 DEF Stages
  <2> HIDE DEF g
  <2>4. r \in Connection
    <3>1. /\ a \in Connection /\ k \in Seq(Msgs) /\ h \in 0..Len(script)
          /\ "start" \in DOMAIN Stages \cup {"none", "dst_done"}
          /\ "FIRST_MSG" \in {"INIT", "FIRST_MSG", "DONE"}
          /\ g \in [Threads -> {"none", "reading", "stopped", "cleaning", "closing", "closed"}]
      BY <1>1, <1>5, <2>2, <2>3 DEF StreamStates
    <3> DEFINE b == [a EXCEPT !.mstate = "FIRST_MSG", !.stream = g]
    <3>2. b \in Connection
      BY <3>1, ZenonT(60) DEF Connection
    <3> DEFINE d == [b EXCEPT !.first = h, !.cached = k]
    <3>3. r = [d EXCEPT !.stage = "start"]
      BY <2>1
    <3> HIDE DEF b
    <3>4. d \in Connection
      BY <3>1, <3>2, ZenonT(60) DEF Connection
    <3> HIDE DEF d
    <3> QED
      BY <3>1, <3>3, <3>4, SetStage
  <2>5. /\ r.next = a.next /\ r.cached = k /\ r.log = a.log /\ r.putBack = a.putBack
        /\ r.owner = a.owner /\ r.failed = a.failed /\ r.attach = a.attach
        /\ r.inMsgs = a.inMsgs /\ r.tasks = a.tasks /\ r.stage = "start" /\ r.waits = a.waits
        /\ r.cleaned = a.cleaned /\ r.mstate = "FIRST_MSG" /\ r.state = "open"
        /\ r.lists = a.lists /\ r.first = h /\ r.stream = g
    BY <1>1, <2>1 DEF Connection
  <2>6. Moving(r)
    <3>1. AppHasIt(r)
      BY <2>2, <2>5 DEF AppHasIt, Takes
    <3>2. Handshakes(r)
      BY <2>2, <2>5, <3>1 DEF Handshakes, Takes
    <3> QED
      BY <1>3, <2>5, <3>2 DEF Moving
  <2>7. Place(r)
    BY <2>2, <2>5, <2>6 DEF Place, WithApp, Takes
  <2>8. ASSUME FirstMoves PROVE Straight(r)
    <3>1. /\ a.failed = FALSE /\ a.log = <<>> /\ a.cached = <<>> /\ a.tasks["app"] = <<>>
          /\ a.putBack = {} /\ a.owner = "app" /\ a.next = Len(taken) + 1
          /\ \A i \in 1..Len(taken) : taken[i] = i
      BY <1>3, <2>8 DEF Takes, Holds, Follow
    <3>2. k = c
      BY <1>3, <3>1 DEF k
    <3>3. Upto(r) = 1
      BY <1>3, <2>5, <3>1, <3>2 DEF Upto
    <3>4. \A i \in 1..Len(c) : c[i] = 1 + i
      <4>1. \A i \in 1..Len(c) : i + 1 \in 1..Len(taken)
        BY <1>3
      <4> QED
        BY <1>3, <3>1, <4>1
    <3>5. Len(r.log) = 0
      BY <2>5, <3>1
    <3>6. MsgsOK(r)
      BY <2>5, <3>2, <3>3, <3>4, <3>5 DEF MsgsOK, Below, Ascending
    <3>7. InTransit(r)
      BY <2>5 DEF InTransit
    <3> QED
      BY <1>6, <2>5, <2>8, <3>1, <3>3, <3>6, <3>7 DEF Straight
  <2> QED
    BY <1>5, <2>4, <2>5, <2>7, <2>8 DEF OK
<1>8. ASSUME script[h] \notin {"start", "graph"},
             NEW m \in {"INIT", "FIRST_MSG", "DONE"}, NEW q \in Seq(TaskNames),
             ~Has(q, "clean"),
             r = [a EXCEPT !.mstate = m, !.log = Append(@, h), !.cached = k,
                           !.tasks["app"] = q],
             m = "DONE" => script[h] = "close_app"
      PROVE  OK(r)
  <2> DEFINE v == [a.tasks EXCEPT !["app"] = q]
             p == Append(a.log, h)
  <2>1. /\ v \in [Threads -> Seq(TaskNames)] /\ v["app"] = q
        /\ v["engine"] = a.tasks["engine"] /\ p \in Seq(Msgs)
        /\ r = [a EXCEPT !.mstate = m, !.log = p, !.cached = k, !.tasks = v]
    BY <1>1, <1>2, <1>3, <1>8 DEF Threads
  <2> HIDE DEF v, p
  <2>2. r \in Connection
    <3>1. v \in [Threads -> Seq({"clean", "cleaned", "in_msgs", "close"})]
      BY <2>1 DEF TaskNames
    <3>2. /\ a \in Connection /\ k \in Seq(Msgs) /\ p \in Seq(Msgs)
          /\ m \in {"INIT", "FIRST_MSG", "DONE"}
      BY <1>1, <1>5, <1>8, <2>1
    <3>3. [a EXCEPT !.mstate = m, !.log = p, !.cached = k, !.tasks = v] \in Connection
      BY <3>1, <3>2, ZenonT(30) DEF Connection
    <3> QED
      BY <2>1, <3>3, Zenon
  <2>3. /\ r.next = a.next /\ r.cached = k /\ r.putBack = a.putBack
        /\ r.owner = a.owner /\ r.attach = a.attach
        /\ r.inMsgs = a.inMsgs /\ r.stage = a.stage /\ r.waits = a.waits
        /\ r.cleaned = a.cleaned /\ r.mstate = m /\ r.state = a.state
        /\ r.lists = a.lists /\ r.stream = a.stream /\ r.tasks = v
    BY <1>1, <2>1 DEF Connection
  <2>4. m = "DONE" => r.next = Len(script) + 1 /\ r.cached = <<>>
    <3> SUFFICES ASSUME m = "DONE" PROVE r.next = Len(script) + 1 /\ r.cached = <<>>
      OBVIOUS
    <3>1. script[h] = "close_app" /\ ~FirstMoves
      BY <1>6, <1>8
    <3>2. Len(script) = 1 \/ script[1] \in {"start", "graph"}
      BY <1>2, <1>3, <3>1 DEF Usage
    <3>3. Len(script) = 1
      BY <1>2, <1>3, <3>1, <3>2 DEF FirstMoves
    <3>4. a.cached = <<>> /\ Len(taken) = 1 /\ a.next = 2
      BY <3>3 DEF Takes
    <3>5. c = <<>>
      BY <1>3, <3>4, EmptySeq
    <3>6. k = <<>>
      BY <3>4, <3>5 DEF k
    <3> QED
      BY <2>3, <3>3, <3>4, <3>6
  <2>5. AtApp(r)
    BY <1>8, <2>1, <2>3, <2>4 DEF AtApp, AppHasIt, Takes
  <2>6. Place(r)
    BY <2>1, <2>3, <2>5 DEF Place, WithApp, Takes
  <2> QED
    BY <1>5, <1>6, <1>8, <2>2, <2>3, <2>6 DEF OK
<1>9. /\ Append(a.tasks["app"], "cleaned") \in Seq(TaskNames)
      /\ ~Has(Append(a.tasks["app"], "cleaned"), "clean") /\ ~Has(a.tasks["app"], "clean")
  <2>1. "cleaned" \in TaskNames /\ ~Has(a.tasks["app"], "clean")
    BY DEF TaskNames, Takes
  <2> QED
    BY <1>2, <2>1, AppendQueue
<1>10. CASE script[h] \in {"unknown", "close_app"}
  BY <1>4, <1>8, <1>9, <1>10 DEF Taken, k
<1>11. CASE script[h] = "other"
  <2>1. r = [a EXCEPT !.mstate = "FIRST_MSG", !.log = Append(@, h), !.cached = k]
    BY <1>4, <1>11 DEF Taken, k
  <2>2. [a.tasks EXCEPT !["app"] = a.tasks["app"]] = a.tasks
    BY <1>2
  <2>3. r = [a EXCEPT !.mstate = "FIRST_MSG", !.log = Append(@, h), !.cached = k,
                      !.tasks["app"] = a.tasks["app"]]
    BY <2>1, <2>2
  <2> QED
    BY <1>2, <1>8, <1>9, <1>11, <2>3
<1> QED
  BY <1>4, <1>7, <1>10, <1>11 DEF Taken

\* The log grows by the messages after u.
LEMMA LogConcat ==
  ASSUME NEW S, S \subseteq Nat, NEW q \in Seq(S), NEW u \in Nat, NEW taken \in Seq(S),
         Below(q, u), Follow(taken, u)
  PROVE  /\ q \o taken \in Seq(S) /\ Below(q \o taken, u + Len(taken))
         /\ \A P : Ascending(q, P) => Ascending(q \o taken, P)
<1> USE DEF Below, Follow
<1> DEFINE p == q \o taken
<1>1. /\ p \in Seq(S) /\ Len(q) \in Nat /\ Len(taken) \in Nat /\ Len(p) = Len(q) + Len(taken)
      /\ \A i \in 1..Len(p) : p[i] = IF i <= Len(q) THEN q[i] ELSE taken[i - Len(q)]
  OBVIOUS
<1>2. \A i \in 1..Len(q) : q[i] \in S
  OBVIOUS
<1> HIDE DEF p
<1>3. ASSUME NEW i \in 1..Len(p)
      PROVE  \/ i \in 1..Len(q) /\ p[i] = q[i] /\ q[i] \in Nat /\ q[i] <= u
             \/ i > Len(q) /\ i - Len(q) \in 1..Len(taken) /\ p[i] = u + (i - Len(q))
  <2>1. CASE i <= Len(q)
    <3>1. i \in 1..Len(q) /\ p[i] = q[i]
      BY <1>1, <2>1
    <3> QED
      BY <1>2, <3>1
  <2>2. CASE ~(i <= Len(q))
    <3>1. i - Len(q) \in 1..Len(taken) /\ i > Len(q) /\ p[i] = taken[i - Len(q)]
      BY <1>1, <2>2
    <3> QED
      BY <3>1
  <2> QED
    BY <2>1, <2>2
<1>4. \A i \in 1..Len(p) : p[i] <= u + Len(taken)
  <2> SUFFICES ASSUME NEW i \in 1..Len(p) PROVE p[i] <= u + Len(taken)
    OBVIOUS
  <2> QED
    BY <1>1, <1>3
<1>5. ASSUME NEW P, Ascending(q, P) PROVE Ascending(p, P)
  <2> SUFFICES ASSUME NEW i \in 1..Len(p), NEW j \in 1..Len(p), i < j
                 PROVE  p[i] < p[j] \/ p[j] \in P
    BY DEF Ascending
  <2>1. CASE i \in 1..Len(q) /\ j \in 1..Len(q)
    <3>1. p[i] = q[i] /\ p[j] = q[j]
      BY <1>1, <1>3, <2>1
    <3>2. q[i] < q[j] \/ q[j] \in P
      BY <1>5, <2>1 DEF Ascending
    <3> QED
      BY <3>1, <3>2
  <2>2. CASE i \in 1..Len(q) /\ j > Len(q)
    <3>1. ~(i > Len(q)) /\ j \notin 1..Len(q)
      BY <1>1, <2>2
    <3>2. p[i] \in Nat /\ p[i] <= u
      BY <1>3, <3>1
    <3>3. j - Len(q) \in 1..Len(taken) /\ p[j] = u + (j - Len(q))
      BY <1>3, <3>1
    <3> QED
      BY <1>1, <3>2, <3>3
  <2>3. CASE i > Len(q)
    <3>1. i \notin 1..Len(q) /\ j \notin 1..Len(q) /\ i - Len(q) < j - Len(q)
      BY <1>1, <2>3
    <3>2. p[i] = u + (i - Len(q)) /\ p[j] = u + (j - Len(q))
      BY <1>3, <3>1
    <3> QED
      BY <1>1, <3>1, <3>2
  <2> QED
    BY <1>1, <1>3, <2>1, <2>2, <2>3
<1> QED
  BY <1>1, <1>4, <1>5 DEF p

\* The engine is about to take the messages of q.
EngineTakes(a, q) ==
  /\ a \in Connection /\ a.owner = "engine" /\ WithEngine(a) /\ Linked(a)
  /\ q \in Seq(Msgs) /\ Len(a.cached) < a.next
  /\ FirstMoves =>
       /\ a.failed = FALSE /\ a.first = 1 /\ a.cached = <<>>
       /\ \E u \in Nat : u >= 1 /\ Holds(q, u, a.next)
                         /\ Below(a.log, u) /\ Ascending(a.log, a.putBack)

\* The engine's thread hands on the messages of a connection that has moved.
LEMMA EngineTakesOK ==
  ASSUME Usage, script \in Scripts, NEW a, NEW taken, EngineTakes(a, taken),
         NEW r, r = ten_protocol_on_inputs_based_on_migration_state(a, taken)
  PROVE  OK(r)
<1> DEFINE p == a.log \o taken
<1>1. /\ a \in Connection /\ a.log \in Seq(Msgs) /\ taken \in Seq(Msgs) /\ p \in Seq(Msgs)
      /\ Msgs \subseteq Nat /\ a.next \in Nat
      /\ a.attach = "remote" /\ a.mstate = "DONE" /\ a.owner = "engine"
  <2>1. a \in Connection /\ taken \in Seq(Msgs)
    BY DEF EngineTakes
  <2>2. a.log \in Seq(Msgs) /\ Msgs \subseteq Nat /\ a.next \in Nat
    BY <2>1, Fields
  <2> QED
    BY <2>1, <2>2 DEF EngineTakes, WithEngine, Linked
<1>2. r = IF a.state = "open" THEN [a EXCEPT !.log = p] ELSE a
  <2>1. r = ten_protocol_on_inputs(a, taken)
    BY <1>1 DEF ten_protocol_on_inputs_based_on_migration_state
  <2>2. a.attach # "app"
    BY <1>1
  <2>3. ten_protocol_on_inputs(a, taken)
          = IF a.state = "open" THEN [a EXCEPT !.log = @ \o taken] ELSE a
    BY <1>1, <2>2, Zenon DEF ten_protocol_on_inputs
  <2> QED
    BY <2>1, <2>3
<1> HIDE DEF p
<1>3. /\ r \in Connection
      /\ r.next = a.next /\ r.cached = a.cached /\ r.putBack = a.putBack /\ r.tasks = a.tasks
      /\ r.owner = a.owner /\ r.failed = a.failed /\ r.attach = a.attach
      /\ r.stream = a.stream /\ r.inMsgs = a.inMsgs /\ r.stage = a.stage
      /\ r.waits = a.waits /\ r.mstate = a.mstate /\ r.state = a.state
      /\ r.lists = a.lists /\ r.first = a.first
      /\ r.log = p \/ r.log = a.log
  <2>1. CASE a.state = "open"
    <3>1. r = [a EXCEPT !.log = p]
      BY <1>2, <2>1
    <3>2. a \in Connection /\ p \in Seq(Msgs)
      BY <1>1
    <3>3. r \in Connection
      BY <3>1, <3>2, WriteLog, Zenon
    <3> QED
      BY <3>1, <3>2, <3>3 DEF Connection
  <2>2. CASE a.state # "open"
    BY <1>1, <1>2, <2>2
  <2> QED
    BY <2>1, <2>2
<1>4. Linked(r)
  BY <1>3 DEF Linked, EngineTakes
<1>5. Place(r)
  BY <1>1, <1>3, <1>4 DEF Place, WithEngine, EngineTakes
<1>6. ASSUME FirstMoves PROVE Straight(r)
  <2>1. a.failed = FALSE /\ a.first = 1 /\ a.cached = <<>>
    BY <1>6 DEF EngineTakes
  <2>2. PICK u \in Nat : u >= 1 /\ Holds(taken, u, a.next)
                         /\ Below(a.log, u) /\ Ascending(a.log, a.putBack)
    BY <1>6 DEF EngineTakes
  <2>3. Len(taken) \in Nat /\ a.next = u + Len(taken) + 1 /\ Follow(taken, u)
    BY <1>1, <2>2 DEF Holds
  <2>4. Below(p, u + Len(taken)) /\ Ascending(p, a.putBack)
    BY <1>1, <2>2, <2>3, LogConcat, Zenon DEF p
  <2>5. Below(a.log, u + Len(taken))
    <3>a. \A i \in 1..Len(a.log) : a.log[i] \in Msgs
      BY <1>1
    <3>1. \A i \in 1..Len(a.log) : a.log[i] \in Nat
      BY <1>1, <3>a
    <3> QED
      BY <2>2, <2>3, <3>1 DEF Below
  <2>6. Len(r.cached) = 0
    BY <1>3, <2>1
  <2>7. Upto(r) = u + Len(taken) /\ Upto(r) >= 1
    <3>1. r.next = u + Len(taken) + 1 /\ u \in Nat /\ u >= 1
      BY <1>3, <2>2, <2>3
    <3>2. Upto(r) = (u + Len(taken) + 1) - 0 - 1
      BY <2>6, <3>1 DEF Upto
    <3> QED
      BY <2>3, <3>1, <3>2
  <2>8. Below(r.log, Upto(r)) /\ Ascending(r.log, r.putBack)
    <3>1. CASE r.log = p
      BY <1>3, <2>4, <2>7, <3>1
    <3>2. CASE r.log = a.log
      BY <1>3, <2>2, <2>5, <2>7, <3>2
    <3> QED
      BY <1>3, <3>1, <3>2
  <2>9. MsgsOK(r)
    BY <2>6, <2>8 DEF MsgsOK
  <2> QED
    BY <1>1, <1>3, <2>1, <2>7, <2>9 DEF Straight
<1> QED
  BY <1>3, <1>5, <1>6 DEF OK, EngineTakes

-----------------------------------------------------------------------------
(* The actions.                                                            *)

\* What the invariant says of the state.
LEMMA Here ==
  ASSUME Usage, IInv
  PROVE  /\ script \in Scripts /\ s \in Connection /\ OK(s) /\ Place(s)
         /\ Len(s.cached) < s.next /\ (FirstMoves => Straight(s))
         /\ (s.owner = "app" /\ WithApp(s)) \/ (s.owner = "engine" /\ WithEngine(s))
         /\ s.state \in {"open", "closing", "destroyed"}
         /\ s.stream \in [Threads -> StreamStates]
         /\ s.tasks \in [Threads -> Seq(TaskNames)]
         /\ s.tasks["app"] \in Seq(TaskNames) /\ s.tasks["engine"] \in Seq(TaskNames)
         /\ s.inMsgs \in Seq(Msgs) /\ s.log \in Seq(Msgs) /\ s.cached \in Seq(Msgs)
         /\ s.next \in Nat /\ s.next >= 1
         /\ Len(script) \in Nat /\ Msgs = 1..Len(script) /\ Msgs \subseteq Nat
<1>1. /\ script \in Scripts /\ s \in Connection /\ OK(s) /\ Place(s)
      /\ Len(s.cached) < s.next /\ (FirstMoves => Straight(s))
  BY DEF IInv, OK
<1>2. (s.owner = "app" /\ WithApp(s)) \/ (s.owner = "engine" /\ WithEngine(s))
  <2>1. s.owner \in {"app", "engine"}
    BY <1>1, Fields
  <2> QED
    BY <1>1, <2>1 DEF Place
<1>3. s.next >= 1 /\ Msgs \subseteq Nat
  BY <1>1, Fields
<1> QED
  BY <1>1, <1>2, <1>3, Fields DEF StreamStates

\* A stream that is read belongs to the app while the connection stays with it,
\* and to the engine once the connection has its remote.
LEMMA Reader ==
  ASSUME Usage, IInv, NEW t \in Threads, Reads(t)
  PROVE  \/ /\ t = "app" /\ s.owner = "app" /\ WithApp(s) /\ AtApp(s)
            /\ s.state = "open" /\ s.lists = {"app"} /\ s.attach = "app"
         \/ /\ t = "engine" /\ s.owner = "engine" /\ WithEngine(s) /\ Linked(s)
            /\ s.attach = "remote" /\ ~Has(s.tasks["engine"], "cleaned")
<1>1. /\ s.stream[t] = "reading"
      /\ t = "engine" => "cleaned" \notin ToSet(s.tasks[t])
  BY DEF Reads
<1>2. CASE s.owner = "app" /\ WithApp(s)
  <2>1. t = "app" /\ s.attach = "app"
    BY <1>1, <1>2 DEF WithApp, Threads
  <2>2. AtApp(s)
    BY <1>1, <1>2, <2>1 DEF WithApp, Moving, Handshakes, Waits
  <2>3. s.state = "open" /\ s.lists = {"app"}
    BY <1>1, <2>1, <2>2, Here DEF AtApp, AppHasIt
  <2> QED
    BY <1>2, <2>1, <2>2, <2>3
<1>3. CASE s.owner = "engine" /\ WithEngine(s)
  <2>1. t = "engine"
    BY <1>1, <1>3 DEF WithEngine, Threads
  <2>2. ~Has(s.tasks["engine"], "cleaned")
    <3>1. DOMAIN s.tasks["engine"] = 1..Len(s.tasks["engine"])
      BY Here
    <3> QED
      BY <1>1, <2>1, <3>1 DEF ToSet, Has
  <2> QED
    BY <1>3, <2>1, <2>2 DEF WithEngine, Unlinked, Linked
<1> QED
  BY <1>2, <1>3, Here

\* Messages are read.
LEMMA ReadOK ==
  ASSUME Usage, IInv, NEW t \in Threads, ten_stream_on_data(t)
  PROVE  OK(s')
<1>1. PICK last \in s.next..Len(script) :
        s' = ten_protocol_on_inputs_based_on_migration_state(
               [s EXCEPT !.next = last + 1],
               [i \in 1..(last + 1 - s.next) |-> s.next + i - 1])
  BY DEF ten_stream_on_data, Step
<1> DEFINE a == [s EXCEPT !.next = last + 1]
           taken == [i \in 1..(last + 1 - s.next) |-> s.next + i - 1]
           u == s.next - 1
<1>2. /\ Reads(t) /\ script \in Scripts /\ s \in Connection
  BY Here DEF ten_stream_on_data
<1>3. /\ last \in Nat /\ s.next <= last /\ last <= Len(script) /\ u \in Nat
      /\ last + 1 - s.next \in Nat /\ last + 1 - s.next >= 1
  BY Here
<1>4. a \in Connection /\ a.next = last + 1
  <2>1. last + 1 \in 1..(Len(script) + 1)
    BY <1>3, Here
  <2> QED
    BY <1>2, <2>1 DEF Connection
<1>5. taken \in Seq(Msgs) /\ Len(taken) = last + 1 - s.next /\ taken # <<>>
  <2>1. \A i \in 1..(last + 1 - s.next) : s.next + i - 1 \in Msgs
    BY <1>3, Here, SMTT(60)
  <2>2. taken \in Seq(Msgs) /\ Len(taken) = last + 1 - s.next
    BY <1>3, <2>1
  <2> QED
    BY <1>3, <2>2
<1>6. Holds(taken, u, a.next)
  <2>1. \A i \in 1..Len(taken) : taken[i] = u + i
    BY <1>3, <1>5, Here
  <2>2. a.next = u + Len(taken) + 1
    BY <1>3, <1>4, <1>5, Here
  <2> QED
    BY <1>5, <2>1, <2>2 DEF Holds, Follow
<1>7. /\ a.owner = s.owner /\ a.failed = s.failed /\ a.attach = s.attach
      /\ a.stream = s.stream /\ a.inMsgs = s.inMsgs /\ a.putBack = s.putBack
      /\ a.tasks = s.tasks /\ a.stage = s.stage /\ a.waits = s.waits
      /\ a.cleaned = s.cleaned /\ a.mstate = s.mstate /\ a.state = s.state
      /\ a.cached = s.cached /\ a.lists = s.lists /\ a.log = s.log /\ a.first = s.first
  BY <1>2 DEF Connection
<1>8. /\ Len(a.cached) + Len(taken) < a.next /\ Len(a.cached) < a.next
      /\ Len(s.cached) \in Nat
  <2>1. Len(s.cached) \in Nat /\ Len(s.cached) < s.next /\ s.next \in Nat
    BY Here
  <2> HIDE DEF a, taken
  <2> QED
    BY <1>3, <1>4, <1>5, <1>7, <2>1, SMTT(30)
<1> DEFINE r == ten_protocol_on_inputs_based_on_migration_state(a, taken)
<1>9. s' = r
  BY <1>1
<1> HIDE DEF a, taken, r
<1>10. ASSUME FirstMoves, AtApp(s), s.owner = "app"
       PROVE  /\ s.failed = FALSE /\ s.log = <<>> /\ s.cached = <<>> /\ s.next = 1
              /\ s.tasks["app"] = <<>> /\ s.mstate = "INIT"
  <2>1. Straight(s)
    BY <1>10, Here
  <2>2. s.mstate = "INIT" /\ s.next = 1
    BY <1>10, <2>1 DEF Straight, AtApp, InTransit
  <2>3. s.cached = <<>>
    BY <1>8, <2>2, Here, EmptySeq
  <2>4. s.tasks["app"] # <<"clean">>
    <3>1. Has(<<"clean">>, "clean")
      BY DEF Has
    <3> QED
      BY <1>10, <3>1 DEF AtApp
  <2> QED
    BY <1>10, <2>1, <2>2, <2>3, <2>4 DEF Straight
<1>11. CASE t = "app"
  <2>1. /\ s.owner = "app" /\ WithApp(s) /\ AtApp(s)
        /\ s.state = "open" /\ s.lists = {"app"} /\ s.attach = "app" /\ s.stream["app"] = "reading"
    BY <1>2, <1>11, Reader DEF Reads
  <2>2. s.mstate # "DONE"
    BY <1>3, <2>1, Here DEF AtApp
  <2>3. CASE s.mstate = "INIT"
    <3>1. FirstMoves =>
            /\ a.failed = FALSE /\ a.log = <<>> /\ a.cached = <<>> /\ a.tasks["app"] = <<>>
            /\ Holds(taken, 0, a.next)
      <4> SUFFICES ASSUME FirstMoves
                   PROVE  /\ a.failed = FALSE /\ a.log = <<>> /\ a.cached = <<>>
                          /\ a.tasks["app"] = <<>> /\ Holds(taken, 0, a.next)
        OBVIOUS
      <4>1. /\ s.failed = FALSE /\ s.log = <<>> /\ s.cached = <<>> /\ s.tasks["app"] = <<>>
            /\ s.next = 1
        BY <1>10, <2>1
      <4>2. u = 0
        BY <4>1
      <4> HIDE DEF u
      <4> QED
        BY <1>6, <1>7, <4>1, <4>2
    <3>2. Len(script) = 1 => a.cached = <<>> /\ Len(taken) = 1 /\ a.next = 2
      <4> SUFFICES ASSUME Len(script) = 1
                   PROVE  a.cached = <<>> /\ Len(taken) = 1 /\ a.next = 2
        OBVIOUS
      <4>1. last = 1 /\ s.next = 1
        BY <1>3, Here
      <4>2. Len(s.cached) = 0
        BY <1>8, <4>1, Here
      <4> QED
        BY <1>4, <1>5, <1>7, <4>1, <4>2, Here, EmptySeq
    <3>3. Takes(a, taken)
      BY <1>4, <1>5, <1>7, <1>8, <2>1, <2>3, <3>1, <3>2 DEF Takes, WithApp, AtApp
    <3> QED
      BY <1>2, <1>9, <3>3, AppTakesOK DEF r
  <2>4. CASE s.mstate = "FIRST_MSG"
    <3>1. r = [a EXCEPT !.failed = TRUE]
      BY <1>7, <2>4 DEF ten_protocol_on_inputs_based_on_migration_state, Fail, r
    <3>2. r \in Connection
      BY <1>4, <3>1 DEF Connection
    <3>3. /\ r.owner = s.owner /\ r.attach = s.attach
          /\ r.stream = s.stream /\ r.inMsgs = s.inMsgs /\ r.putBack = s.putBack
          /\ r.tasks = s.tasks /\ r.stage = s.stage /\ r.waits = s.waits
          /\ r.cleaned = s.cleaned /\ r.mstate = s.mstate /\ r.state = s.state
          /\ r.cached = s.cached /\ r.lists = s.lists /\ r.next = a.next
      BY <1>4, <1>7, <3>1 DEF Connection
    <3>4. AtApp(r)
      BY <2>1, <2>4, <3>3 DEF AtApp, AppHasIt
    <3>5. Place(r)
      BY <2>1, <3>3, <3>4 DEF Place, WithApp
    <3>6. ~FirstMoves
      BY <1>10, <2>1, <2>4
    <3> QED
      BY <1>7, <1>8, <1>9, <3>2, <3>3, <3>5, <3>6 DEF OK
  <2> QED
    BY <1>2, <2>2, <2>3, <2>4, Fields
<1>12. CASE t = "engine"
  <2>1. /\ s.owner = "engine" /\ WithEngine(s) /\ Linked(s)
        /\ s.attach = "remote" /\ ~Has(s.tasks["engine"], "cleaned")
    BY <1>2, <1>12, Reader
  <2>2. Linked(a)
    BY <1>7, <2>1 DEF Linked
  <2>3. WithEngine(a)
    BY <1>7, <2>1, <2>2 DEF WithEngine
  <2>4. ASSUME FirstMoves
        PROVE  /\ a.failed = FALSE /\ a.first = 1 /\ a.cached = <<>>
               /\ \E v \in Nat : v >= 1 /\ Holds(taken, v, a.next)
                                 /\ Below(a.log, v) /\ Ascending(a.log, a.putBack)
    <3>1. Straight(s) /\ s.cached = <<>> /\ s.mstate = "DONE"
      BY <2>1, <2>4, Here DEF Straight, WithEngine
    <3>2. Upto(s) = u
      BY <3>1, Here DEF Upto
    <3>3. /\ s.failed = FALSE /\ s.first = 1 /\ u >= 1
          /\ Below(s.log, u) /\ Ascending(s.log, s.putBack)
      BY <3>1, <3>2 DEF Straight, MsgsOK
    <3> HIDE DEF u
    <3> QED
      BY <1>3, <1>6, <1>7, <3>1, <3>3
  <2>5. EngineTakes(a, taken)
    BY <1>4, <1>5, <1>7, <1>8, <2>1, <2>2, <2>3, <2>4 DEF EngineTakes
  <2> QED
    BY <1>2, <1>9, <2>5, EngineTakesOK DEF r
<1> QED
  BY <1>11, <1>12 DEF Threads

\* What a step that handles no message leaves.
SameMsgs(a, b) ==
  /\ b.next = a.next /\ b.cached = a.cached /\ b.log = a.log /\ b.putBack = a.putBack
  /\ b.failed = a.failed /\ b.mstate = a.mstate /\ b.first = a.first

\* A step that leaves the messages where they are, and the connection with the
\* thread that has it.
LEMMA KeepsOK ==
  ASSUME Usage, IInv, NEW r \in Connection, SameMsgs(s, r), r.owner = s.owner, Place(r),
         s.owner = "app" /\ FirstMoves =>
           /\ r.tasks["app"] \in {<<>>, <<"clean">>}
           /\ InTransit(s) => InTransit(r),
         s.owner = "engine" /\ FirstMoves =>
           /\ r.cached # <<>> => Has(r.tasks["engine"], "cleaned")
           /\ r.attach = s.attach
  PROVE  OK(r)
<1>1. Upto(r) = Upto(s) /\ Len(r.cached) < r.next
  BY Here DEF SameMsgs, Upto
<1>2. ASSUME FirstMoves PROVE Straight(r)
  <2>1. Straight(s)
    BY <1>2, Here
  <2>2. MsgsOK(r)
    BY <1>1, <2>1 DEF Straight, MsgsOK, SameMsgs
  <2> QED
    BY <1>1, <1>2, <2>1, <2>2 DEF Straight, SameMsgs
<1> QED
  BY <1>1, <1>2 DEF OK

\* What a step that moves the connection nowhere leaves, but for the tasks.
SamePlace(a, b) ==
  /\ b.owner = a.owner /\ b.attach = a.attach /\ b.stream = a.stream
  /\ b.inMsgs = a.inMsgs /\ b.putBack = a.putBack /\ b.stage = a.stage
  /\ b.waits = a.waits /\ b.cleaned = a.cleaned /\ b.state = a.state
  /\ b.lists = a.lists /\ b.mstate = a.mstate /\ b.first = a.first /\ b.cut = a.cut

\* The first task of a thread is taken.
LEMMA RestFields ==
  ASSUME Usage, IInv, NEW t \in Threads, s.tasks[t] # <<>>, NEW r, r = RestOf(t)
  PROVE  /\ r \in Connection /\ SameMsgs(s, r) /\ SamePlace(s, r)
         /\ r.tasks[t] = Tail(s.tasks[t])
         /\ \A v \in Threads : v # t => r.tasks[v] = s.tasks[v]
<1> DEFINE q == [s.tasks EXCEPT ![t] = Tail(@)]
<1>1. s.tasks \in [Threads -> Seq(TaskNames)] /\ s \in Connection
  BY Here
<1>2. Tail(s.tasks[t]) \in Seq(TaskNames)
  BY <1>1, TailQueue
<1>3. /\ q \in [Threads -> Seq(TaskNames)] /\ q[t] = Tail(s.tasks[t])
      /\ \A v \in Threads : v # t => q[v] = s.tasks[v]
  BY <1>1, <1>2
<1>4. r = [s EXCEPT !.tasks = q]
  BY DEF RestOf
<1> HIDE DEF q
<1>5. r \in Connection
  <2>1. q \in [Threads -> Seq({"clean", "cleaned", "in_msgs", "close"})] /\ s \in Connection
    BY <1>1, <1>3 DEF TaskNames
  <2> QED
    BY <1>4, <2>1, WriteTasks, Zenon
<1>6. /\ r.next = s.next /\ r.state = s.state /\ r.cut = s.cut
      /\ r.attach = s.attach /\ r.mstate = s.mstate /\ r.owner = s.owner
      /\ r.lists = s.lists /\ r.stream = s.stream /\ r.stage = s.stage
      /\ r.first = s.first /\ r.waits = s.waits /\ r.cleaned = s.cleaned
      /\ r.cached = s.cached /\ r.inMsgs = s.inMsgs
      /\ r.putBack = s.putBack /\ r.failed = s.failed /\ r.log = s.log
      /\ r.tasks = q
  BY <1>1, <1>4 DEF Connection
<1> QED
  BY <1>3, <1>5, <1>6 DEF SameMsgs, SamePlace

\* The app has taken a task other than the one that lets go of the connection.
LEMMA AppTail ==
  ASSUME Usage, IInv, WithApp(s), s.tasks["app"] # <<>>, Head(s.tasks["app"]) # "clean",
         NEW r, SamePlace(s, r),
         r.tasks["app"] = Tail(s.tasks["app"]), r.tasks["engine"] = s.tasks["engine"],
         s.mstate = "DONE" => r.next = s.next /\ r.cached = <<>>
  PROVE  WithApp(r) /\ AppHasIt(r)
<1> DEFINE q == s.tasks["app"]
           p == Tail(s.tasks["app"])
<1>1. /\ Has(q, "clean") <=> Has(p, "clean")
      /\ AtEnd(q, "clean") => AtEnd(p, "clean")
  BY Here, TailQueue, TailMore
<1> HIDE DEF q, p
<1>2. AppHasIt(s)
  BY DEF WithApp, AtApp, Moving, Handshakes, Waits
<1>3. AppHasIt(r)
  BY <1>2 DEF AppHasIt, SamePlace
<1>4. CASE AtApp(s)
  <2>1. AtApp(r)
    BY <1>1, <1>3, <1>4 DEF AtApp, SamePlace, q, p
  <2> QED
    BY <1>3, <2>1 DEF WithApp, SamePlace
<1>5. CASE Moving(s)
  <2>1. CASE Handshakes(s)
    <3>1. Handshakes(r)
      BY <1>1, <1>3, <2>1 DEF Handshakes, SamePlace, q, p
    <3> QED
      BY <1>3, <1>5, <3>1 DEF WithApp, Moving, SamePlace
  <2>2. CASE Waits(s)
    <3>1. CleanLast(p) /\ s.waits = TRUE /\ s.stage = "none" /\ s.cleaned = FALSE
          /\ s.stream["app"] # "reading"
      BY <1>1, <2>2 DEF Waits, CleanLast, q, p
    <3>2. Waits(r)
      BY <1>3, <3>1 DEF Waits, SamePlace, q, p
    <3> QED
      BY <1>3, <1>5, <3>2 DEF WithApp, Moving, SamePlace
  <2> QED
    BY <1>5, <2>1, <2>2 DEF Moving
<1> QED
  BY <1>4, <1>5 DEF WithApp

\* When the client begins with a message for a graph, the app has no task but
\* the one that lets go of the connection.
LEMMA OnlyClean ==
  ASSUME Usage, IInv, s.owner = "app", s.tasks["app"] # <<>>, Head(s.tasks["app"]) # "clean"
  PROVE  ~FirstMoves
<1>1. Head(<<"clean">>) = "clean"
  OBVIOUS
<1>2. FirstMoves => s.tasks["app"] \in {<<>>, <<"clean">>}
  BY Here DEF Straight
<1> QED
  BY <1>1, <1>2

\* The task that hands on what was kept.
LEMMA CleanedTaskOK ==
  ASSUME Usage, IInv, NEW t \in Threads, ten_protocol_on_cleaned_task(t)
  PROVE  OK(s')
<1> DEFINE b == RestOf(t)
           a == [b EXCEPT !.cached = <<>>]
           r == ten_protocol_on_inputs_based_on_migration_state(a, s.cached)
<1>1. /\ s.tasks[t] # <<>> /\ Head(s.tasks[t]) = "cleaned"
      /\ s' = IF s.cached = <<>> THEN a ELSE r
  BY DEF ten_protocol_on_cleaned_task, RunsNext, Step
<1>2. /\ b \in Connection /\ SameMsgs(s, b) /\ SamePlace(s, b)
      /\ b.tasks[t] = Tail(s.tasks[t])
      /\ \A v \in Threads : v # t => b.tasks[v] = s.tasks[v]
  BY <1>1, RestFields
<1> HIDE DEF b
<1>3. a \in Connection
  <2>1. <<>> \in Seq(Msgs) /\ b \in Connection
    BY <1>2
  <2> QED
    BY <2>1, ZenonT(60) DEF Connection
<1>4. /\ a.next = s.next /\ a.cached = <<>> /\ a.log = s.log /\ a.failed = s.failed
      /\ a.putBack = s.putBack /\ a.mstate = s.mstate /\ a.first = s.first
      /\ SamePlace(s, a) /\ a.tasks = b.tasks
  <2>1. /\ a.next = b.next /\ a.state = b.state /\ a.cut = b.cut
        /\ a.attach = b.attach /\ a.mstate = b.mstate /\ a.owner = b.owner
        /\ a.lists = b.lists /\ a.stream = b.stream /\ a.stage = b.stage
        /\ a.first = b.first /\ a.waits = b.waits /\ a.cleaned = b.cleaned
        /\ a.cached = <<>> /\ a.inMsgs = b.inMsgs /\ a.tasks = b.tasks
        /\ a.putBack = b.putBack /\ a.failed = b.failed /\ a.log = b.log
    BY <1>2 DEF Connection
  <2> HIDE DEF a
  <2> QED
    BY <1>2, <2>1 DEF SamePlace, SameMsgs
<1> HIDE DEF a, r
<1>5. Len(a.cached) = 0 /\ Len(a.cached) < a.next /\ Len(s.cached) \in Nat
  BY <1>4, Here
<1>6. CASE s.owner = "app" /\ WithApp(s)
  <2>1. t = "app"
    <3>1. s.tasks[t][1] = "cleaned" /\ 1 \in 1..Len(s.tasks[t])
      BY <1>1, Here, HeadTailProperties
    <3> QED
      BY <1>6, <3>1 DEF WithApp, OnlyInMsgs, Threads
  <2>2. a.tasks["app"] = Tail(s.tasks["app"]) /\ a.tasks["engine"] = s.tasks["engine"]
    BY <1>2, <1>4, <2>1 DEF Threads
  <2>3. WithApp(a)
    BY <1>1, <1>4, <1>6, <2>1, <2>2, AppTail
  <2>4. ~FirstMoves
    BY <1>1, <1>6, <2>1, OnlyClean
  <2>5. CASE s.cached = <<>>
    BY <1>1, <1>3, <1>4, <1>5, <1>6, <2>3, <2>4, <2>5 DEF OK, Place, SamePlace
  <2>6. CASE s.cached # <<>> /\ s.mstate = "FIRST_MSG"
    <3>1. r = [a EXCEPT !.failed = TRUE]
      BY <1>4, <2>6 DEF ten_protocol_on_inputs_based_on_migration_state, Fail, r
    <3>2. r \in Connection
      BY <1>3, <3>1 DEF Connection
    <3>3. /\ r.next = a.next /\ r.state = a.state /\ r.cut = a.cut
          /\ r.attach = a.attach /\ r.mstate = a.mstate /\ r.owner = a.owner
          /\ r.lists = a.lists /\ r.stream = a.stream /\ r.stage = a.stage
          /\ r.first = a.first /\ r.waits = a.waits /\ r.cleaned = a.cleaned
          /\ r.cached = a.cached /\ r.inMsgs = a.inMsgs /\ r.tasks = a.tasks
          /\ r.putBack = a.putBack
      BY <1>3, <3>1 DEF Connection
    <3>4. SamePlace(s, r)
      BY <1>4, <3>3 DEF SamePlace
    <3>5. WithApp(r)
      BY <1>1, <1>6, <2>1, <2>2, <2>6, <3>3, <3>4, AppTail
    <3> QED
      BY <1>1, <1>4, <1>5, <1>6, <2>4, <2>6, <3>2, <3>3, <3>5 DEF OK, Place, SamePlace
  <2>7. ASSUME s.cached # <<>>, s.mstate # "FIRST_MSG"
        PROVE  AtApp(s) /\ s.mstate = "INIT"
    <3>1. AtApp(s)
      BY <1>6, <2>7 DEF WithApp, Moving
    <3>2. s.mstate # "DONE"
      BY <2>7, <3>1 DEF AtApp
    <3> QED
      BY <2>7, <3>1, <3>2, Here, Fields
  <2>8. CASE s.cached # <<>> /\ s.mstate # "FIRST_MSG" /\ s.state = "open"
    <3>1. s.stream["app"] = "reading" /\ s.lists = {"app"}
      BY <2>7, <2>8 DEF AtApp, AppHasIt
    <3>2. Len(script) = 1 => Len(s.cached) = 1 /\ a.next = 2
      <4> SUFFICES ASSUME Len(script) = 1 PROVE Len(s.cached) = 1 /\ a.next = 2
        OBVIOUS
      <4>1. s.next \in 1..2
        BY Here, Fields
      <4>2. Len(s.cached) # 0
        BY <2>8, Here, EmptySeq
      <4> QED
        <5> DEFINE n == Len(s.cached)
        <5>1. n \in Nat /\ n # 0 /\ n < s.next /\ s.next \in 1..2
          BY <1>5, <4>1, <4>2, Here
        <5> HIDE DEF n
        <5>2. n = 1 /\ s.next = 2
          BY <5>1
        <5> QED
          BY <1>4, <5>2 DEF n
    <3>3. Len(a.cached) + Len(s.cached) < a.next
      BY <1>4, <1>5, Here
    <3>4. ~Has(a.tasks["app"], "clean")
      <4>1. ~Has(s.tasks["app"], "clean") /\ s.tasks["app"] # <<>>
        BY <1>1, <2>1, <2>7, <2>8 DEF AtApp
      <4> QED
        BY <2>2, <4>1, Here, TailQueue
    <3>5. Takes(a, s.cached)
      BY <1>3, <1>4, <1>6, <2>2, <2>4, <2>7, <2>8, <3>1, <3>2, <3>3, <3>4, Here
      DEF Takes, SamePlace, WithApp, AtApp
    <3> QED
      BY <1>1, <2>8, <3>5, Here, AppTakesOK DEF r
  <2>9. CASE s.cached # <<>> /\ s.mstate # "FIRST_MSG" /\ s.state # "open"
    <3> DEFINE c == Tail(s.cached)
    <3>1. c \in Seq(Msgs) /\ Len(c) < s.next
      <4>1. c \in Seq(Msgs) /\ Len(c) = Len(s.cached) - 1
        BY <2>9, Here, HeadTailProperties
      <4> HIDE DEF c
      <4> QED
        BY <1>5, <4>1, Here
    <3>2. a.mstate = "INIT" /\ a.state # "open"
      BY <1>4, <2>7, <2>9 DEF SamePlace
    <3>3. ten_protocol_on_input(a, Head(s.cached)) = a
      BY <3>2 DEF ten_protocol_on_input
    <3>4. r = [a EXCEPT !.cached = @ \o c]
      BY <3>2, <3>3 DEF ten_protocol_on_inputs_based_on_migration_state, r
    <3>5. <<>> \o c = c
      BY <3>1
    <3> HIDE DEF c
    <3>6. r = [a EXCEPT !.cached = c]
      BY <1>4, <3>4, <3>5
    <3>7. r \in Connection
      <4>1. a \in Connection /\ c \in Seq(Msgs)
        BY <1>3, <3>1
      <4> QED
        BY <3>6, <4>1, ZenonT(60) DEF Connection
    <3>8. /\ r.next = a.next /\ r.state = a.state /\ r.cut = a.cut
          /\ r.attach = a.attach /\ r.mstate = a.mstate /\ r.owner = a.owner
          /\ r.lists = a.lists /\ r.stream = a.stream /\ r.stage = a.stage
          /\ r.first = a.first /\ r.waits = a.waits /\ r.cleaned = a.cleaned
          /\ r.cached = c /\ r.inMsgs = a.inMsgs /\ r.tasks = a.tasks
          /\ r.putBack = a.putBack
      BY <1>3, <3>6 DEF Connection
    <3>9. SamePlace(s, r)
      BY <1>4, <3>8 DEF SamePlace
    <3>10. WithApp(r)
      BY <1>1, <1>6, <2>1, <2>2, <2>7, <2>9, <3>8, <3>9, AppTail
    <3> QED
      BY <1>1, <1>4, <1>6, <2>4, <2>9, <3>1, <3>7, <3>8, <3>10 DEF OK, Place, SamePlace
  <2> QED
    BY <2>5, <2>6, <2>8, <2>9
<1>7. CASE s.owner = "engine" /\ WithEngine(s)
  <2>1. t = "engine"
    BY <1>1, <1>7 DEF WithEngine, Threads
  <2>2. Linked(s)
    <3>1. s.tasks["engine"][1] = "cleaned" /\ 1 \in 1..Len(s.tasks["engine"])
      BY <1>1, <2>1, Here, HeadTailProperties
    <3>2. ~LinksFirst(s.tasks["engine"])
      BY <3>1 DEF LinksFirst
    <3> QED
      BY <1>7, <3>2 DEF WithEngine, Unlinked
  <2>3. Linked(a)
    BY <1>4, <2>2 DEF Linked, SamePlace
  <2>4. a.tasks["engine"] = Tail(s.tasks["engine"]) /\ a.tasks["app"] = s.tasks["app"]
    BY <1>2, <1>4, <2>1 DEF Threads
  <2>5. ~Has(a.tasks["engine"], "clean")
    BY <1>1, <1>7, <2>1, <2>4, Here, TailQueue DEF WithEngine
  <2>6. WithEngine(a)
    BY <1>4, <1>7, <2>3, <2>4, <2>5 DEF WithEngine, SamePlace
  <2>7. CASE s.cached = <<>>
    <3>1. SameMsgs(s, a)
      BY <1>4, <2>7 DEF SameMsgs
    <3>2. Place(a) /\ a.owner = s.owner /\ a.attach = s.attach
      BY <1>4, <1>7, <2>6 DEF Place, SamePlace
    <3> QED
      BY <1>1, <1>3, <1>4, <1>7, <2>7, <3>1, <3>2, KeepsOK
  <2>8. CASE s.cached # <<>>
    <3>1. ASSUME FirstMoves
          PROVE  /\ a.failed = FALSE /\ a.first = 1 /\ a.cached = <<>>
                 /\ \E u \in Nat : u >= 1 /\ Holds(s.cached, u, a.next)
                                   /\ Below(a.log, u) /\ Ascending(a.log, a.putBack)
      <4> DEFINE u == Upto(s)
      <4>1. Straight(s) /\ s.mstate = "DONE"
        BY <1>7, <3>1, Here DEF WithEngine
      <4>2. /\ s.failed = FALSE /\ s.first = 1 /\ u >= 1
            /\ Below(s.log, u) /\ Ascending(s.log, s.putBack) /\ Follow(s.cached, u)
        BY <4>1 DEF Straight, MsgsOK, Follow
      <4>3. u = s.next - Len(s.cached) - 1
        BY DEF Upto
      <4> HIDE DEF u
      <4>4. u \in Nat /\ a.next = u + Len(s.cached) + 1
        <5> DEFINE n == Len(s.cached)
        <5>1. n \in Nat /\ s.next \in Nat /\ u = s.next - n - 1 /\ u >= 1
          BY <1>5, <4>2, <4>3, Here
        <5> HIDE DEF n
        <5>2. u \in Nat /\ s.next = u + n + 1
          BY <5>1
        <5> QED
          BY <1>4, <5>2 DEF n
      <4>5. Holds(s.cached, u, a.next)
        BY <4>2, <4>4, Here DEF Holds
      <4> QED
        BY <1>4, <4>2, <4>4, <4>5
    <3>2. EngineTakes(a, s.cached)
      BY <1>3, <1>4, <1>5, <1>7, <2>3, <2>6, <3>1, Here DEF EngineTakes, SamePlace
    <3> QED
      BY <1>1, <2>8, <3>2, Here, EngineTakesOK DEF r
  <2> QED
    BY <2>7, <2>8
<1> QED
  BY <1>6, <1>7, Here

\* The client has closed its end: the loop that reads closes the connection.
LEMMA StreamEndsOK ==
  ASSUME Usage, IInv, NEW t \in Threads, StreamEnds(t)
  PROVE  OK(s')
<1> DEFINE r == s'
           w == Append(s.tasks[t], "close")
           q == [s.tasks EXCEPT ![t] = w]
<1>1. Reads(t) /\ s.next = Len(script) + 1
  BY DEF StreamEnds
<1>2. r = PostTo([s EXCEPT !.eof = TRUE], t, "close")
  BY <1>1, Reader DEF StreamEnds, Step, EngineLoop, Usage
<1>3. r = [s EXCEPT !.eof = TRUE, !.tasks = q]
  <2>1. [s EXCEPT !.eof = TRUE].tasks = s.tasks
    BY Here DEF Connection
  <2> QED
    BY <1>2, <2>1, Here DEF PostTo, Connection
<1>4. w \in Seq(TaskNames) /\ \A x : Has(w, x) <=> Has(s.tasks[t], x) \/ x = "close"
  <2>1. "close" \in TaskNames /\ s.tasks[t] \in Seq(TaskNames)
    BY Here DEF TaskNames
  <2> QED
    BY <2>1, AppendQueue
<1>5. /\ q \in [Threads -> Seq(TaskNames)] /\ q[t] = w
      /\ \A v \in Threads : v # t => q[v] = s.tasks[v]
  BY <1>4, Here
<1> HIDE DEF r, q, w
<1>6. r \in Connection
  <2>1. q \in [Threads -> Seq({"clean", "cleaned", "in_msgs", "close"})] /\ s \in Connection
    BY <1>5, Here DEF TaskNames
  <2> QED
    BY <1>3, <2>1, ZenonT(60) DEF Connection
<1>7. /\ r.next = s.next /\ r.state = s.state /\ r.attach = s.attach
      /\ r.mstate = s.mstate /\ r.owner = s.owner /\ r.lists = s.lists
      /\ r.stream = s.stream /\ r.stage = s.stage /\ r.first = s.first
      /\ r.waits = s.waits /\ r.cleaned = s.cleaned /\ r.cached = s.cached
      /\ r.inMsgs = s.inMsgs /\ r.putBack = s.putBack /\ r.cut = s.cut
      /\ r.failed = s.failed /\ r.log = s.log
      /\ r.tasks = q
  BY <1>3, Here DEF Connection
<1>8. SameMsgs(s, r) /\ SamePlace(s, r)
  BY <1>7 DEF SameMsgs, SamePlace
<1>9. CASE t = "app"
  <2>1. s.owner = "app" /\ WithApp(s) /\ AtApp(s)
    BY <1>1, <1>9, Reader
  <2>2. r.tasks["engine"] = s.tasks["engine"] /\ ~Has(r.tasks["app"], "clean")
    BY <1>4, <1>5, <1>7, <1>9, <2>1 DEF Threads, AtApp
  <2>3. AtApp(r)
    BY <1>7, <2>1, <2>2 DEF AtApp, AppHasIt
  <2>4. Place(r)
    BY <1>7, <2>1, <2>2, <2>3 DEF Place, WithApp
  <2>5. ~FirstMoves
    <3> SUFFICES ASSUME FirstMoves PROVE FALSE
      OBVIOUS
    <3>1. Straight(s) /\ ~InTransit(s)
      BY <2>1, Here DEF AtApp, InTransit
    <3>2. s.next = 1
      BY <2>1, <3>1 DEF Straight
    <3> QED
      BY <1>1, <3>2, Here DEF FirstMoves
  <2> QED
    BY <1>6, <1>7, <1>8, <2>1, <2>4, <2>5, KeepsOK DEF r
<1>10. CASE t = "engine"
  <2>1. s.owner = "engine" /\ WithEngine(s) /\ Linked(s) /\ ~Has(s.tasks["engine"], "cleaned")
    BY <1>1, <1>10, Reader
  <2>2. r.tasks["app"] = s.tasks["app"] /\ ~Has(r.tasks["engine"], "clean")
    BY <1>4, <1>5, <1>7, <1>10, <2>1 DEF Threads, WithEngine
  <2>3. Linked(r)
    BY <1>7, <2>1 DEF Linked
  <2>4. Place(r)
    BY <1>7, <2>1, <2>2, <2>3 DEF Place, WithEngine
  <2>5. FirstMoves => r.cached = <<>>
    BY <1>7, <2>1, Here DEF Straight
  <2> QED
    BY <1>6, <1>7, <1>8, <2>1, <2>4, <2>5, KeepsOK DEF r
<1> QED
  BY <1>9, <1>10 DEF Threads

\* Closing: a second call changes nothing.
LEMMA CloseFields ==
  ASSUME NEW a \in Connection, NEW t \in Threads, t = CommunicationStream(a),
         NEW r, r = Close(a)
  PROVE  /\ r \in Connection /\ SameMsgs(a, r)
         /\ r.attach = a.attach /\ r.owner = a.owner /\ r.lists = a.lists
         /\ r.stage = a.stage /\ r.waits = a.waits
         /\ r.cleaned = a.cleaned /\ r.inMsgs = a.inMsgs /\ r.tasks = a.tasks
         /\ a.state # "open" => r.state = a.state /\ r.stream = a.stream /\ r.cut = a.cut
         /\ a.state = "open" =>
              /\ r.state = "closing" /\ r.stream[t] = "closing"
              /\ \A v \in Threads : v # t => r.stream[v] = a.stream[v]
              /\ InTransit(a) => r.cut
<1>1. CASE a.state # "open"
  BY <1>1 DEF Close, SameMsgs
<1>2. CASE a.state = "open"
  <2> DEFINE q == [a.stream EXCEPT ![t] = "closing"]
             k == a.cut \/ InTransit(a)
  <2>1. r = [a EXCEPT !.state = "closing", !.stream = q, !.cut = k]
    BY <1>2 DEF Close
  <2>2. a.stream \in [Threads -> StreamStates]
    BY DEF Connection, StreamStates
  <2>3. /\ q \in [Threads -> StreamStates] /\ q[t] = "closing"
        /\ \A v \in Threads : v # t => q[v] = a.stream[v]
    BY <2>2 DEF StreamStates
  <2>4. k \in BOOLEAN /\ (InTransit(a) => k)
    OBVIOUS
  <2> HIDE DEF q, k
  <2>5. r \in Connection
    <3>1. q \in [Threads -> {"none", "reading", "stopped", "cleaning", "closing", "closed"}]
      BY <2>3 DEF StreamStates
    <3> QED
      BY <2>1, <2>4, <3>1, ZenonT(60) DEF Connection
  <2>6. /\ r.next = a.next /\ r.attach = a.attach
        /\ r.mstate = a.mstate /\ r.owner = a.owner /\ r.lists = a.lists
        /\ r.stage = a.stage /\ r.first = a.first /\ r.waits = a.waits
        /\ r.cleaned = a.cleaned /\ r.cached = a.cached /\ r.inMsgs = a.inMsgs
        /\ r.tasks = a.tasks /\ r.putBack = a.putBack
        /\ r.failed = a.failed /\ r.log = a.log
        /\ r.state = "closing" /\ r.stream = q /\ r.cut = k
    BY <2>1 DEF Connection
  <2> QED
    BY <1>2, <2>3, <2>4, <2>5, <2>6 DEF SameMsgs
<1> QED
  BY <1>1, <1>2

\* The connection is closed while the app has it, on its way or not.
LEMMA CloseAtApp ==
  ASSUME NEW a \in Connection, WithApp(a), AppHasIt(a), NEW r, r = Close(a)
  PROVE  WithApp(r)
<1>1. CommunicationStream(a) = "app" /\ "app" \in Threads /\ "engine" \in Threads
  BY DEF WithApp, CommunicationStream, Threads
<1>2. /\ SameMsgs(a, r)
      /\ r.attach = a.attach /\ r.owner = a.owner /\ r.lists = a.lists
      /\ r.stage = a.stage /\ r.waits = a.waits
      /\ r.cleaned = a.cleaned /\ r.inMsgs = a.inMsgs /\ r.tasks = a.tasks
      /\ a.state # "open" => r.state = a.state /\ r.stream = a.stream /\ r.cut = a.cut
      /\ a.state = "open" =>
           /\ r.state = "closing" /\ r.stream["app"] = "closing"
           /\ r.stream["engine"] = a.stream["engine"]
           /\ InTransit(a) => r.cut
  BY <1>1, CloseFields
<1>3. AppHasIt(r) /\ r.stream["engine"] = "none"
  BY <1>2 DEF AppHasIt, WithApp
<1>4. /\ a.stream["app"] # "stopped" => r.stream["app"] # "stopped"
      /\ a.stream["app"] # "reading" => r.stream["app"] # "reading"
  BY <1>2
<1>5. AtApp(a) => AtApp(r)
  BY <1>2, <1>3, <1>4 DEF AtApp, SameMsgs
<1>6. Moving(a) => Moving(r)
  <2> SUFFICES ASSUME Moving(a) PROVE Moving(r)
    OBVIOUS
  <2>1. InTransit(a)
    BY DEF Moving, Handshakes, Waits, InTransit
  <2>2. r.state # "open" => r.cut
    BY <1>2, <2>1 DEF Moving
  <2>3. CASE Handshakes(a)
    BY <1>2, <1>3, <1>4, <2>2, <2>3 DEF Moving, Handshakes, SameMsgs
  <2>4. CASE Waits(a)
    <3>1. CASE CleanLast(a.tasks["app"]) /\ a.cleaned = FALSE /\ a.stream["app"] # "reading"
      <4>1. Waits(r)
        BY <1>2, <1>3, <1>4, <2>4, <3>1 DEF Waits
      <4> QED
        BY <1>2, <2>2, <4>1 DEF Moving, SameMsgs
    <3>2. CASE a.lists = {} /\ (a.stream["app"] = "closed" \/ a.stream["app"] = "cleaning")
      <4>1. a.state # "open"
        BY <3>2 DEF AppHasIt
      <4>2. Waits(r)
        BY <1>2, <1>3, <2>4, <4>1 DEF Waits
      <4> QED
        BY <1>2, <2>2, <4>2 DEF Moving, SameMsgs
    <3> QED
      BY <2>4, <3>1, <3>2 DEF Waits
  <2> QED
    BY <2>3, <2>4 DEF Moving
<1> QED
  BY <1>2, <1>3, <1>5, <1>6 DEF WithApp, SameMsgs

\* The connection is closed when it has its remote.
LEMMA CloseAtRemote ==
  ASSUME NEW a \in Connection, WithEngine(a), Linked(a), NEW r, r = Close(a)
  PROVE  WithEngine(r)
<1>1. CommunicationStream(a) = "engine" /\ "app" \in Threads /\ "engine" \in Threads
  BY DEF WithEngine, CommunicationStream, Threads
<1>2. /\ SameMsgs(a, r)
      /\ r.attach = a.attach /\ r.lists = a.lists
      /\ r.stage = a.stage /\ r.waits = a.waits
      /\ r.inMsgs = a.inMsgs /\ r.tasks = a.tasks
      /\ a.state # "open" => r.state = a.state /\ r.stream = a.stream
      /\ a.state = "open" =>
           /\ r.state = "closing" /\ r.stream["engine"] = "closing"
           /\ r.stream["app"] = a.stream["app"]
  BY <1>1, CloseFields
<1>3. Linked(r)
  BY <1>2 DEF Linked, SameMsgs
<1>4. r.stream["app"] = "closed" /\ r.stream["engine"] # "none"
  BY <1>2 DEF WithEngine
<1> QED
  BY <1>2, <1>3, <1>4 DEF WithEngine, SameMsgs

\* The posted closing of the connection.
LEMMA CloseTaskOK ==
  ASSUME Usage, IInv, NEW t \in Threads, ten_protocol_close_task(t)
  PROVE  OK(s')
<1> DEFINE a == RestOf(t)
           r == s'
<1>1. s.tasks[t] # <<>> /\ Head(s.tasks[t]) = "close" /\ r = Close(a)
  BY DEF ten_protocol_close_task, RunsNext, Step
<1>2. /\ a \in Connection /\ SameMsgs(s, a) /\ SamePlace(s, a)
      /\ a.tasks[t] = Tail(s.tasks[t])
      /\ \A v \in Threads : v # t => a.tasks[v] = s.tasks[v]
  BY <1>1, RestFields
<1> HIDE DEF a, r
<1>3. /\ r \in Connection /\ SameMsgs(a, r) /\ r.owner = a.owner /\ r.attach = a.attach
      /\ r.tasks = a.tasks
  <2>1. CommunicationStream(a) \in Threads
    BY DEF CommunicationStream, Threads
  <2> QED
    BY <1>1, <1>2, <2>1, CloseFields
<1>4. SameMsgs(s, r) /\ r.owner = s.owner /\ r.attach = s.attach
  BY <1>2, <1>3 DEF SameMsgs, SamePlace
<1>5. CASE s.owner = "app" /\ WithApp(s)
  <2>1. t = "app"
    <3>1. s.tasks[t][1] = "close" /\ 1 \in 1..Len(s.tasks[t])
      BY <1>1, Here, HeadTailProperties
    <3> QED
      BY <1>5, <3>1 DEF WithApp, OnlyInMsgs, Threads
  <2>2. a.tasks["app"] = Tail(s.tasks["app"]) /\ a.tasks["engine"] = s.tasks["engine"]
    BY <1>2, <2>1 DEF Threads
  <2>3. s.mstate = "DONE" => a.next = s.next /\ a.cached = <<>>
    BY <1>2, <1>5 DEF WithApp, AtApp, Moving, SameMsgs
  <2>4. WithApp(a) /\ AppHasIt(a)
    BY <1>1, <1>2, <1>5, <2>1, <2>2, <2>3, AppTail
  <2>5. Place(r)
    BY <1>1, <1>2, <1>4, <1>5, <2>4, CloseAtApp DEF Place
  <2>6. ~FirstMoves
    BY <1>1, <1>5, <2>1, OnlyClean
  <2> QED
    BY <1>3, <1>4, <1>5, <2>5, <2>6, KeepsOK DEF r
<1>6. CASE s.owner = "engine" /\ WithEngine(s)
  <2>1. t = "engine"
    BY <1>1, <1>6 DEF WithEngine, Threads
  <2>2. \A x : Has(s.tasks["engine"], x) <=> Has(Tail(s.tasks["engine"]), x) \/ x = "close"
    BY <1>1, <2>1, Here, TailQueue
  <2>3. Linked(s)
    BY <1>6, <2>2 DEF WithEngine, Unlinked
  <2>4. a.tasks["engine"] = Tail(s.tasks["engine"]) /\ a.tasks["app"] = s.tasks["app"]
    BY <1>2, <2>1 DEF Threads
  <2>5. Linked(a)
    BY <1>2, <2>3 DEF Linked, SamePlace
  <2>6. WithEngine(a)
    BY <1>2, <1>6, <2>2, <2>4, <2>5 DEF WithEngine, SamePlace
  <2>7. Place(r)
    BY <1>1, <1>2, <1>4, <1>6, <2>5, <2>6, CloseAtRemote DEF Place
  <2>8. FirstMoves /\ r.cached # <<>> => Has(r.tasks["engine"], "cleaned")
    BY <1>3, <1>4, <1>6, <2>2, <2>4, Here DEF Straight, SameMsgs
  <2> QED
    BY <1>3, <1>4, <1>6, <2>7, <2>8, KeepsOK DEF r
<1> QED
  BY <1>5, <1>6, Here

\* A stream has been closed, and the connection goes with it.
LEMMA StreamClosedOK ==
  ASSUME Usage, IInv, NEW t \in Threads, StreamClosed(t)
  PROVE  OK(s')
<1> DEFINE r == s'
           q == [s.stream EXCEPT ![t] = "closed"]
<1>1. /\ s.stream[t] = "closing" /\ "cleaned" \notin ToSet(s.tasks[t])
      /\ r = [s EXCEPT !.stream = q, !.state = "destroyed", !.lists = {}]
  BY DEF StreamClosed, Step
<1>2. /\ q \in [Threads -> StreamStates] /\ q[t] = "closed"
      /\ \A v \in Threads : v # t => q[v] = s.stream[v]
  BY Here DEF StreamStates
<1> HIDE DEF r, q
<1>3. r \in Connection
  <2>1. s \in Connection
    BY Here
  <2> QED
    BY <1>1, <1>2, <2>1 DEF Connection, StreamStates
<1>4. /\ r.next = s.next /\ r.attach = s.attach
      /\ r.mstate = s.mstate /\ r.owner = s.owner /\ r.stage = s.stage
      /\ r.first = s.first /\ r.waits = s.waits /\ r.cleaned = s.cleaned
      /\ r.cached = s.cached /\ r.inMsgs = s.inMsgs /\ r.tasks = s.tasks
      /\ r.putBack = s.putBack /\ r.failed = s.failed /\ r.cut = s.cut
      /\ r.log = s.log
      /\ r.stream = q /\ r.state = "destroyed" /\ r.lists = {}
  BY <1>1, Here DEF Connection
<1>5. SameMsgs(s, r) /\ (InTransit(s) => InTransit(r))
  BY <1>4 DEF SameMsgs, InTransit
<1>6. CASE s.owner = "app" /\ WithApp(s)
  <2>1. t = "app" /\ r.stream["engine"] = "none" /\ r.stream["app"] = "closed"
    BY <1>1, <1>2, <1>4, <1>6 DEF WithApp, Threads
  <2>2. AppHasIt(r)
    BY <1>4, <2>1 DEF AppHasIt
  <2>3. AtApp(s) => AtApp(r)
    BY <1>4, <2>1, <2>2 DEF AtApp
  <2>4. Moving(s) => Moving(r)
    <3> SUFFICES ASSUME Moving(s) PROVE Moving(r)
      OBVIOUS
    <3>1. s.state # "open"
      BY <1>1, <2>1 DEF Moving, Handshakes, Waits, AppHasIt
    <3>2. Handshakes(r) \/ Waits(r)
      BY <1>1, <1>4, <2>1, <2>2 DEF Moving, Handshakes, Waits
    <3> QED
      BY <1>4, <3>1, <3>2 DEF Moving
  <2>5. Place(r)
    BY <1>4, <1>6, <2>1, <2>3, <2>4 DEF Place, WithApp
  <2> QED
    BY <1>3, <1>4, <1>5, <1>6, <2>5, Here, KeepsOK DEF r, Straight
<1>7. CASE s.owner = "engine" /\ WithEngine(s)
  <2>1. t = "engine" /\ r.stream["app"] = "closed" /\ r.stream["engine"] # "none"
    BY <1>1, <1>2, <1>4, <1>7 DEF WithEngine, Threads
  <2>2. ~Has(s.tasks["engine"], "cleaned")
    <3>1. DOMAIN s.tasks["engine"] = 1..Len(s.tasks["engine"])
      BY Here
    <3> QED
      BY <1>1, <2>1, <3>1 DEF ToSet, Has
  <2>3. Linked(r)
    BY <1>4, <1>7, <2>2 DEF WithEngine, Unlinked, Linked
  <2>4. Place(r)
    BY <1>4, <1>7, <2>1, <2>3 DEF Place, WithEngine
  <2> QED
    BY <1>3, <1>4, <1>5, <1>7, <2>4, Here, KeepsOK DEF r, Straight
<1> QED
  BY <1>6, <1>7, Here

\* A step of the handshake.
LEMMA HandshakeOK ==
  ASSUME Usage, IInv, Handshake
  PROVE  OK(s')
<1> DEFINE r == s'
           g == Stages[s.stage].next
<1>1. s.stage \in DOMAIN Stages /\ r = [s EXCEPT !.stage = g]
  BY DEF Handshake, Step
<1>2. s.stage # "none" /\ g # "none" /\ g \in DOMAIN Stages \cup {"none", "dst_done"}
  BY <1>1 DEF Stages
<1> HIDE DEF r, g
<1>3. r \in Connection
  BY <1>1, <1>2, Here, SetStage
<1>4. /\ r.next = s.next /\ r.state = s.state /\ r.cut = s.cut
      /\ r.attach = s.attach /\ r.mstate = s.mstate /\ r.owner = s.owner
      /\ r.lists = s.lists /\ r.stream = s.stream /\ r.first = s.first
      /\ r.waits = s.waits /\ r.cleaned = s.cleaned /\ r.cached = s.cached
      /\ r.inMsgs = s.inMsgs /\ r.tasks = s.tasks
      /\ r.putBack = s.putBack /\ r.failed = s.failed /\ r.log = s.log
      /\ r.stage = g
  BY <1>1, Here DEF Connection
<1>5. SameMsgs(s, r) /\ InTransit(r)
  BY <1>2, <1>4 DEF SameMsgs, InTransit
<1>6. s.owner = "app" /\ WithApp(s)
  BY <1>2, Here DEF WithEngine
<1>7. Moving(s) /\ Handshakes(s)
  BY <1>2, <1>6 DEF WithApp, AtApp, Moving, Waits
<1>8. AppHasIt(r)
  BY <1>4, <1>7 DEF Handshakes, AppHasIt
<1>9. Handshakes(r)
  BY <1>2, <1>4, <1>7, <1>8 DEF Handshakes
<1>10. Place(r)
  BY <1>4, <1>6, <1>7, <1>9 DEF Place, WithApp, Moving
<1> QED
  BY <1>3, <1>4, <1>5, <1>6, <1>10, Here, KeepsOK DEF r, Straight

\* The new stream is there: the engine asks the app to let go, and waits.
LEMMA MigratedOK ==
  ASSUME Usage, IInv, ten_stream_migrated
  PROVE  OK(s')
<1> DEFINE r == s'
           w == Append(s.tasks["app"], "clean")
           q == [s.tasks EXCEPT !["app"] = w]
<1>1. /\ s.stage = "dst_done"
      /\ r = PostTo([s EXCEPT !.stage = "none", !.waits = TRUE], "app", "clean")
  BY DEF ten_stream_migrated, Step
<1>2. s.owner = "app" /\ WithApp(s)
  BY <1>1, Here DEF WithEngine
<1>3. Moving(s) /\ Handshakes(s)
  BY <1>1, <1>2 DEF WithApp, AtApp, Moving, Waits
<1>4. r = [s EXCEPT !.stage = "none", !.waits = TRUE, !.tasks = q]
  <2>1. [s EXCEPT !.stage = "none", !.waits = TRUE].tasks = s.tasks
    BY Here DEF Connection
  <2> QED
    BY <1>1, <2>1, Here DEF PostTo, Connection
<1>5. w \in Seq(TaskNames) /\ CleanLast(w)
  <2>1. "clean" \in TaskNames /\ ~Has(s.tasks["app"], "clean")
    BY <1>3 DEF TaskNames, Handshakes
  <2> QED
    BY <2>1, Here, AppendQueue, AppendMore DEF CleanLast
<1>6. FirstMoves => w = <<"clean">>
  <2>1. Has(<<"clean">>, "clean") /\ Append(<<>>, "clean") = <<"clean">>
    BY DEF Has
  <2>2. FirstMoves => s.tasks["app"] = <<>>
    BY <1>2, <1>3, <2>1, Here DEF Straight, Handshakes
  <2> QED
    BY <2>1, <2>2
<1>7. q \in [Threads -> Seq(TaskNames)] /\ q["app"] = w /\ q["engine"] = s.tasks["engine"]
  BY <1>5, Here DEF Threads
<1> HIDE DEF r, q, w
<1>8. r \in Connection
  <2>1. q \in [Threads -> Seq({"clean", "cleaned", "in_msgs", "close"})] /\ s \in Connection
    BY <1>7, Here DEF TaskNames
  <2> DEFINE b == [s EXCEPT !.waits = TRUE, !.tasks = q]
  <2>2. b \in Connection
    BY <2>1, ZenonT(60) DEF Connection
  <2>3. r = [b EXCEPT !.stage = "none"]
    BY <1>4
  <2> HIDE DEF b
  <2> QED
    BY <2>2, <2>3, SetStage
<1>9. /\ r.next = s.next /\ r.state = s.state /\ r.cut = s.cut
      /\ r.attach = s.attach /\ r.mstate = s.mstate /\ r.owner = s.owner
      /\ r.lists = s.lists /\ r.stream = s.stream /\ r.first = s.first
      /\ r.cleaned = s.cleaned /\ r.cached = s.cached /\ r.inMsgs = s.inMsgs
      /\ r.putBack = s.putBack /\ r.failed = s.failed
      /\ r.log = s.log
      /\ r.stage = "none" /\ r.waits = TRUE /\ r.tasks = q
  BY <1>4, Here DEF Connection
<1>10. SameMsgs(s, r) /\ InTransit(r)
  BY <1>9 DEF SameMsgs, InTransit
<1>11. AppHasIt(r)
  BY <1>3, <1>9 DEF Handshakes, AppHasIt
<1>12. Waits(r)
  BY <1>3, <1>5, <1>7, <1>9, <1>11 DEF Handshakes, Waits
<1>13. Place(r)
  BY <1>2, <1>3, <1>7, <1>9, <1>12 DEF Place, WithApp, Moving
<1> QED
  BY <1>2, <1>6, <1>7, <1>8, <1>9, <1>10, <1>13, KeepsOK DEF r

\* The app lets go of the connection, and closes its stream.
LEMMA CleanTaskOK ==
  ASSUME Usage, IInv, ten_app_clean_connection_task
  PROVE  OK(s')
<1> DEFINE r == s'
           q == [s.tasks EXCEPT !["app"] = <<>>]
           g == [s.stream EXCEPT !["app"] = "cleaning"]
<1>1. /\ s.tasks["app"] # <<>> /\ Head(s.tasks["app"]) = "clean"
      /\ r = [RestOf("app") EXCEPT !.lists = @ \ {"app"}, !.stream["app"] = "cleaning"]
  BY DEF ten_app_clean_connection_task, RunsNext, Step
<1>2. s.owner = "app" /\ WithApp(s)
  BY <1>1, Here DEF WithEngine
<1>3. Moving(s) /\ Waits(s) /\ CleanLast(s.tasks["app"]) /\ s.cleaned = FALSE /\ AppHasIt(s)
  <2>1. Has(s.tasks["app"], "clean")
    BY <1>1, Here, TailQueue
  <2>2. Moving(s)
    BY <1>2, <2>1 DEF WithApp, AtApp
  <2>3. Waits(s)
    BY <2>1, <2>2 DEF Moving, Handshakes
  <2> QED
    BY <1>1, <2>2, <2>3 DEF Waits
<1>4. s.lists \ {"app"} = {}
  BY <1>3, Here DEF AppHasIt
<1>5. r = [s EXCEPT !.tasks = q, !.lists = {}, !.stream = g]
  <2>1. Tail(s.tasks["app"]) = <<>>
    BY <1>1, <1>3, Here, TailMore DEF CleanLast
  <2>2. RestOf("app") = [s EXCEPT !.tasks = q]
    BY <2>1 DEF RestOf
  <2>3. [s EXCEPT !.tasks = q].lists = s.lists /\ [s EXCEPT !.tasks = q].stream = s.stream
    BY Here DEF Connection
  <2> HIDE DEF q
  <2>4. r = [[s EXCEPT !.tasks = q] EXCEPT !.lists = {}, !.stream = g]
    BY <1>1, <1>4, <2>2, <2>3
  <2> HIDE DEF r, g
  <2> QED
    BY <2>4, Here DEF Connection
<1>6. /\ q \in [Threads -> Seq(TaskNames)] /\ q["app"] = <<>>
      /\ q["engine"] = s.tasks["engine"]
  BY Here DEF Threads
<1>7. g \in [Threads -> StreamStates] /\ g["app"] = "cleaning" /\ g["engine"] = s.stream["engine"]
  BY Here DEF StreamStates, Threads
<1> HIDE DEF r, q, g
<1>8. r \in Connection
  <2>1. q \in [Threads -> Seq({"clean", "cleaned", "in_msgs", "close"})] /\ s \in Connection
    BY <1>6, Here DEF TaskNames
  <2> QED
    BY <1>5, <1>7, <2>1 DEF Connection, StreamStates
<1>9. /\ r.next = s.next /\ r.state = s.state /\ r.cut = s.cut
      /\ r.attach = s.attach /\ r.mstate = s.mstate /\ r.owner = s.owner
      /\ r.stage = s.stage /\ r.first = s.first /\ r.waits = s.waits
      /\ r.cleaned = s.cleaned /\ r.cached = s.cached /\ r.inMsgs = s.inMsgs
      /\ r.putBack = s.putBack /\ r.failed = s.failed
      /\ r.log = s.log
      /\ r.lists = {} /\ r.stream = g /\ r.tasks = q
  BY <1>5, Here DEF Connection
<1>10. SameMsgs(s, r) /\ (InTransit(s) => InTransit(r))
  BY <1>9 DEF SameMsgs, InTransit
<1>11. Waits(r)
  BY <1>3, <1>6, <1>7, <1>9 DEF Waits
<1>12. Place(r)
  BY <1>2, <1>3, <1>6, <1>7, <1>9, <1>11 DEF Place, WithApp, Moving
<1> QED
  BY <1>2, <1>6, <1>8, <1>9, <1>10, <1>12, KeepsOK DEF r

\* The stream of the app is closed: the event is set.
LEMMA StreamCleanedOK ==
  ASSUME Usage, IInv, ten_protocol_integrated_on_stream_cleaned
  PROVE  OK(s')
<1> DEFINE r == s'
           g == [s.stream EXCEPT !["app"] = "closed"]
<1>1. s.stream["app"] = "cleaning" /\ r = [s EXCEPT !.stream = g, !.cleaned = TRUE]
  BY DEF ten_protocol_integrated_on_stream_cleaned, Step
<1>2. s.owner = "app" /\ WithApp(s)
  BY <1>1, Here DEF WithEngine
<1>3. ~AppHasIt(s)
  BY <1>1, Here DEF AppHasIt
<1>4. Moving(s) /\ Waits(s)
  BY <1>2, <1>3 DEF WithApp, AtApp, Moving, Handshakes
<1>5. g \in [Threads -> StreamStates] /\ g["app"] = "closed" /\ g["engine"] = s.stream["engine"]
  BY Here DEF StreamStates, Threads
<1> HIDE DEF r, g
<1>6. r \in Connection
  <2>1. s \in Connection
    BY Here
  <2> QED
    BY <1>1, <1>5, <2>1 DEF Connection, StreamStates
<1>7. /\ r.next = s.next /\ r.state = s.state /\ r.cut = s.cut
      /\ r.attach = s.attach /\ r.mstate = s.mstate /\ r.owner = s.owner
      /\ r.lists = s.lists /\ r.stage = s.stage /\ r.first = s.first
      /\ r.waits = s.waits /\ r.cached = s.cached /\ r.inMsgs = s.inMsgs
      /\ r.tasks = s.tasks /\ r.putBack = s.putBack
      /\ r.failed = s.failed /\ r.log = s.log
      /\ r.stream = g /\ r.cleaned = TRUE
  BY <1>1, Here DEF Connection
<1>8. SameMsgs(s, r) /\ (InTransit(s) => InTransit(r))
  BY <1>7 DEF SameMsgs, InTransit
<1>9. Waits(r)
  BY <1>3, <1>4, <1>5, <1>7 DEF Waits
<1>10. Place(r)
  BY <1>2, <1>4, <1>5, <1>7, <1>9 DEF Place, WithApp, Moving
<1> QED
  BY <1>2, <1>6, <1>7, <1>8, <1>10, Here, KeepsOK DEF r, Straight

\* A step that leaves the connection where it is, but for tasks of the engine.
LEMMA StaysThere ==
  ASSUME Usage, IInv, NEW r \in Connection, SameMsgs(s, r), SamePlace(s, r),
         r.tasks["app"] = s.tasks["app"],
         OnlyInMsgs(s.tasks["engine"]) => OnlyInMsgs(r.tasks["engine"]),
         LinksFirst(s.tasks["engine"]) => LinksFirst(r.tasks["engine"]),
         \A x \in {"clean", "cleaned", "close"} :
           Has(r.tasks["engine"], x) <=> Has(s.tasks["engine"], x)
  PROVE  OK(r)
<1>1. AppHasIt(s) => AppHasIt(r)
  BY DEF AppHasIt, SamePlace
<1>2. AtApp(s) => AtApp(r)
  BY <1>1 DEF AtApp, SamePlace, SameMsgs
<1>3. Moving(s) => Moving(r)
  BY <1>1 DEF Moving, Handshakes, Waits, SamePlace
<1>4. WithApp(s) => WithApp(r)
  BY <1>2, <1>3 DEF WithApp, SamePlace
<1>5. Unlinked(s) => Unlinked(r)
  BY DEF Unlinked, SamePlace
<1>6. Linked(s) => Linked(r)
  BY DEF Linked, SamePlace
<1>7. WithEngine(s) => WithEngine(r)
  BY <1>5, <1>6 DEF WithEngine, SamePlace
<1>8. Place(r) /\ r.owner = s.owner /\ r.attach = s.attach /\ (InTransit(s) => InTransit(r))
  BY <1>4, <1>7, Here DEF Place, SamePlace, InTransit
<1>9. s.owner = "app" /\ FirstMoves => r.tasks["app"] \in {<<>>, <<"clean">>}
  BY Here DEF Straight
<1>10. s.owner = "engine" /\ FirstMoves =>
         (r.cached # <<>> => Has(r.tasks["engine"], "cleaned"))
  BY Here DEF Straight, SameMsgs
<1> QED
  BY <1>8, <1>9, <1>10, KeepsOK

\* The client goes.
LEMMA ClientGoesOK ==
  ASSUME Usage, IInv, ClientGoes
  PROVE  OK(s')
<1> DEFINE r == s'
<1>1. r = [s EXCEPT !.gone = TRUE]
  BY DEF ClientGoes, Step
<1> HIDE DEF r
<1>2. r \in Connection
  BY <1>1, Here DEF Connection
<1>3. /\ r.next = s.next /\ r.state = s.state /\ r.attach = s.attach
      /\ r.mstate = s.mstate /\ r.owner = s.owner /\ r.lists = s.lists
      /\ r.stream = s.stream /\ r.stage = s.stage /\ r.first = s.first
      /\ r.waits = s.waits /\ r.cleaned = s.cleaned /\ r.cached = s.cached
      /\ r.inMsgs = s.inMsgs /\ r.tasks = s.tasks /\ r.cut = s.cut
      /\ r.putBack = s.putBack /\ r.failed = s.failed /\ r.log = s.log
  BY <1>1, Here DEF Connection
<1>4. SameMsgs(s, r) /\ SamePlace(s, r)
  BY <1>3 DEF SameMsgs, SamePlace
<1> QED
  BY <1>2, <1>3, <1>4, StaysThere DEF r

\* The app closes a connection that is still in its list, also on its way.
LEMMA AppClosesOK ==
  ASSUME Usage, IInv, AppCloses
  PROVE  OK(s')
<1> DEFINE r == s'
<1>1. "app" \in s.lists /\ r = Close(s)
  BY DEF AppCloses, Step
<1>2. s.owner = "app" /\ WithApp(s)
  <2>1. ~Unlinked(s) /\ ~Linked(s)
    BY <1>1 DEF Unlinked, Linked
  <2> QED
    BY <2>1, Here DEF WithEngine
<1>3. AppHasIt(s) /\ CommunicationStream(s) \in Threads
  BY <1>1, <1>2 DEF WithApp, AtApp, Moving, Handshakes, Waits, CommunicationStream, Threads
<1> HIDE DEF r
<1>4. /\ r \in Connection /\ SameMsgs(s, r) /\ r.owner = s.owner /\ r.tasks = s.tasks
      /\ r.stage = s.stage /\ r.waits = s.waits
  BY <1>1, <1>3, Here, CloseFields
<1>5. WithApp(r)
  BY <1>1, <1>2, <1>3, Here, CloseAtApp
<1>6. Place(r) /\ (InTransit(s) => InTransit(r))
  BY <1>2, <1>4, <1>5 DEF Place, InTransit
<1> QED
  BY <1>2, <1>4, <1>6, Here, KeepsOK DEF r, Straight

\* The engine closes its remote.
LEMMA EngineClosesOK ==
  ASSUME Usage, IInv, EngineCloses
  PROVE  OK(s')
<1> DEFINE r == s'
<1>1. "remote" \in s.lists /\ r = Close(s)
  BY DEF EngineCloses, Step
<1>2. s.owner = "engine" /\ WithEngine(s)
  <2>1. ~AppHasIt(s)
    BY <1>1, Here DEF AppHasIt
  <2>2. ~Moving(s)
    BY <1>1, <2>1 DEF Moving, Handshakes, Waits
  <2>3. ~WithApp(s)
    BY <2>1, <2>2 DEF WithApp, AtApp
  <2> QED
    BY <2>3, Here
<1>3. Linked(s) /\ CommunicationStream(s) \in Threads
  BY <1>1, <1>2 DEF WithEngine, Unlinked, CommunicationStream, Threads
<1> HIDE DEF r
<1>4. /\ r \in Connection /\ SameMsgs(s, r) /\ r.owner = s.owner /\ r.tasks = s.tasks
      /\ r.attach = s.attach
  BY <1>1, <1>3, Here, CloseFields
<1>5. Place(r)
  BY <1>1, <1>2, <1>3, <1>4, Here, CloseAtRemote DEF Place
<1>6. FirstMoves /\ r.cached # <<>> => Has(r.tasks["engine"], "cleaned")
  BY <1>2, <1>4, Here DEF Straight, SameMsgs
<1> QED
  BY <1>2, <1>4, <1>5, <1>6, KeepsOK DEF r

\* Posting in_msgs, and taking the first task, in the queue of the engine.
LEMMA LinksQueue ==
  ASSUME NEW q \in Seq(TaskNames), NEW e \in TaskNames
  PROVE  /\ LinksFirst(q) => LinksFirst(Append(q, e))
         /\ OnlyInMsgs(q) => OnlyInMsgs(Append(q, "in_msgs")) /\ LinksFirst(Append(q, "in_msgs"))
         /\ OnlyInMsgs(q) => ~Has(q, "close") /\ ~Has(q, "clean")
         /\ q # <<>> /\ OnlyInMsgs(q) => OnlyInMsgs(Tail(q))
<1>1. ASSUME NEW x \in TaskNames
      PROVE  /\ Len(q) \in Nat /\ Len(Append(q, x)) = Len(q) + 1
             /\ Append(q, x)[Len(q) + 1] = x
             /\ \A i \in 1..Len(q) : Append(q, x)[i] = q[i]
  OBVIOUS
<1>2. ASSUME LinksFirst(q) PROVE LinksFirst(Append(q, e))
  <2> DEFINE p == Append(q, e)
  <2>1. Len(p) = Len(q) + 1 /\ Len(q) \in Nat /\ \A i \in 1..Len(q) : p[i] = q[i]
    BY <1>1
  <2>2. PICK i \in 1..Len(q) : q[i] = "in_msgs" /\ \A j \in 1..i : q[j] # "cleaned"
    BY <1>2 DEF LinksFirst
  <2> HIDE DEF p
  <2>3. i \in 1..Len(p) /\ \A j \in 1..i : j \in 1..Len(q)
    BY <2>1
  <2>4. p[i] = "in_msgs" /\ \A j \in 1..i : p[j] # "cleaned"
    BY <2>1, <2>2, <2>3
  <2> QED
    BY <2>3, <2>4 DEF LinksFirst, p
<1>3. ASSUME OnlyInMsgs(q)
      PROVE  OnlyInMsgs(Append(q, "in_msgs")) /\ LinksFirst(Append(q, "in_msgs"))
  <2> DEFINE p == Append(q, "in_msgs")
             k == Len(q) + 1
  <2>1. /\ Len(p) = k /\ Len(q) \in Nat /\ p[k] = "in_msgs"
        /\ \A i \in 1..Len(q) : p[i] = q[i]
    BY <1>1 DEF TaskNames
  <2>2. \A i \in 1..k : i \in 1..Len(q) \/ i = k
    BY <2>1
  <2>3. k \in 1..k
    BY <2>1
  <2> HIDE DEF p, k
  <2>4. \A i \in 1..k : p[i] = "in_msgs"
    BY <1>3, <2>1, <2>2 DEF OnlyInMsgs
  <2>5. OnlyInMsgs(p)
    BY <2>1, <2>4 DEF OnlyInMsgs
  <2>6. LinksFirst(p)
    BY <2>1, <2>3, <2>4 DEF LinksFirst
  <2> QED
    BY <2>5, <2>6 DEF p
<1>4. OnlyInMsgs(q) => ~Has(q, "close") /\ ~Has(q, "clean")
  BY DEF OnlyInMsgs, Has
<1>5. ASSUME q # <<>>, OnlyInMsgs(q) PROVE OnlyInMsgs(Tail(q))
  <2>1. /\ Len(q) \in Nat /\ Len(Tail(q)) = Len(q) - 1
        /\ \A i \in 1..Len(Tail(q)) : Tail(q)[i] = q[i + 1]
    BY <1>5, HeadTailProperties
  <2>2. \A i \in 1..Len(Tail(q)) : i + 1 \in 1..Len(q)
    BY <2>1
  <2> QED
    BY <1>5, <2>1, <2>2 DEF OnlyInMsgs
<1> QED
  BY <1>2, <1>3, <1>4, <1>5

\* The engine has become ready.
LEMMA EngineReadyOK ==
  ASSUME Usage, IInv, EngineReady
  PROVE  OK(s')
<1> DEFINE r == s'
           w == Append(s.tasks["engine"], "in_msgs")
           q == [s.tasks EXCEPT !["engine"] = w]
<1>1. r = PostTo([s EXCEPT !.ready = TRUE], "engine", "in_msgs")
  BY DEF EngineReady, Step, EngineLoop, Usage
<1>2. r = [s EXCEPT !.ready = TRUE, !.tasks = q]
  <2>1. [s EXCEPT !.ready = TRUE].tasks = s.tasks
    BY Here DEF Connection
  <2> QED
    BY <1>1, <2>1, Here DEF PostTo, Connection
<1>3. /\ w \in Seq(TaskNames) /\ \A x : Has(w, x) <=> Has(s.tasks["engine"], x) \/ x = "in_msgs"
  <2>1. "in_msgs" \in TaskNames
    BY DEF TaskNames
  <2> QED
    BY <2>1, Here, AppendQueue
<1>4. /\ LinksFirst(s.tasks["engine"]) => LinksFirst(w)
      /\ OnlyInMsgs(s.tasks["engine"]) => OnlyInMsgs(w)
  BY Here, LinksQueue DEF TaskNames
<1>5. /\ q \in [Threads -> Seq(TaskNames)] /\ q["engine"] = w
      /\ q["app"] = s.tasks["app"]
  BY <1>3, Here DEF Threads
<1> HIDE DEF r, q, w
<1>6. r \in Connection
  <2>1. q \in [Threads -> Seq({"clean", "cleaned", "in_msgs", "close"})] /\ s \in Connection
    BY <1>5, Here DEF TaskNames
  <2> QED
    BY <1>2, <2>1 DEF Connection
<1>7. /\ r.next = s.next /\ r.state = s.state /\ r.cut = s.cut
      /\ r.attach = s.attach /\ r.mstate = s.mstate /\ r.owner = s.owner
      /\ r.lists = s.lists /\ r.stream = s.stream /\ r.stage = s.stage
      /\ r.first = s.first /\ r.waits = s.waits /\ r.cleaned = s.cleaned
      /\ r.cached = s.cached /\ r.inMsgs = s.inMsgs /\ r.putBack = s.putBack
      /\ r.failed = s.failed /\ r.log = s.log
      /\ r.tasks = q
  BY <1>2, Here DEF Connection
<1>8. SameMsgs(s, r) /\ SamePlace(s, r)
  BY <1>7 DEF SameMsgs, SamePlace
<1>9. \A x \in {"clean", "cleaned", "close"} : Has(w, x) <=> Has(s.tasks["engine"], x)
  BY <1>3
<1> QED
  BY <1>4, <1>5, <1>6, <1>7, <1>8, <1>9, StaysThere DEF r

\* The engine takes the connection over, and the first message with it.
LEMMA ConnectionCleanedOK ==
  ASSUME Usage, IInv, ten_engine_on_connection_cleaned
  PROVE  OK(s')
<1> DEFINE r == s'
           w == Append(s.tasks["engine"], "in_msgs")
           p == Append(w, "cleaned")
           q == [s.tasks EXCEPT !["engine"] = p]
           g == [s.stream EXCEPT !["engine"] = "reading"]
           a == [s EXCEPT !.waits = FALSE, !.owner = "engine"]
           b == UpgradeToDone(AppendToInMsgs(a, s.first))
<1>1. s.waits = TRUE /\ s.cleaned = TRUE /\ r = [b EXCEPT !.stream["engine"] = "reading"]
  BY Here DEF ten_engine_on_connection_cleaned, Step, Connection
<1>2. s.owner = "app" /\ WithApp(s)
  BY <1>1, Here DEF WithEngine
<1>3. Moving(s) /\ Waits(s)
  BY <1>1, <1>2 DEF WithApp, AtApp, Moving, Handshakes
<1>4. s.tasks["app"] = <<>> /\ s.lists = {} /\ s.stream["app"] = "closed" /\ s.inMsgs = <<>>
  BY <1>1, <1>2, <1>3 DEF Waits, WithApp
<1>5. s.first \in Msgs
  BY <1>3 DEF Moving
<1>6. r = [s EXCEPT !.waits = FALSE, !.owner = "engine", !.inMsgs = <<s.first>>,
                    !.attach = "engine", !.lists = {"engine"}, !.mstate = "DONE",
                    !.tasks = q, !.stream = g]
  <2> DEFINE c == AppendToInMsgs(a, s.first)
             v == [s.tasks EXCEPT !["engine"] = w]
  <2>a. Append(<<>>, s.first) = <<s.first>>
    OBVIOUS
  <2>b. EngineLoop = "engine"
    BY DEF EngineLoop, Usage
  <2>1. /\ Append(<<>>, s.first) = <<s.first>> /\ {} \cup {"engine"} = {"engine"}
        /\ EngineLoop = "engine" /\ s \in Connection
    BY <2>a, <2>b, Here
  <2>2. a.inMsgs = <<>> /\ a.tasks = s.tasks /\ a.lists = {} /\ a.stream = s.stream
    BY <1>4, <2>1 DEF Connection
  <2>3. c = [a EXCEPT !.inMsgs = <<s.first>>, !.tasks = v]
    <3>1. [a EXCEPT !.inMsgs = Append(@, s.first)] = [a EXCEPT !.inMsgs = <<s.first>>]
      BY <2>1, <2>2
    <3>2. [a EXCEPT !.inMsgs = <<s.first>>].tasks = s.tasks
      BY <2>1 DEF Connection
    <3>3. c = [[a EXCEPT !.inMsgs = <<s.first>>] EXCEPT !.tasks = v]
      BY <2>1, <3>1, <3>2 DEF AppendToInMsgs, PostTo
    <3> HIDE DEF c, v
    <3> QED
      BY <2>1, <3>3 DEF Connection
  <2>4. b = [[c EXCEPT !.attach = "engine", !.lists = @ \cup {"engine"}, !.mstate = "DONE"]
               EXCEPT !.tasks["engine"] = Append(@, "cleaned")]
    BY <2>1 DEF UpgradeToDone, PostTo
  <2> HIDE DEF c, v
  <2>5. c = [s EXCEPT !.waits = FALSE, !.owner = "engine", !.inMsgs = <<s.first>>, !.tasks = v]
    BY <2>1, <2>3 DEF Connection
  <2>6. c.tasks = v /\ c.lists = {} /\ c.stream = s.stream
    BY <1>4, <2>1, <2>5 DEF Connection
  <2>7. [v EXCEPT !["engine"] = Append(@, "cleaned")] = q
    BY Here DEF v, Threads
  <2> HIDE DEF q
  <2>8. b = [c EXCEPT !.attach = "engine", !.lists = {"engine"}, !.mstate = "DONE", !.tasks = q]
    <3> DEFINE d == [c EXCEPT !.attach = "engine", !.lists = {"engine"}, !.mstate = "DONE"]
    <3>1. [c EXCEPT !.attach = "engine", !.lists = @ \cup {"engine"}, !.mstate = "DONE"] = d
      BY <2>1, <2>6
    <3>2. d.tasks = v
      BY <2>1, <2>5 DEF Connection
    <3> HIDE DEF d
    <3>3. b = [d EXCEPT !.tasks = q]
      BY <2>4, <2>7, <3>1, <3>2
    <3> HIDE DEF b
    <3> QED
      BY <2>1, <2>5, <3>3 DEF d, Connection
  <2> HIDE DEF b
  <2>9. b = [s EXCEPT !.waits = FALSE, !.owner = "engine", !.inMsgs = <<s.first>>,
                      !.attach = "engine", !.lists = {"engine"}, !.mstate = "DONE", !.tasks = q]
    BY <2>1, <2>5, <2>8 DEF Connection
  <2>10. b.stream = s.stream
    BY <2>1, <2>9 DEF Connection
  <2>11. r = [b EXCEPT !.stream = g]
    BY <1>1, <2>10
  <2> HIDE DEF r, g
  <2> QED
    BY <2>1, <2>9, <2>11 DEF Connection
<1>7. /\ w \in Seq(TaskNames) /\ p \in Seq(TaskNames)
      /\ Has(p, "cleaned")
      /\ Has(p, "close") => Has(s.tasks["engine"], "close")
      /\ Has(p, "clean") => Has(s.tasks["engine"], "clean")
  <2>1. /\ w \in Seq(TaskNames)
        /\ \A x : Has(w, x) <=> Has(s.tasks["engine"], x) \/ x = "in_msgs"
    <3>1. "in_msgs" \in TaskNames
      BY DEF TaskNames
    <3> QED
      BY <3>1, Here, AppendQueue
  <2> HIDE DEF w
  <2>2. p \in Seq(TaskNames) /\ \A x : Has(p, x) <=> Has(w, x) \/ x = "cleaned"
    BY <2>1, AppendQueue DEF TaskNames
  <2> QED
    BY <2>1, <2>2
<1>8. LinksFirst(p) /\ ~Has(p, "close") /\ ~Has(p, "clean")
  <2>1. LinksFirst(w) /\ ~Has(s.tasks["engine"], "close") /\ ~Has(s.tasks["engine"], "clean")
    BY <1>2, Here, LinksQueue DEF WithApp, TaskNames
  <2> HIDE DEF w
  <2>2. LinksFirst(p)
    BY <1>7, <2>1, LinksQueue DEF TaskNames
  <2> QED
    BY <1>7, <2>1, <2>2
<1>9. q \in [Threads -> Seq(TaskNames)] /\ q["engine"] = p /\ q["app"] = <<>>
  BY <1>4, <1>7, Here DEF Threads
<1>10. g \in [Threads -> StreamStates] /\ g["engine"] = "reading" /\ g["app"] = "closed"
  BY <1>4, Here DEF Threads, StreamStates
<1>11. <<s.first>> \in Seq(Msgs)
  BY <1>5
<1> HIDE DEF r, w, p, q, g
<1>12. r \in Connection
  <2>1. q \in [Threads -> Seq({"clean", "cleaned", "in_msgs", "close"})] /\ s \in Connection
    BY <1>9, Here DEF TaskNames
  <2>2. "engine" \in Threads
    BY DEF Threads
  <2> QED
    BY <1>6, <1>10, <1>11, <2>1, <2>2, ZenonT(60) DEF Connection, StreamStates
<1>13. /\ r.next = s.next /\ r.state = s.state
       /\ r.stage = s.stage /\ r.first = s.first
       /\ r.cached = s.cached /\ r.putBack = s.putBack
       /\ r.failed = s.failed /\ r.log = s.log
       /\ r.waits = FALSE /\ r.owner = "engine" /\ r.inMsgs = <<s.first>>
       /\ r.attach = "engine" /\ r.lists = {"engine"} /\ r.mstate = "DONE"
       /\ r.tasks = q /\ r.stream = g
  BY <1>6, Here DEF Connection
<1>14. Unlinked(r)
  BY <1>2, <1>7, <1>8, <1>9, <1>13 DEF Unlinked, WithApp
<1>15. WithEngine(r)
  BY <1>3, <1>5, <1>8, <1>9, <1>10, <1>13, <1>14 DEF WithEngine, Waits
<1>16. Place(r)
  BY <1>13, <1>15 DEF Place
<1>17. ASSUME FirstMoves PROVE Straight(r)
  <2>1. Straight(s) /\ s.mstate = "FIRST_MSG"
    BY <1>3, <1>17, Here DEF Moving
  <2>2. Upto(r) = Upto(s)
    BY <1>13 DEF Upto
  <2>3. MsgsOK(r)
    BY <1>13, <2>1, <2>2 DEF Straight, MsgsOK
  <2>4. s.log = <<>>
    BY <1>2, <2>1 DEF Straight
  <2> QED
    BY <1>7, <1>9, <1>13, <2>1, <2>2, <2>3, <2>4 DEF Straight
<1> QED
  BY <1>12, <1>13, <1>16, <1>17, Here DEF OK, r

\* The messages of a queue with one message, or none.
LEMMA OnlyShort ==
  ASSUME NEW S, NEW x
  PROVE  /\ Chosen(<<>>, S) = <<>>
         /\ x \in S => Chosen(<<x>>, S) = <<x>>
         /\ x \notin S => Chosen(<<x>>, S) = <<>>
<1>1. ASSUME NEW q, {i \in DOMAIN q : q[i] \in S} = {} PROVE Chosen(q, S) = <<>>
  <2>1. Cardinality({}) = 0
    BY FS_EmptySet
  <2> DEFINE at == {i \in DOMAIN q : q[i] \in S}
             f == [k \in 1..Cardinality(at) |->
                     q[CHOOSE i \in at : Cardinality({j \in at : j <= i}) = k]]
  <2>2. Chosen(q, S) = f
    BY DEF Chosen
  <2>3. f \in Seq({}) /\ Len(f) = 0
    <3>1. Cardinality(at) = 0
      BY <1>1, <2>1
    <3> HIDE DEF at
    <3> QED
      BY <3>1
  <2> QED
    BY <2>2, <2>3, EmptySeq
<1>2. ASSUME x \in S PROVE Chosen(<<x>>, S) = <<x>>
  <2> DEFINE q == <<x>>
             at == {i \in DOMAIN q : q[i] \in S}
             ix(k) == CHOOSE i \in at : Cardinality({j \in at : j <= i}) = k
             f == [k \in 1..Cardinality(at) |-> q[ix(k)]]
  <2>1. at = {1}
    BY <1>2
  <2>2. Cardinality({1}) = 1
    BY FS_Singleton
  <2>3. Chosen(<<x>>, S) = f
    BY DEF Chosen
  <2>4. q[1] = x
    OBVIOUS
  <2>5. \A k \in 1..Cardinality(at) : ix(k) = 1
    <3>1. {j \in at : j <= 1} = {1}
      BY <2>1
    <3> HIDE DEF at
    <3>2. \A k \in 1..Cardinality(at) : k = 1
      BY <2>1, <2>2
    <3>3. \A i \in at : i = 1
      BY <2>1
    <3>4. \E i \in at : Cardinality({j \in at : j <= i}) = 1
      BY <2>1, <2>2, <3>1
    <3> QED
      BY <3>2, <3>3, <3>4
  <2> HIDE DEF at
  <2>6. f = [k \in 1..1 |-> x]
    <3>1. 1..Cardinality(at) = 1..1
      BY <2>1, <2>2
    <3> HIDE DEF q, ix
    <3> QED
      BY <2>4, <2>5, <3>1
  <2>7. [k \in 1..1 |-> x] = <<x>>
    OBVIOUS
  <2> QED
    BY <2>3, <2>6, <2>7
<1>3. {i \in DOMAIN <<>> : <<>>[i] \in S} = {}
  OBVIOUS
<1>4. x \notin S => {i \in DOMAIN <<x>> : <<x>>[i] \in S} = {}
  OBVIOUS
<1> QED
  BY <1>1, <1>2, <1>3, <1>4


\* One more message is handled.
LEMMA LogAppend ==
  ASSUME NEW S, S \subseteq Nat, NEW q \in Seq(S), NEW x \in S, NEW u \in Int, x <= u,
         Below(q, u)
  PROVE  /\ Append(q, x) \in Seq(S) /\ Below(Append(q, x), u)
         /\ \A P : Ascending(q, P) /\ (q = <<>> \/ x \in P) => Ascending(Append(q, x), P)
<1> DEFINE p == Append(q, x)
           n == Len(q)
<1>1. /\ p \in Seq(S) /\ n \in Nat /\ Len(p) = n + 1 /\ p[n + 1] = x
      /\ \A i \in 1..n : p[i] = q[i]
  OBVIOUS
<1>2. q = <<>> => n = 0
  OBVIOUS
<1>3. \A i \in 1..n : q[i] <= u
  BY DEF Below
<1> HIDE DEF p, n
<1>4. \A i \in 1..Len(p) : i \in 1..n \/ i = n + 1
  BY <1>1
<1>5. Below(p, u)
  BY <1>1, <1>3, <1>4 DEF Below
<1>6. ASSUME NEW P, Ascending(q, P), q = <<>> \/ x \in P PROVE Ascending(p, P)
  <2> SUFFICES ASSUME NEW i \in 1..Len(p), NEW j \in 1..Len(p), i < j
               PROVE  p[i] < p[j] \/ p[j] \in P
    BY DEF Ascending
  <2>1. CASE j \in 1..n
    <3>1. i \in 1..n
      BY <1>1, <1>4, <2>1
    <3> QED
      BY <1>1, <1>6, <2>1, <3>1 DEF Ascending, n
  <2>2. CASE j = n + 1
    <3>1. n # 0
      BY <1>1, <2>2
    <3> QED
      BY <1>1, <1>2, <1>6, <2>2, <3>1
  <2> QED
    BY <1>4, <2>1, <2>2
<1> QED
  BY <1>1, <1>5, <1>6 DEF p

\* The engine takes what is in its queue.
LEMMA InMsgsOK ==
  ASSUME Usage, IInv, ten_engine_handle_in_msgs_sync
  PROVE  OK(s')
<1> DEFINE r == s'
           a == RestOf("engine")
           linked == IF s.inMsgs # <<>> /\ "engine" \in s.lists
                     THEN [a EXCEPT !.lists = (@ \ {"engine"}) \cup {"remote"},
                                    !.attach = "remote"]
                     ELSE a
           left == Chosen(s.inMsgs, Msgs \ CanHandle)
           done == Chosen(s.inMsgs, CanHandle)
           w == s.tasks["engine"]
<1>1. /\ w # <<>> /\ Head(w) = "in_msgs"
      /\ r = [linked EXCEPT !.log = @ \o done, !.inMsgs = left, !.putBack = @ \cup ToSet(left)]
  BY Zenon DEF ten_engine_handle_in_msgs_sync, RunsNext, Step, EngineLoop, Usage
<1>2. /\ a \in Connection /\ SameMsgs(s, a) /\ SamePlace(s, a)
      /\ a.tasks["engine"] = Tail(w) /\ a.tasks["app"] = s.tasks["app"]
  <2>1. "engine" \in Threads /\ "app" \in Threads
    BY DEF Threads
  <2> HIDE DEF a
  <2> QED
    BY <1>1, <2>1, RestFields DEF a
<1>3. /\ Tail(w) \in Seq(TaskNames)
      /\ \A x : Has(w, x) <=> Has(Tail(w), x) \/ x = "in_msgs"
      /\ OnlyInMsgs(w) => OnlyInMsgs(Tail(w))
  <2>1. w \in Seq(TaskNames) /\ "in_msgs" \in TaskNames
    BY Here DEF TaskNames
  <2> QED
    BY <1>1, <2>1, TailQueue, LinksQueue
<1> HIDE DEF r, a, left, done
<1>4. ASSUME s.inMsgs = <<>>
      PROVE  r = a
  <2>1. linked = a /\ left = <<>> /\ done = <<>>
    BY <1>4, OnlyShort DEF left, done
  <2>2. a.log \o <<>> = a.log /\ a.putBack \cup ToSet(<<>>) = a.putBack
    BY <1>2, Here DEF SameMsgs, ToSet
  <2>3. a.inMsgs = <<>> /\ a \in Connection
    BY <1>2, <1>4 DEF SamePlace
  <2>4. r = [a EXCEPT !.log = a.log, !.inMsgs = a.inMsgs, !.putBack = a.putBack]
    BY <1>1, <2>1, <2>2, <2>3
  <2> QED
    BY <2>3, <2>4 DEF Connection
<1>5. CASE s.owner = "app" /\ WithApp(s)
  <2>1. r = a
    BY <1>4, <1>5 DEF WithApp
  <2>2. AppHasIt(s) => AppHasIt(a)
    BY <1>2 DEF AppHasIt, SamePlace
  <2>3. AtApp(s) => AtApp(a)
    BY <1>2, <2>2 DEF AtApp, SamePlace, SameMsgs
  <2>4. Moving(s) => Moving(a)
    BY <1>2, <2>2 DEF Moving, Handshakes, Waits, SamePlace
  <2>5. WithApp(a)
    BY <1>2, <1>3, <1>5, <2>3, <2>4 DEF WithApp, SamePlace
  <2>6. Place(a) /\ a.owner = s.owner /\ (InTransit(s) => InTransit(a))
    BY <1>2, <1>5, <2>5 DEF Place, SamePlace, InTransit
  <2>7. FirstMoves => a.tasks["app"] \in {<<>>, <<"clean">>}
    BY <1>2, <1>5, Here DEF Straight
  <2> QED
    BY <1>2, <1>5, <2>1, <2>6, <2>7, KeepsOK DEF r
<1>6. CASE s.owner = "engine" /\ WithEngine(s) /\ s.inMsgs = <<>>
  <2>1. r = a
    BY <1>4, <1>6
  <2>2. Linked(s)
    BY <1>6 DEF WithEngine, Unlinked
  <2>3. Linked(a)
    BY <1>2, <2>2 DEF Linked, SamePlace
  <2>4. WithEngine(a)
    BY <1>2, <1>3, <1>6, <2>3 DEF WithEngine, SamePlace
  <2>5. Place(a) /\ a.owner = s.owner /\ a.attach = s.attach
    BY <1>2, <1>6, <2>4 DEF Place, SamePlace
  <2>6. FirstMoves => (a.cached # <<>> => Has(a.tasks["engine"], "cleaned"))
    BY <1>2, <1>3, <1>6, Here DEF Straight, SameMsgs
  <2> QED
    BY <1>2, <1>6, <2>1, <2>5, <2>6, KeepsOK DEF r
<1>7. CASE s.owner = "engine" /\ WithEngine(s) /\ s.inMsgs # <<>>
  <2> DEFINE x == s.first
  <2>1. /\ s.inMsgs = <<x>> /\ x \in Msgs /\ Msgs \subseteq Nat
        /\ s.putBack \in {{}, {x}} /\ (Linked(s) => s.putBack = {x})
    BY <1>7, Here DEF WithEngine, Unlinked, Linked
  <2>2. PICK l \in {{}, {"remote"}} :
          /\ linked = [a EXCEPT !.lists = l, !.attach = "remote"]
          /\ s.state # "destroyed" => l = {"remote"}
    <3>1. CASE Unlinked(s)
      <4>1. s.lists = {"engine"} /\ ({"engine"} \ {"engine"}) \cup {"remote"} = {"remote"}
        BY <3>1 DEF Unlinked
      <4>2. a.lists = {"engine"}
        BY <1>2, <4>1 DEF SamePlace
      <4>3. linked = [a EXCEPT !.lists = {"remote"}, !.attach = "remote"]
        BY <1>7, <4>1, <4>2
      <4> QED
        BY <4>3
    <3>2. CASE Linked(s)
      <4>1. "engine" \notin s.lists /\ s.lists \in {{}, {"remote"}} /\ s.attach = "remote"
        BY <3>2 DEF Linked
      <4>2. linked = a /\ a.lists = s.lists /\ a.attach = "remote" /\ a \in Connection
        BY <1>2, <4>1 DEF SamePlace
      <4>3. linked = [a EXCEPT !.lists = s.lists, !.attach = "remote"]
        BY <4>2 DEF Connection
      <4> QED
        BY <3>2, <4>1, <4>3 DEF Linked
    <3> QED
      BY <1>7, <3>1, <3>2 DEF WithEngine
  <2> HIDE DEF x, linked
  <2>3. /\ linked \in Connection /\ linked.log = s.log /\ linked.putBack = s.putBack
    <3>1. l \in SUBSET {"app", "engine", "remote"} /\ a \in Connection
      BY <1>2
    <3>2. linked \in Connection
      BY <2>2, <3>1 DEF Connection
    <3> QED
      BY <1>2, <2>2, <3>2 DEF Connection, SameMsgs
  <2>4. PICK p \in Seq(Msgs), m \in {<<>>, <<x>>}, b \in {{}, {x}} :
          /\ r = [linked EXCEPT !.log = p, !.inMsgs = m, !.putBack = b]
          /\ m = <<>> \/ b = {x}
          /\ p = s.log \/ (p = Append(s.log, x) /\ b = s.putBack)
          /\ b = s.putBack \/ s.putBack = {}
    <3>1. CASE x \in CanHandle
      <4>1. done = <<x>> /\ left = <<>>
        BY <2>1, <3>1, OnlyShort DEF left, done
      <4>2. s.log \o <<x>> = Append(s.log, x) /\ Append(s.log, x) \in Seq(Msgs)
        BY <2>1, Here
      <4>3. s.putBack \cup ToSet(<<>>) = s.putBack
        BY DEF ToSet
      <4>4. r = [linked EXCEPT !.log = Append(s.log, x), !.inMsgs = <<>>, !.putBack = s.putBack]
        BY <1>1, <2>3, <4>1, <4>2, <4>3
      <4> QED
        BY <2>1, <4>2, <4>4
    <3>2. CASE x \notin CanHandle
      <4>a. x \in Msgs \ CanHandle
        BY <2>1, <3>2
      <4>1. done = <<>> /\ left = <<x>>
        BY <2>1, <3>2, <4>a, OnlyShort DEF left, done
      <4>2. s.log \o <<>> = s.log /\ s.log \in Seq(Msgs)
        BY Here
      <4>3. ToSet(<<x>>) = {x}
        BY DEF ToSet
      <4>4. s.putBack \cup ToSet(<<x>>) = {x}
        BY <2>1, <4>3
      <4>5. r = [linked EXCEPT !.log = s.log, !.inMsgs = <<x>>, !.putBack = {x}]
        BY <1>1, <2>3, <4>1, <4>2, <4>4
      <4> QED
        BY <2>1, <4>2, <4>5
    <3> QED
      BY <3>1, <3>2
  <2>5. m \in Seq(Msgs) /\ b \in SUBSET Msgs
    <3>1. <<x>> \in Seq(Msgs) /\ <<>> \in Seq(Msgs)
      BY <2>1
    <3>2. {x} \in SUBSET Msgs
      BY <2>1
    <3> QED
      BY <2>4, <3>1, <3>2, Zenon
  <2>6. r = [a EXCEPT !.lists = l, !.attach = "remote", !.log = p, !.inMsgs = m, !.putBack = b]
    BY <1>2, <2>2, <2>4 DEF Connection
  <2>7. r \in Connection
    <3>1. /\ linked \in Connection /\ p \in Seq(Msgs) /\ m \in Seq(Msgs) /\ b \in SUBSET Msgs
          /\ r = [linked EXCEPT !.log = p, !.inMsgs = m, !.putBack = b]
      BY <2>3, <2>4, <2>5
    <3> QED
      BY <3>1, ZenonT(60) DEF Connection
  <2>8. /\ r.next = s.next /\ r.state = s.state /\ r.mstate = s.mstate /\ r.owner = s.owner
        /\ r.stream = s.stream /\ r.stage = s.stage /\ r.first = x /\ r.waits = s.waits
        /\ r.cached = s.cached /\ r.failed = s.failed
        /\ r.tasks["engine"] = Tail(w) /\ r.tasks["app"] = s.tasks["app"]
        /\ r.log = p /\ r.inMsgs = m /\ r.putBack = b /\ r.lists = l /\ r.attach = "remote"
    <3>1. a \in Connection
      BY <1>2
    <3>2. /\ r.next = a.next /\ r.state = a.state /\ r.mstate = a.mstate
          /\ r.owner = a.owner /\ r.stream = a.stream /\ r.stage = a.stage
          /\ r.first = a.first /\ r.waits = a.waits /\ r.cached = a.cached
          /\ r.failed = a.failed /\ r.tasks = a.tasks
          /\ r.log = p /\ r.inMsgs = m /\ r.putBack = b /\ r.lists = l /\ r.attach = "remote"
      BY <2>6, <3>1 DEF Connection
    <3> QED
      BY <1>2, <3>2 DEF SameMsgs, SamePlace, x
  <2>9. Linked(r)
    BY <2>2, <2>4, <2>8 DEF Linked
  <2>10. Place(r)
    <3>1. ~Has(Tail(w), "clean")
      BY <1>3, <1>7 DEF WithEngine
    <3> QED
      BY <1>7, <2>1, <2>8, <2>9, <3>1 DEF Place, WithEngine
  <2>11. ASSUME FirstMoves PROVE Straight(r)
    <3>1. Straight(s) /\ s.mstate = "DONE"
      BY <1>7, <2>11, Here DEF WithEngine
    <3>2. Upto(r) = Upto(s) /\ x = 1 /\ Upto(s) >= 1 /\ Upto(s) \in Int
      <4>1. s.next \in Nat /\ Len(s.cached) \in Nat
        BY Here
      <4> QED
        BY <2>8, <3>1, <4>1 DEF Straight, Upto, x
    <3>3. Below(s.log, Upto(s)) /\ Ascending(s.log, s.putBack)
      BY <3>1 DEF Straight, MsgsOK
    <3>4. s.log = <<>> \/ x \in s.putBack
      BY <1>7, <2>1, <3>1 DEF Straight, WithEngine, Unlinked
    <3>5. Below(p, Upto(s)) /\ Ascending(p, b)
      <4>1. CASE p = Append(s.log, x) /\ b = s.putBack
        <5>1. s.log \in Seq(Msgs) /\ x <= Upto(s)
          BY <3>2, Here
        <5> HIDE DEF w, x
        <5> QED
          BY <2>1, <3>2, <3>3, <3>4, <4>1, <5>1, LogAppend, Zenon
      <4>2. CASE p = s.log
        BY <2>4, <3>3, <4>2 DEF Ascending
      <4> QED
        BY <2>4, <4>1, <4>2
    <3>6. MsgsOK(r)
      BY <2>8, <3>1, <3>2, <3>5 DEF Straight, MsgsOK
    <3>7. r.cached # <<>> => Has(Tail(w), "cleaned")
      BY <1>3, <1>7, <2>8, <3>1 DEF Straight
    <3> QED
      BY <1>7, <2>8, <3>1, <3>2, <3>6, <3>7 DEF Straight
  <2> QED
    BY <2>7, <2>8, <2>10, <2>11, Here DEF OK, r
<1> QED
  BY <1>5, <1>6, <1>7, Here

\* An accepted connection.
LEMMA InitOK ==
  ASSUME Usage, MigrationInit
  PROVE  IInv
<1>1. script \in Scripts /\ script \in Seq(Kinds) /\ Len(script) \in Nat
  BY DEF MigrationInit, Usage, MigrationAssumption
<1> DEFINE st == [t \in Threads |-> IF t = "app" THEN "reading" ELSE "none"]
           q == [t \in Threads |-> <<>>]
<1>2. PICK b \in BOOLEAN :
        s = [next |-> 1, gone |-> FALSE, eof |-> FALSE, state |-> "open",
             attach |-> "app", mstate |-> "INIT", owner |-> "app", lists |-> {"app"},
             stream |-> st, stage |-> "none", first |-> 0, waits |-> FALSE,
             cleaned |-> FALSE, cached |-> <<>>, inMsgs |-> <<>>, tasks |-> q,
             ready |-> b, putBack |-> {}, cut |-> FALSE, failed |-> FALSE, log |-> <<>>]
  BY DEF MigrationInit
<1>3. st \in [Threads -> StreamStates] /\ st["app"] = "reading" /\ st["engine"] = "none"
  BY DEF Threads, StreamStates
<1>4. q \in [Threads -> Seq(TaskNames)] /\ q["app"] = <<>> /\ q["engine"] = <<>>
  BY DEF Threads
<1>5. "app" \in Threads /\ <<>> \in Seq(Msgs) /\ 1 \in 1..(Len(script) + 1)
                        /\ 0 \in 0..Len(script)
  BY <1>1 DEF Threads
<1> HIDE DEF st, q
<1>6. s \in Connection
  <2>1. q \in [Threads -> Seq({"clean", "cleaned", "in_msgs", "close"})]
    BY <1>4 DEF TaskNames
  <2> QED
    BY <1>2, <1>3, <1>5, <2>1 DEF Connection, StreamStates
<1>7. /\ s.next = 1 /\ s.state = "open" /\ s.attach = "app" /\ s.mstate = "INIT"
      /\ s.owner = "app" /\ s.lists = {"app"} /\ s.stream = st /\ s.stage = "none"
      /\ s.waits = FALSE /\ s.cleaned = FALSE /\ s.cached = <<>> /\ s.inMsgs = <<>>
      /\ s.tasks = q /\ s.putBack = {} /\ s.failed = FALSE /\ s.log = <<>>
  BY <1>2
<1>8. Len(s.cached) = 0 /\ Len(s.log) = 0
  BY <1>7
<1>9. Upto(s) = 0
  <2>1. s.next = 1
    BY <1>7
  <2> QED
    BY <1>8, <2>1 DEF Upto
<1>10. AtApp(s)
  BY <1>3, <1>4, <1>7, EmptyQueue DEF AtApp, AppHasIt
<1>11. Place(s)
  BY <1>3, <1>4, <1>7, <1>10 DEF Place, WithApp, OnlyInMsgs
<1>12. MsgsOK(s)
  BY <1>8 DEF MsgsOK, Below, Ascending
<1>13. Straight(s)
  BY <1>4, <1>7, <1>12 DEF Straight
<1>14. Len(s.cached) < s.next
  BY <1>7, <1>8
<1> QED
  BY <1>1, <1>6, <1>11, <1>13, <1>14 DEF IInv, OK

\* The script stays: what holds of the next state holds in it.
LEMMA ScriptStays ==
  ASSUME script \in Scripts, script' = script, OK(s')
  PROVE  IInv'
<1>1. Connection' = Connection /\ Msgs' = Msgs /\ FirstMoves' = FirstMoves
  BY DEF Connection, Msgs, FirstMoves
<1>2. /\ (MsgsOK(s))' <=> MsgsOK(s')
      /\ (AppHasIt(s))' <=> AppHasIt(s')
      /\ (Upto(s))' = Upto(s') /\ (InTransit(s))' <=> InTransit(s')
  BY DEF MsgsOK, Below, Ascending, Upto, AppHasIt, InTransit
<1>3. (AtApp(s))' <=> AtApp(s')
  BY <1>2 DEF AtApp, Has
<1>4. (Handshakes(s))' <=> Handshakes(s')
  BY <1>2 DEF Handshakes, Has
<1>5. (Waits(s))' <=> Waits(s')
  BY <1>2 DEF Waits, CleanLast, Has, AtEnd
<1>6. (Moving(s))' <=> Moving(s')
  BY <1>1, <1>4, <1>5 DEF Moving
<1>7. (WithApp(s))' <=> WithApp(s')
  BY <1>3, <1>6 DEF WithApp, OnlyInMsgs
<1>8. (Unlinked(s))' <=> Unlinked(s')
  BY DEF Unlinked, LinksFirst, Has
<1>9. (Linked(s))' <=> Linked(s')
  BY DEF Linked
<1>10. (WithEngine(s))' <=> WithEngine(s')
  BY <1>1, <1>8, <1>9 DEF WithEngine, Has
<1>11. (Place(s))' <=> Place(s')
  BY <1>7, <1>10 DEF Place
<1>12. (Straight(s))' <=> Straight(s')
  BY <1>2 DEF Straight, Has
<1> QED
  BY <1>1, <1>11, <1>12 DEF IInv, OK

\* Every step keeps the invariant.
LEMMA NextOK ==
  ASSUME Usage, IInv, [MigrationNext]_migration_vars
  PROVE  IInv'
<1>1. CASE UNCHANGED migration_vars
  <2>1. OK(s) /\ s' = s /\ script' = script
    BY <1>1 DEF migration_vars, IInv
  <2>2. OK(s') /\ script \in Scripts
    BY <2>1 DEF IInv
  <2> QED
    BY <2>1, <2>2, ScriptStays
<1>2. CASE MigrationNext
  <2>1. OK(s')
    <3>1. CASE \E t \in Threads :
                 \/ ten_stream_on_data(t) \/ StreamEnds(t)
                 \/ ten_protocol_close_task(t) \/ ten_protocol_on_cleaned_task(t)
                 \/ StreamClosed(t)
      BY <3>1, ReadOK, StreamEndsOK, CloseTaskOK, CleanedTaskOK, StreamClosedOK
    <3> QED
      BY <1>2, <3>1, HandshakeOK, MigratedOK, CleanTaskOK, StreamCleanedOK,
         ConnectionCleanedOK, InMsgsOK, EngineReadyOK, ClientGoesOK, AppClosesOK,
         EngineClosesOK, Zenon
      DEF MigrationNext, Loops
  <2>2. script' = script
    BY <1>2
    DEF MigrationNext, Loops, Step, ten_stream_on_data, StreamEnds, ten_protocol_close_task,
        ten_protocol_on_cleaned_task, StreamClosed, Handshake, ten_stream_migrated,
        ten_app_clean_connection_task, ten_protocol_integrated_on_stream_cleaned,
        ten_engine_on_connection_cleaned, ten_engine_handle_in_msgs_sync, EngineReady,
        ClientGoes, AppCloses, EngineCloses
  <2> QED
    BY <2>1, <2>2, Here, ScriptStays
<1> QED
  BY <1>1, <1>2

\* The inductive invariant of the migration of a connection, for any messages
\* in any number, in any number of reads, and for a close at any time: who owns
\* the connection, which stream is open, which tasks are on their way and which
\* messages are kept fit together at every line of the handshake, the wait and
\* the take-over.
THEOREM Invariance == Usage => (MigrationSpec => []IInv)
<1> SUFFICES ASSUME Usage PROVE MigrationSpec => []IInv
  OBVIOUS
<1>1. MigrationInit => IInv
  BY InitOK
<1>2. IInv /\ [MigrationNext]_migration_vars => IInv'
  BY NextOK
<1> QED
  BY <1>1, <1>2, PTL DEF MigrationSpec

\* When a client begins with a message for a graph, no assertion of the
\* migration fails: neither the one of protocol_integrated.c ("The stream should
\* be frozen before the migration is completed.") nor the TEN_ASSERT(0) of
\* ten_connection_on_msgs, although the loops read as often as they like before
\* they run a task, and the app may close the connection on its way.
THEOREM NoAssertion == Usage => (MigrationSpec => []FrozenWhileMoving)
<1> SUFFICES ASSUME Usage PROVE MigrationSpec => []FrozenWhileMoving
  OBVIOUS
<1>1. IInv => FrozenWhileMoving
  BY DEF IInv, OK, Straight, FrozenWhileMoving, NoAssertionFails
<1>2. MigrationSpec => []IInv
  BY Invariance
<1> QED
  BY <1>1, <1>2, PTL

\* When a client begins with a message for a graph, its messages are handled in
\* the order in which they were sent, although those that came with the first
\* one are kept until the connection has moved and are handed on by another
\* thread: only a message that the engine itself has put back while it starts
\* (ten_engine_handle_in_msgs_sync) comes after a later one.
THEOREM Order == Usage => (MigrationSpec => []InOrder)
<1> SUFFICES ASSUME Usage PROVE MigrationSpec => []InOrder
  OBVIOUS
<1>1. IInv => InOrder
  <2> SUFFICES ASSUME IInv, FirstMoves
               PROVE  \A i, j \in DOMAIN s.log :
                        i < j => s.log[i] < s.log[j] \/ s.log[j] \in s.putBack
    BY DEF InOrder
  <2>1. DOMAIN s.log = 1..Len(s.log)
    BY Here
  <2>2. Ascending(s.log, s.putBack)
    BY Here DEF Straight, MsgsOK
  <2> QED
    BY <2>1, <2>2 DEF Ascending
<1>2. MigrationSpec => []IInv
  BY Invariance
<1> QED
  BY <1>1, <1>2, PTL

\* The thread of the app and the thread of the engine never use the connection
\* and its streams at once: from ten_stream_migrated on, which waits for
\* ten_app_clean_connection_task, only the engine's thread has them.
THEOREM SingleThread == Usage => (MigrationSpec => []OneThread)
<1> SUFFICES ASSUME Usage PROVE MigrationSpec => []OneThread
  OBVIOUS
<1>1. IInv => OneThread
  <2> SUFFICES ASSUME IInv PROVE OneThread
    OBVIOUS
  <2>1. MigrationTypeOK
    BY Here DEF MigrationTypeOK
  <2>2. CASE s.owner = "engine"
    <3>1. WithEngine(s)
      BY <2>2, Here
    <3> QED
      BY <2>1, <2>2, <3>1 DEF WithEngine, OneThread
  <2>3. CASE s.owner # "engine"
    <3>1. WithApp(s)
      BY <2>3, Here
    <3>2. "cleaned" \notin ToSet(s.tasks["engine"])
      <4>1. DOMAIN s.tasks["engine"] = 1..Len(s.tasks["engine"])
        BY Here
      <4> QED
        BY <3>1, <4>1 DEF WithApp, OnlyInMsgs, ToSet
    <3> QED
      BY <2>1, <2>3, <3>1, <3>2 DEF WithApp, OneThread
  <2> QED
    BY <2>2, <2>3
<1>2. MigrationSpec => []IInv
  BY Invariance
<1> QED
  BY <1>1, <1>2, PTL

\* Until a connection is destroyed exactly one of app, engine and remote has it
\* and can close it, except while it is handed over, although the app, the
\* engine and the client close it at any time; and unless it was closed on its
\* way, neither the handshake nor a thread nor a task that uses it is left when
\* it is destroyed.
THEOREM Lifetime == Usage => (MigrationSpec => []OneHolder)
<1> SUFFICES ASSUME Usage PROVE MigrationSpec => []OneHolder
  OBVIOUS
<1>1. IInv => OneHolder
  <2> SUFFICES ASSUME IInv PROVE OneHolder
    OBVIOUS
  <2>1. \A t \in Threads : DOMAIN s.tasks[t] = 1..Len(s.tasks[t])
    BY Here DEF Threads
  <2>2. CASE s.owner = "app"
    <3>1. WithApp(s)
      BY <2>2, Here
    <3>2. CASE AtApp(s)
      <4>1. \A t \in Threads : "clean" \notin ToSet(s.tasks[t])
        BY <2>1, <3>1, <3>2 DEF WithApp, AtApp, OnlyInMsgs, Has, ToSet, Threads
      <4>2. NoUseAfterDelete
        BY <3>2, <4>1 DEF AtApp, NoUseAfterDelete, InTransit
      <4>3. s.state # "destroyed" => s.lists = {"app"}
        BY <3>2 DEF AtApp, AppHasIt
      <4> QED
        BY <4>2, <4>3 DEF OneHolder
    <3>3. CASE Moving(s)
      <4>1. s.cut \/ NoUseAfterDelete
        BY <3>3 DEF Moving, NoUseAfterDelete
      <4>2. s.state # "destroyed" => s.waits \/ s.lists = {"app"}
        BY <3>3 DEF Moving, Handshakes, Waits, AppHasIt
      <4> QED
        BY <4>1, <4>2 DEF OneHolder
    <3> QED
      BY <3>1, <3>2, <3>3 DEF WithApp
  <2>3. CASE s.owner = "engine"
    <3>1. WithEngine(s)
      BY <2>3, Here
    <3>2. \A t \in Threads : "clean" \notin ToSet(s.tasks[t])
      BY <2>1, <3>1 DEF WithEngine, Has, ToSet, Threads
    <3>3. NoUseAfterDelete
      BY <3>1, <3>2 DEF WithEngine, NoUseAfterDelete, InTransit
    <3>4. s.state # "destroyed" => s.lists = {"engine"} \/ s.lists = {"remote"}
      BY <3>1 DEF WithEngine, Unlinked, Linked
    <3> QED
      BY <3>3, <3>4 DEF OneHolder
  <2> QED
    BY <2>2, <2>3, Here
<1>2. MigrationSpec => []IInv
  BY Invariance
<1> QED
  BY <1>1, <1>2, PTL

-----------------------------------------------------------------------------
(* The life of an app and its inductive invariant.                         *)

\* What the theorems about an app assume: other threads close it once it is in
\* ON_INIT_DONE, and the program gives its proxies back after on_deinit_done.
\* The first two conjuncts are the assumption of AppLifeCycle.
AppUsage ==
  /\ AutoStart \subseteq Engines /\ MaxMsgs \in Nat
  /\ CloseFrom \subseteq {"ON_INIT_DONE"} /\ EarlyRelease = FALSE

\* In q, x is before y.
Sooner(q, x, y) == \E i, j \in 1..Len(q) : i < j /\ q[i] = x /\ q[j] = y

\* A start_graph command is among the messages q.
HasStart(q) == \E i \in 1..Len(q) : q[i][1] = "start_graph"

\* The app has not come to on_init.
Early(a) == a.state \in {"INIT", "ON_CONFIGURE", "ON_CONFIGURE_DONE"}

\* No engine is left, or none was started.
AllGone(a) == \A e \in Engines : a.engines[e] \in {"none", "gone"}

\* The app holds nothing, and nothing is on its way to it.
Empty(a, b) ==
  /\ \A e \in Engines : a.engines[e] = "none"
  /\ \A x \in Conns : a.orphans[x] = "none"
  /\ a.inMsgs = <<>> /\ b = <<>>

\* The stages of a start up to on_init: state, queue and callback that is not
\* answered determine each other.
Phase(a, c) ==
  \/ /\ a.state = "INIT" /\ a.queue = << <<"metadata">> >> /\ a.pending = {}
     /\ c = "no" /\ a.endpoint = "none"
  \/ /\ a.state = "ON_CONFIGURE" /\ a.queue = <<>> /\ a.endpoint = "none"
     /\ \/ a.pending = {"configure"} /\ c = "no"
        \/ a.pending = {} /\ c = "configure"
  \/ /\ a.state = "ON_CONFIGURE_DONE" /\ a.queue = <<>> /\ a.pending = {"load"}
     /\ c = "no" /\ a.endpoint = "none"
  \/ /\ a.state = "ON_CONFIGURE_DONE" /\ a.pending = {} /\ c = "no"
     /\ a.endpoint = "creating" /\ config.endpoint = TRUE
     /\ a.queue \in {<<>>, << <<"endpoint_created">> >>, << <<"endpoint_failed">> >>}

\* The app starts: it is between ten_app_start and on_init.
Starts(a, b, c) ==
  /\ a \in AppRecord /\ Empty(a, b) /\ a.deinits = 0 /\ a.loop = "running" /\ Phase(a, c)

\* What the tasks in the queue mean, once the app has started.
Queued(a) ==
  /\ \A i \in 1..Len(a.queue) :
       a.queue[i][1] \notin {"metadata", "endpoint_created", "endpoint_failed"}
  /\ Has(a.queue, <<"close">>) => ten_app_is_closing(a)
  /\ Once(a.queue, <<"close">>)
  /\ \A e \in Engines :
       /\ Once(a.queue, <<"engine_closed", e>>)
       /\ Has(a.queue, <<"engine_closed", e>>) => a.engines[e] = "closed"
  /\ \A x \in Conns :
       /\ Once(a.queue, <<"client", x>>)
       /\ Has(a.queue, <<"client", x>>) => a.orphans[x] = "accepted"
  /\ \A p \in Proxies : Has(a.queue, <<"proxy", p>>) => a.state = "ON_DEINIT_DONE"

\* The endpoint closes only when the task of ten_app_close has run, and an app
\* that has given its endpoint up holds nothing.
Endpoint(a, b) ==
  /\ a.endpoint # "creating"
  /\ a.endpoint \in {"closing", "closed"} =>
       ten_app_is_closing(a) /\ ~Has(a.queue, <<"close">>)
  /\ config.endpoint /\ a.endpoint = "none" => Empty(a, b) /\ ten_app_is_closing(a)
  /\ \A x \in Conns : a.orphans[x] = "accepted" => a.endpoint \in {"listening", "closing"}

\* What on_deinit and the end of the loop come after.
Deinit(a) ==
  /\ a.deinits > 0 =>
       /\ ten_app_is_closing(a)
       /\ \A x \in Conns : a.orphans[x] \in {"none", "gone"}
       /\ a.endpoint \in {"none", "closed"}
       /\ config.ownLoop => AllGone(a)
       /\ config.endpoint => ~Has(a.queue, <<"close">>)
  /\ "unregister" \in a.pending \/ "deinit" \in a.pending => a.deinits > 0
  /\ a.state = "ON_DEINIT_DONE" => a.deinits > 0
  /\ a.loop # "running" => a.state = "ON_DEINIT_DONE" /\ NoProxyLeft(a)
  /\ config.endpoint /\ config.ownLoop => a.deinits <= 1

\* An engine that is not gone will be looked at after the messages have been:
\* it is alive, or its own end is queued behind them.
Sender(a) ==
  \E e \in Engines :
    \/ a.engines[e] \in {"running", "closing"} /\ Has(a.queue, <<"in_msgs">>)
    \/ Sooner(a.queue, <<"in_msgs">>, <<"engine_closed", e>>)

\* When engines have their own loops, a start_graph command on its way was sent
\* by an engine that the app has not seen the end of.
Starters(a, b) ==
  config.ownLoop =>
    /\ HasStart(a.inMsgs) => Sender(a)
    /\ HasStart(b) => ~AllGone(a)

\* The app has started.
Good(a, b, c) ==
  /\ a \in AppRecord /\ b \in Seq(Messages) /\ c \in {"no", "init"}
  /\ ~Early(a)
  /\ c = "init" => a.state = "ON_INIT" /\ b = <<>>
  /\ "configure" \notin a.pending /\ "load" \notin a.pending
  /\ Queued(a) /\ Endpoint(a, b) /\ Deinit(a) /\ Starters(a, b)

\* Which states an app can be in.
AppOK(a, b, c) == Starts(a, b, c) \/ Good(a, b, c)

\* The configurations.
Config == [endpoint: BOOLEAN, ownLoop: BOOLEAN, longRunning: BOOLEAN]

\* Where the stop_graph command for an engine is.
Stops == [Engines -> {"none", "sent", "mail", "kept", "ok", "error", "lost"}]

\* The inductive invariant of an app.
AppInv ==
  /\ config \in Config /\ stop \in Stops /\ sent \in 0..MaxMsgs
  /\ AppOK(app, batch, checked)

-----------------------------------------------------------------------------
\* The values of the fields of an app.
EngineStates == {"none", "running", "closing", "closed", "gone"}
ConnStates == {"none", "accepted", "open", "closing", "gone"}
ProxyStates == {"none", "held", "releasing", "gone"}
Pendings == {"configure", "load", "init", "unregister", "deinit"}

\* The fields of an app.
LEMMA AppFields ==
  ASSUME NEW a \in AppRecord
  PROVE  /\ a.queue \in Seq(Tasks) /\ a.inMsgs \in Seq(Messages) /\ a.deinits \in Nat
         /\ Len(a.queue) \in Nat /\ Len(a.inMsgs) \in Nat
         /\ a.pending \in SUBSET Pendings /\ a.engines \in [Engines -> EngineStates]
         /\ a.orphans \in [Conns -> ConnStates] /\ a.proxies \in [Proxies -> ProxyStates]
         /\ a.endpoint \in {"none", "creating", "listening", "closing", "closed"}
         /\ a.loop \in {"running", "stopping", "stopped"} /\ a.state \in AppStates
         /\ a.late \in BOOLEAN
<1>1. /\ a.queue \in Seq(Tasks) /\ a.inMsgs \in Seq(Messages) /\ a.deinits \in Nat
      /\ a.pending \in SUBSET Pendings /\ a.engines \in [Engines -> EngineStates]
      /\ a.orphans \in [Conns -> ConnStates] /\ a.proxies \in [Proxies -> ProxyStates]
      /\ a.endpoint \in {"none", "creating", "listening", "closing", "closed"}
      /\ a.loop \in {"running", "stopping", "stopped"} /\ a.state \in AppStates
      /\ a.late \in BOOLEAN
  BY DEF AppRecord, Pendings, EngineStates, ConnStates, ProxyStates
<1> QED
  BY <1>1

\* Posting at the end, and taking the first: what is before what.
LEMMA SoonerQueue ==
  ASSUME NEW S, NEW q \in Seq(S), NEW z \in S
  PROVE  /\ \A x, y : Sooner(q, x, y) => Sooner(Append(q, z), x, y)
         /\ \A x : Has(q, x) => Sooner(Append(q, z), x, z)
         /\ q # <<>> => \A x, y : Sooner(q, x, y) /\ Head(q) # x => Sooner(Tail(q), x, y)
<1> DEFINE p == Append(q, z)
<1>1. /\ Len(q) \in Nat /\ Len(p) = Len(q) + 1 /\ p[Len(q) + 1] = z
      /\ \A i \in 1..Len(q) : p[i] = q[i]
  OBVIOUS
<1> HIDE DEF p
<1>2. \A i \in 1..Len(q) : i \in 1..Len(p) /\ i < Len(q) + 1
  BY <1>1
<1>3. Len(q) + 1 \in 1..Len(p)
  BY <1>1
<1>4. ASSUME NEW x, NEW y, Sooner(q, x, y) PROVE Sooner(p, x, y)
  BY <1>1, <1>2, <1>4 DEF Sooner
<1>5. ASSUME NEW x, Has(q, x) PROVE Sooner(p, x, z)
  BY <1>1, <1>2, <1>3, <1>5 DEF Sooner, Has
<1>6. ASSUME q # <<>>, NEW x, NEW y, Sooner(q, x, y), Head(q) # x PROVE Sooner(Tail(q), x, y)
  <2> DEFINE t == Tail(q)
  <2>1. /\ Len(t) = Len(q) - 1 /\ q[1] = Head(q) /\ \A i \in 1..Len(t) : t[i] = q[i + 1]
    BY <1>6, HeadTailProperties
  <2>2. PICK i \in 1..Len(q), j \in 1..Len(q) : i < j /\ q[i] = x /\ q[j] = y
    BY <1>6 DEF Sooner
  <2> HIDE DEF t
  <2>3. i # 1
    BY <1>6, <2>1, <2>2
  <2>4. i - 1 \in 1..Len(t) /\ j - 1 \in 1..Len(t) /\ i - 1 < j - 1
    BY <1>1, <2>1, <2>2, <2>3
  <2>5. t[i - 1] = q[i - 1 + 1] /\ t[j - 1] = q[j - 1 + 1]
    BY <2>1, <2>4
  <2>6. i - 1 + 1 = i /\ j - 1 + 1 = j
    OBVIOUS
  <2>7. t[i - 1] = x /\ t[j - 1] = y
    BY <2>2, <2>5, <2>6
  <2> QED
    BY <2>4, <2>7 DEF Sooner, t
<1> QED
  BY <1>4, <1>5, <1>6 DEF p

\* What is in a queue has a place in it.
LEMMA SoonerHas ==
  ASSUME NEW q, NEW x, NEW y, Sooner(q, x, y)
  PROVE  Has(q, x) /\ Has(q, y)
  BY DEF Sooner, Has

\* A message is put behind the others, or the first one is taken.
LEMMA StartQueue ==
  ASSUME NEW S, NEW q \in Seq(S), NEW z \in S
  PROVE  /\ ~HasStart(<<>>)
         /\ HasStart(Append(q, z)) => HasStart(q) \/ z[1] = "start_graph"
         /\ q # <<>> /\ HasStart(Tail(q)) => HasStart(q)
         /\ q # <<>> /\ Head(q)[1] = "start_graph" => HasStart(q)
<1>1. ~HasStart(<<>>)
  BY DEF HasStart
<1>2. ASSUME HasStart(Append(q, z)), z[1] # "start_graph" PROVE HasStart(q)
  <2>1. PICK i \in 1..Len(Append(q, z)) : Append(q, z)[i][1] = "start_graph"
    BY <1>2 DEF HasStart
  <2>2. (i \in 1..Len(q) /\ Append(q, z)[i] = q[i]) \/ Append(q, z)[i] = z
    OBVIOUS
  <2> QED
    BY <1>2, <2>1, <2>2 DEF HasStart
<1>3. ASSUME q # <<>> 
      PROVE  /\ HasStart(Tail(q)) => HasStart(q)
             /\ Head(q)[1] = "start_graph" => HasStart(q)
  <2> DEFINE t == Tail(q)
  <2>1. /\ Len(q) \in Nat /\ Len(q) >= 1 /\ Len(t) = Len(q) - 1 /\ q[1] = Head(q)
        /\ \A i \in 1..Len(t) : t[i] = q[i + 1]
    BY <1>3, HeadTailProperties
  <2> HIDE DEF t
  <2>2. 1 \in 1..Len(q) /\ \A i \in 1..Len(t) : i + 1 \in 1..Len(q)
    BY <2>1
  <2> QED
    BY <2>1, <2>2 DEF HasStart, t
<1> QED
  BY <1>1, <1>2, <1>3

-----------------------------------------------------------------------------
(* The operators.                                                          *)

\* The first task is taken.
LEMMA RestGood ==
  ASSUME NEW a, NEW b, NEW c, Good(a, b, c), a.queue # <<>>,
         HasStart(a.inMsgs) => Head(a.queue) # <<"in_msgs">>,
         NEW r, r = [a EXCEPT !.queue = Tail(@)]
  PROVE  /\ Good(r, b, c)
         /\ r.state = a.state /\ r.loop = a.loop /\ r.inMsgs = a.inMsgs
         /\ r.pending = a.pending /\ r.deinits = a.deinits /\ r.late = a.late
         /\ r.engines = a.engines /\ r.orphans = a.orphans /\ r.endpoint = a.endpoint
         /\ r.proxies = a.proxies
         /\ r.queue = Tail(a.queue)
<1> DEFINE q == Tail(a.queue)
<1>1. a \in AppRecord /\ a.queue \in Seq(Tasks) /\ Len(a.queue) \in Nat
  BY AppFields DEF Good
<1>2. /\ q \in Seq(Tasks) /\ Head(a.queue) \in Tasks
      /\ \A x : Has(a.queue, x) <=> Has(q, x) \/ x = Head(a.queue)
      /\ \A x : Once(a.queue, x) => Once(q, x) /\ (x = Head(a.queue) => ~Has(q, x))
  BY <1>1, TailQueue
<1>3. \A x, y : Sooner(a.queue, x, y) /\ Head(a.queue) # x => Sooner(q, x, y)
  BY <1>1, <1>2, SoonerQueue
<1>4. \A i \in 1..Len(q) : \E j \in 1..Len(a.queue) : q[i] = a.queue[j]
  <2>1. Len(q) = Len(a.queue) - 1 /\ \A i \in 1..Len(q) : q[i] = a.queue[i + 1]
    BY <1>1, HeadTailProperties
  <2> HIDE DEF q
  <2>2. \A i \in 1..Len(q) : i + 1 \in 1..Len(a.queue)
    BY <1>1, <2>1
  <2> QED
    BY <2>1, <2>2
<1> HIDE DEF q
<1>5. r = [a EXCEPT !.queue = q]
  BY DEF q
<1>6. r \in AppRecord
  BY <1>1, <1>2, <1>5, ZenonT(60) DEF AppRecord
<1>7. /\ r.state = a.state /\ r.loop = a.loop /\ r.inMsgs = a.inMsgs
      /\ r.pending = a.pending /\ r.deinits = a.deinits /\ r.late = a.late
      /\ r.engines = a.engines /\ r.orphans = a.orphans /\ r.endpoint = a.endpoint
      /\ r.proxies = a.proxies
      /\ r.queue = q
  BY <1>1, <1>5 DEF AppRecord
<1>8. ten_app_is_closing(r) = ten_app_is_closing(a) /\ (AllGone(a) <=> AllGone(r))
  BY <1>7 DEF ten_app_is_closing, AllGone
<1>9. Queued(r)
  <2>1. Queued(a)
    BY DEF Good
  <2> QED
    BY <1>2, <1>4, <1>7, <1>8, <2>1 DEF Queued
<1>10. Endpoint(r, b)
  <2>1. Endpoint(a, b)
    BY DEF Good
  <2> QED
    BY <1>2, <1>7, <1>8, <2>1, ZenonT(60) DEF Endpoint, Empty
<1>11. Deinit(r)
  <2>1. Deinit(a)
    BY DEF Good
  <2> QED
    BY <1>2, <1>7, <1>8, <2>1 DEF Deinit, NoProxyLeft
<1>12. Starters(r, b)
  <2>1. Starters(a, b)
    BY DEF Good
  <2>2. HasStart(a.inMsgs) /\ Sender(a) => Sender(r)
    BY <1>2, <1>3, <1>7 DEF Sender
  <2> QED
    BY <1>7, <1>8, <2>1, <2>2 DEF Starters
<1> QED
  BY <1>6, <1>7, <1>9, <1>10, <1>11, <1>12 DEF Good, Early, q

\* A task that may be posted.
MayPost(a, x) ==
  /\ x \in Tasks /\ x[1] \notin {"metadata", "endpoint_created", "endpoint_failed"}
  /\ x = <<"close">> =>
       /\ ten_app_is_closing(a) /\ ~Has(a.queue, x) /\ a.deinits = 0
       /\ a.endpoint \notin {"closing", "closed"}
  /\ \A e \in Engines : x = <<"engine_closed", e>> => a.engines[e] = "closed" /\ ~Has(a.queue, x)
  /\ \A y \in Conns : x = <<"client", y>> => a.orphans[y] = "accepted" /\ ~Has(a.queue, x)
  /\ \A p \in Proxies : x = <<"proxy", p>> => a.state = "ON_DEINIT_DONE"

\* A task is posted that may be.
LEMMA PostGood ==
  ASSUME NEW a, NEW b, NEW c, Good(a, b, c), NEW x, MayPost(a, x), NEW r, r = Post(a, x)
  PROVE  /\ Good(r, b, c)
         /\ r.state = a.state /\ r.loop = a.loop /\ r.inMsgs = a.inMsgs
         /\ r.pending = a.pending /\ r.deinits = a.deinits /\ r.late = a.late
         /\ r.engines = a.engines /\ r.orphans = a.orphans /\ r.endpoint = a.endpoint
         /\ r.proxies = a.proxies
         /\ \A y : y # x => (Has(r.queue, y) <=> Has(a.queue, y))
         /\ a.loop = "running" => Has(r.queue, x)
<1>1. CASE a.loop # "running"
  BY <1>1 DEF Post
<1>2. CASE a.loop = "running"
  <2> DEFINE q == Append(a.queue, x)
  <2>1. a \in AppRecord /\ a.queue \in Seq(Tasks) /\ x \in Tasks
    BY AppFields DEF Good, MayPost
  <2>2. /\ q \in Seq(Tasks)
        /\ \A y : Has(q, y) <=> Has(a.queue, y) \/ y = x
        /\ \A y : Once(a.queue, y) /\ (y = x => ~Has(a.queue, y)) => Once(q, y)
    BY <2>1, AppendQueue
  <2>3. \A y, z : Sooner(a.queue, y, z) => Sooner(q, y, z)
    BY <2>1, SoonerQueue
  <2>4. \A i \in 1..Len(q) : q[i] = x \/ \E j \in 1..Len(a.queue) : q[i] = a.queue[j]
    <3>1. \A i \in 1..Len(q) : (i \in 1..Len(a.queue) /\ q[i] = a.queue[i]) \/ q[i] = x
      BY <2>1
    <3> QED
      BY <3>1
  <2>5. r = [a EXCEPT !.queue = q]
    BY <1>2 DEF Post
  <2> HIDE DEF q
  <2>6. r \in AppRecord
    BY <2>1, <2>2, <2>5, ZenonT(60) DEF AppRecord
  <2>7. /\ r.state = a.state /\ r.loop = a.loop /\ r.inMsgs = a.inMsgs
        /\ r.pending = a.pending /\ r.deinits = a.deinits /\ r.late = a.late
        /\ r.engines = a.engines /\ r.orphans = a.orphans /\ r.endpoint = a.endpoint
        /\ r.proxies = a.proxies
        /\ r.queue = q
    BY <2>1, <2>5 DEF AppRecord
  <2>8. ten_app_is_closing(r) = ten_app_is_closing(a) /\ (AllGone(a) <=> AllGone(r))
    BY <2>7 DEF ten_app_is_closing, AllGone
  <2>9. Queued(r)
    <3>1. Queued(a)
      BY DEF Good
    <3>2. /\ \A i \in 1..Len(r.queue) :
               r.queue[i][1] \notin {"metadata", "endpoint_created", "endpoint_failed"}
          /\ Has(r.queue, <<"close">>) => ten_app_is_closing(r)
          /\ Once(r.queue, <<"close">>)
      BY <2>2, <2>4, <2>7, <2>8, <3>1 DEF Queued, MayPost
    <3>3. /\ \A e \in Engines :
               /\ Once(r.queue, <<"engine_closed", e>>)
               /\ Has(r.queue, <<"engine_closed", e>>) => r.engines[e] = "closed"
          /\ \A y \in Conns :
               /\ Once(r.queue, <<"client", y>>)
               /\ Has(r.queue, <<"client", y>>) => r.orphans[y] = "accepted"
      BY <2>2, <2>7, <3>1 DEF Queued, MayPost
    <3>4. \A p \in Proxies : Has(r.queue, <<"proxy", p>>) => r.state = "ON_DEINIT_DONE"
      BY <2>2, <2>7, <3>1 DEF Queued, MayPost
    <3> QED
      BY <3>2, <3>3, <3>4 DEF Queued
  <2>10. Endpoint(r, b)
    <3>1. Endpoint(a, b)
      BY DEF Good
    <3> QED
      BY <2>2, <2>7, <2>8, <3>1 DEF Endpoint, Empty, MayPost
  <2>11. Deinit(r)
    <3>1. Deinit(a) /\ a.deinits \in Nat
      BY <2>1, AppFields DEF Good
    <3>2. a.deinits > 0 => x # <<"close">>
      BY <3>1 DEF MayPost
    <3> QED
      BY <2>2, <2>7, <2>8, <3>1, <3>2 DEF Deinit, NoProxyLeft
  <2>12. Starters(r, b)
    <3>1. Starters(a, b)
      BY DEF Good
    <3>2. Sender(a) => Sender(r)
      BY <2>2, <2>3, <2>7 DEF Sender
    <3> QED
      BY <2>7, <2>8, <3>1, <3>2 DEF Starters
  <2> QED
    BY <2>2, <2>6, <2>7, <2>9, <2>10, <2>11, <2>12 DEF Good, Early
<1> QED
  BY <1>1, <1>2

\* The messages are set.
LEMMA SetInMsgs ==
  ASSUME NEW a \in AppRecord, NEW w \in Seq(Messages)
  PROVE  [a EXCEPT !.inMsgs = w] \in AppRecord
  BY DEF AppRecord

\* A message is pushed: a start_graph command only by an engine that lives.
LEMMA PushGood ==
  ASSUME NEW a, NEW b, NEW c, Good(a, b, c), NEW m \in Messages,
         config.endpoint => a.endpoint # "none",
         m[1] = "start_graph" =>
           a.loop = "running" /\ \E e \in Engines : a.engines[e] \in {"running", "closing"},
         NEW r, r = PushInMsg(a, m)
  PROVE  /\ Good(r, b, c)
         /\ r.state = a.state /\ r.loop = a.loop /\ r.pending = a.pending
         /\ r.deinits = a.deinits /\ r.late = a.late /\ r.engines = a.engines
         /\ r.orphans = a.orphans /\ r.endpoint = a.endpoint /\ r.proxies = a.proxies
         /\ r.inMsgs = Append(a.inMsgs, m)
         /\ \A y : y # <<"in_msgs">> => (Has(r.queue, y) <=> Has(a.queue, y))
<1> DEFINE w == Append(a.inMsgs, m)
           p == Post(a, <<"in_msgs">>)
<1>1. MayPost(a, <<"in_msgs">>)
  BY DEF MayPost, Tasks
<1>2. /\ Good(p, b, c)
      /\ p.state = a.state /\ p.loop = a.loop /\ p.inMsgs = a.inMsgs
      /\ p.pending = a.pending /\ p.deinits = a.deinits /\ p.late = a.late
      /\ p.engines = a.engines /\ p.orphans = a.orphans /\ p.endpoint = a.endpoint
      /\ p.proxies = a.proxies
      /\ \A y : y # <<"in_msgs">> => (Has(p.queue, y) <=> Has(a.queue, y))
      /\ a.loop = "running" => Has(p.queue, <<"in_msgs">>)
  <2> HIDE DEF p
  <2> QED
    BY <1>1, PostGood DEF p
<1>3. a \in AppRecord /\ p \in AppRecord /\ a.inMsgs \in Seq(Messages)
  <2>1. a \in AppRecord /\ p \in AppRecord
    BY <1>2 DEF Good
  <2> QED
    BY <2>1, AppFields
<1>4. r = [p EXCEPT !.inMsgs = w]
  <2>1. [a EXCEPT !.inMsgs = w].loop = a.loop /\ [a EXCEPT !.inMsgs = w].queue = a.queue
    BY <1>3 DEF AppRecord
  <2>2. CASE a.loop = "running"
    <3>1. r = [[a EXCEPT !.inMsgs = w] EXCEPT !.queue = Append(a.queue, <<"in_msgs">>)]
      BY <2>1, <2>2 DEF PushInMsg, Post
    <3>2. p = [a EXCEPT !.queue = Append(@, <<"in_msgs">>)]
      BY <2>2 DEF Post
    <3> HIDE DEF p, w
    <3> QED
      BY <1>3, <3>1, <3>2 DEF AppRecord
  <2>3. CASE a.loop # "running"
    BY <2>1, <2>3 DEF PushInMsg, Post
  <2> QED
    BY <2>2, <2>3
<1>5. w \in Seq(Messages) /\ (HasStart(w) => HasStart(a.inMsgs) \/ m[1] = "start_graph")
  BY <1>3, StartQueue
<1> HIDE DEF p, w
<1>6. r \in AppRecord
  BY <1>3, <1>4, <1>5, SetInMsgs
<1>7. /\ r.state = p.state /\ r.loop = p.loop /\ r.queue = p.queue
      /\ r.pending = p.pending /\ r.deinits = p.deinits /\ r.late = p.late
      /\ r.engines = p.engines /\ r.orphans = p.orphans /\ r.endpoint = p.endpoint
      /\ r.proxies = p.proxies
      /\ r.inMsgs = w
  BY <1>3, <1>4 DEF AppRecord
<1>8. (ten_app_is_closing(r) <=> ten_app_is_closing(p)) /\ (AllGone(p) <=> AllGone(r))
  BY <1>7 DEF ten_app_is_closing, AllGone
<1>9. Queued(r)
  <2>1. Queued(p)
    BY <1>2 DEF Good
  <2> QED
    BY <1>7, <1>8, <2>1 DEF Queued
<1>10. Endpoint(r, b)
  <2>1. Endpoint(p, b)
    BY <1>2 DEF Good
  <2> QED
    BY <1>2, <1>7, <1>8, <2>1 DEF Endpoint
<1>11. Deinit(r)
  <2>1. Deinit(p)
    BY <1>2 DEF Good
  <2> QED
    BY <1>7, <1>8, <2>1 DEF Deinit, NoProxyLeft
<1>12. Starters(r, b)
  <2>1. Starters(p, b)
    BY <1>2 DEF Good
  <2>2. Sender(p) => Sender(r)
    BY <1>7 DEF Sender
  <2>3. m[1] = "start_graph" => Sender(r)
    BY <1>2, <1>7 DEF Sender
  <2> QED
    BY <1>2, <1>5, <1>7, <1>8, <2>1, <2>2, <2>3 DEF Starters
<1> QED
  BY <1>2, <1>6, <1>7, <1>9, <1>10, <1>11, <1>12 DEF Good, Early, w

\* Changing the states of the engines of an app gives an app again.
LEMMA EnginesField ==
  ASSUME NEW a \in AppRecord, NEW f \in [Engines -> EngineStates]
  PROVE  [a EXCEPT !.engines = f] \in AppRecord
  BY DEF AppRecord, EngineStates

\* An engine is gone.
LEMMA GoneGood ==
  ASSUME NEW a, NEW b, NEW c, Good(a, b, c), NEW e \in Engines, a.engines[e] # "none",
         ~Has(a.queue, <<"engine_closed", e>>),
         config.ownLoop => a.engines[e] = "closed" /\ b = <<>>,
         NEW r, r = [a EXCEPT !.engines[e] = "gone"]
  PROVE  /\ Good(r, b, c)
         /\ r.state = a.state /\ r.loop = a.loop /\ r.queue = a.queue
         /\ r.inMsgs = a.inMsgs /\ r.pending = a.pending /\ r.deinits = a.deinits
         /\ r.late = a.late /\ r.orphans = a.orphans /\ r.endpoint = a.endpoint
         /\ r.proxies = a.proxies
<1> DEFINE f == [a.engines EXCEPT ![e] = "gone"]
<1>1. a \in AppRecord /\ a.engines \in [Engines -> EngineStates]
  BY AppFields DEF Good
<1>2. /\ f \in [Engines -> EngineStates] /\ f[e] = "gone"
      /\ \A g \in Engines : g # e => f[g] = a.engines[g]
  BY <1>1 DEF EngineStates
<1>3. r = [a EXCEPT !.engines = f]
  OBVIOUS
<1> HIDE DEF f
<1>4. r \in AppRecord
  BY <1>1, <1>2, <1>3, EnginesField
<1>5. /\ r.state = a.state /\ r.loop = a.loop /\ r.queue = a.queue
      /\ r.inMsgs = a.inMsgs /\ r.pending = a.pending /\ r.deinits = a.deinits
      /\ r.late = a.late /\ r.orphans = a.orphans /\ r.endpoint = a.endpoint
      /\ r.proxies = a.proxies
      /\ r.engines = f
  BY <1>1, <1>3 DEF AppRecord
<1>6. (ten_app_is_closing(r) <=> ten_app_is_closing(a)) /\ (AllGone(a) => AllGone(r))
  BY <1>2, <1>5 DEF ten_app_is_closing, AllGone
<1>7. Queued(r)
  <2>1. Queued(a)
    BY DEF Good
  <2> QED
    BY <1>2, <1>5, <1>6, <2>1 DEF Queued
<1>8. Endpoint(r, b)
  <2>1. Endpoint(a, b)
    BY DEF Good
  <2> QED
    BY <1>5, <1>6, <2>1 DEF Endpoint, Empty
<1>9. Deinit(r)
  <2>1. Deinit(a)
    BY DEF Good
  <2> QED
    BY <1>5, <1>6, <2>1 DEF Deinit, NoProxyLeft
<1>10. Starters(r, b)
  <2>1. Starters(a, b)
    BY DEF Good
  <2>2. config.ownLoop /\ Sender(a) => Sender(r)
    BY <1>2, <1>5, SoonerHas DEF Sender
  <2>3. ~HasStart(<<>>)
    BY DEF HasStart
  <2> QED
    BY <1>5, <2>1, <2>2, <2>3 DEF Starters
<1> QED
  BY <1>4, <1>5, <1>7, <1>8, <1>9, <1>10 DEF Good, Early

\* The app is told to close.
LEMMA CloseGood ==
  ASSUME NEW a, NEW b, NEW c, Good(a, b, c), c = "no", NEW r, r = ten_app_close(a)
  PROVE  /\ Good(r, b, c)
         /\ r.loop = a.loop /\ r.inMsgs = a.inMsgs /\ r.pending = a.pending
         /\ r.deinits = a.deinits /\ r.late = a.late /\ r.engines = a.engines
         /\ r.orphans = a.orphans /\ r.endpoint = a.endpoint /\ r.proxies = a.proxies
         /\ ten_app_is_closing(r)
         /\ \A y : y # <<"close">> => (Has(r.queue, y) <=> Has(a.queue, y))
<1>1. CASE ten_app_is_closing(a)
  BY <1>1 DEF ten_app_close
<1>2. CASE ~ten_app_is_closing(a)
  <2> DEFINE d == [a EXCEPT !.state = "CLOSING"]
  <2>1. a \in AppRecord /\ a.deinits \in Nat /\ "CLOSING" \in AppStates
    BY AppFields DEF Good, AppStates
  <2>2. r = Post(d, <<"close">>)
    BY <1>2 DEF ten_app_close
  <2> HIDE DEF d
  <2>3. d \in AppRecord
    BY <2>1 DEF AppRecord, d
  <2>4. /\ d.loop = a.loop /\ d.queue = a.queue /\ d.inMsgs = a.inMsgs
        /\ d.pending = a.pending /\ d.deinits = a.deinits /\ d.late = a.late
        /\ d.engines = a.engines /\ d.orphans = a.orphans /\ d.endpoint = a.endpoint
        /\ d.proxies = a.proxies
        /\ d.state = "CLOSING"
    BY <2>1 DEF AppRecord, d
  <2>5. /\ Queued(a) /\ Endpoint(a, b) /\ Deinit(a) /\ Starters(a, b)
        /\ ~(a.deinits > 0) /\ a.loop = "running" /\ ~Has(a.queue, <<"close">>)
        /\ a.endpoint \notin {"closing", "closed"} /\ a.state # "ON_DEINIT_DONE"
        /\ config.endpoint => a.endpoint # "none"
    <3>1. Queued(a) /\ Endpoint(a, b) /\ Deinit(a) /\ Starters(a, b)
      BY DEF Good
    <3>2. ~(a.deinits > 0) /\ a.state # "ON_DEINIT_DONE"
      BY <1>2, <3>1 DEF Deinit, ten_app_is_closing
    <3>3. a.loop = "running"
      BY <3>1, <3>2 DEF Deinit
    <3>4. ~Has(a.queue, <<"close">>)
      BY <1>2, <3>1 DEF Queued
    <3>5. a.endpoint \notin {"closing", "closed"} /\ (config.endpoint => a.endpoint # "none")
      BY <1>2, <3>1 DEF Endpoint
    <3> QED
      BY <3>1, <3>2, <3>3, <3>4, <3>5
  <2>6. ten_app_is_closing(d) /\ (AllGone(a) <=> AllGone(d))
    BY <2>4 DEF ten_app_is_closing, AllGone
  <2>7. Queued(d)
    BY <2>4, <2>5, <2>6 DEF Queued
  <2>8. Endpoint(d, b)
    BY <2>4, <2>5, <2>6 DEF Endpoint
  <2>9. Deinit(d)
    BY <2>4, <2>5, <2>6 DEF Deinit, NoProxyLeft
  <2>10. Starters(d, b)
    BY <2>4, <2>5, <2>6 DEF Starters, Sender
  <2>11. Good(d, b, c)
    BY <2>3, <2>4, <2>7, <2>8, <2>9, <2>10 DEF Good, Early
  <2>12. MayPost(d, <<"close">>)
    BY <2>1, <2>4, <2>5, <2>6 DEF MayPost, Tasks
  <2>13. /\ Good(r, b, c)
         /\ r.state = d.state /\ r.loop = d.loop /\ r.inMsgs = d.inMsgs
         /\ r.pending = d.pending /\ r.deinits = d.deinits /\ r.late = d.late
         /\ r.engines = d.engines /\ r.orphans = d.orphans /\ r.endpoint = d.endpoint
         /\ r.proxies = d.proxies
         /\ \A y : y # <<"close">> => (Has(r.queue, y) <=> Has(d.queue, y))
    BY <2>2, <2>11, <2>12, PostGood
  <2>14. ten_app_is_closing(r)
    BY <2>4, <2>13 DEF ten_app_is_closing
  <2> QED
    BY <2>4, <2>13, <2>14
<1> QED
  BY <1>1, <1>2

\* on_deinit, when nothing is left.
LEMMA DeinitGood ==
  ASSUME NEW a, NEW b, NEW c, Good(a, b, c), ten_app_is_closing(a),
         ten_app_could_be_close(a),
         config.endpoint => ~Has(a.queue, <<"close">>),
         config.endpoint /\ config.ownLoop => a.deinits = 0,
         NEW r, r = ten_app_on_deinit(a)
  PROVE  Good(r, b, c)
<1> DEFINE n == a.deinits + 1
           p == a.pending \cup {"unregister"}
<1>1. a \in AppRecord /\ a.deinits \in Nat /\ a.pending \in SUBSET Pendings
  BY AppFields DEF Good
<1>2. n \in Nat /\ n > 0 /\ p \in SUBSET Pendings
  BY <1>1 DEF Pendings
<1>3. r = [a EXCEPT !.deinits = n, !.pending = p]
  BY DEF ten_app_on_deinit
<1>4. config.endpoint /\ config.ownLoop => n <= 1
  BY <1>1
<1>5. /\ "configure" \in p <=> "configure" \in a.pending
      /\ "load" \in p <=> "load" \in a.pending
  OBVIOUS
<1> HIDE DEF n, p
<1>6. r \in AppRecord
  BY <1>1, <1>2, <1>3, ZenonT(60) DEF AppRecord, Pendings
<1>7. /\ r.state = a.state /\ r.loop = a.loop /\ r.queue = a.queue
      /\ r.inMsgs = a.inMsgs /\ r.late = a.late /\ r.engines = a.engines
      /\ r.orphans = a.orphans /\ r.endpoint = a.endpoint /\ r.proxies = a.proxies
      /\ r.deinits = n /\ r.pending = p
  BY <1>1, <1>3 DEF AppRecord
<1>8. (ten_app_is_closing(r) <=> ten_app_is_closing(a)) /\ (AllGone(a) <=> AllGone(r))
  BY <1>7 DEF ten_app_is_closing, AllGone
<1>9. Queued(a) /\ Endpoint(a, b) /\ Deinit(a) /\ Starters(a, b)
  BY DEF Good
<1>10. /\ AllGone(a) /\ a.endpoint \in {"none", "closed"}
       /\ \A x \in Conns : a.orphans[x] \in {"none", "gone"}
  BY <1>9 DEF ten_app_could_be_close, ten_app_has_no_work, AllGone, Endpoint
<1>11. Queued(r)
  BY <1>7, <1>8, <1>9 DEF Queued
<1>12. Endpoint(r, b)
  BY <1>7, <1>8, <1>9 DEF Endpoint, Empty
<1>13. Deinit(r)
  BY <1>2, <1>4, <1>7, <1>8, <1>9, <1>10 DEF Deinit, NoProxyLeft
<1>14. Starters(r, b)
  BY <1>7, <1>8, <1>9 DEF Starters, Sender
<1> QED
  BY <1>5, <1>6, <1>7, <1>11, <1>12, <1>13, <1>14 DEF Good, Early

\* ten_app_proceed_to_close, called by whatever has closed.
LEMMA ProceedGood ==
  ASSUME NEW a, NEW b, NEW c, Good(a, b, c),
         ten_app_could_be_close(a) /\ config.endpoint => ~Has(a.queue, <<"close">>),
         config.endpoint /\ config.ownLoop => a.deinits = 0,
         NEW r, r = ProceedIfClosing(a)
  PROVE  Good(r, b, c)
<1>1. CASE ten_app_is_closing(a) /\ ten_app_could_be_close(a)
  <2>1. r = ten_app_on_deinit(a)
    BY <1>1 DEF ProceedIfClosing, ten_app_proceed_to_close
  <2> QED
    BY <1>1, <2>1, DeinitGood
<1>2. CASE ~(ten_app_is_closing(a) /\ ten_app_could_be_close(a))
  BY <1>2 DEF ProceedIfClosing, ten_app_proceed_to_close
<1> QED
  BY <1>1, <1>2

\* What the app holds is set.
LEMMA SetHeld ==
  ASSUME NEW a \in AppRecord, NEW f \in [Engines -> EngineStates],
         NEW g \in [Conns -> ConnStates],
         NEW h \in {"none", "creating", "listening", "closing", "closed"}
  PROVE  [a EXCEPT !.engines = f, !.orphans = g, !.endpoint = h] \in AppRecord
  BY DEF AppRecord, EngineStates, ConnStates

\* What the app holds is told to close.
LEMMA CloseSyncGood ==
  ASSUME NEW a, NEW b, NEW c, Good(a, b, c), ten_app_is_closing(a),
         ~Has(a.queue, <<"close">>), NEW r, r = ten_app_close_sync(a)
  PROVE  Good(r, b, c)
<1> DEFINE f == [e \in Engines |-> IF a.engines[e] = "running" THEN "closing" ELSE a.engines[e]]
           g == [x \in Conns |-> IF a.orphans[x] = "open" THEN "closing" ELSE a.orphans[x]]
           h == IF a.endpoint = "listening" THEN "closing" ELSE a.endpoint
<1>1. /\ a \in AppRecord /\ a.engines \in [Engines -> EngineStates]
      /\ a.orphans \in [Conns -> ConnStates]
      /\ a.endpoint \in {"none", "creating", "listening", "closing", "closed"}
  BY AppFields DEF Good
<1>2. r = [a EXCEPT !.engines = f, !.orphans = g, !.endpoint = h]
  BY DEF ten_app_close_sync
<1>3. /\ f \in [Engines -> EngineStates]
      /\ \A e \in Engines : f[e] = IF a.engines[e] = "running" THEN "closing" ELSE a.engines[e]
  BY <1>1 DEF EngineStates
<1>4. /\ g \in [Conns -> ConnStates]
      /\ \A x \in Conns : g[x] = IF a.orphans[x] = "open" THEN "closing" ELSE a.orphans[x]
  BY <1>1 DEF ConnStates
<1>5. /\ h \in {"none", "creating", "listening", "closing", "closed"}
      /\ h = IF a.endpoint = "listening" THEN "closing" ELSE a.endpoint
  BY <1>1
<1> HIDE DEF f, g, h
<1>6. r \in AppRecord
  <2>1. /\ f \in [Engines -> EngineStates] /\ g \in [Conns -> ConnStates]
        /\ h \in {"none", "creating", "listening", "closing", "closed"}
    BY <1>3, <1>4, <1>5
  <2>2. a \in AppRecord
    BY <1>1
  <2>3. [a EXCEPT !.engines = f, !.orphans = g, !.endpoint = h] \in AppRecord
    BY <2>1, <2>2, SetHeld
  <2> QED
    BY <1>2, <2>3
<1>7. /\ r.state = a.state /\ r.loop = a.loop /\ r.queue = a.queue
      /\ r.inMsgs = a.inMsgs /\ r.pending = a.pending /\ r.deinits = a.deinits
      /\ r.late = a.late /\ r.proxies = a.proxies
      /\ r.engines = f /\ r.orphans = g /\ r.endpoint = h
  BY <1>1, <1>2 DEF AppRecord
<1>8. (ten_app_is_closing(r) <=> ten_app_is_closing(a)) /\ (AllGone(a) <=> AllGone(r))
  BY <1>3, <1>7 DEF ten_app_is_closing, AllGone
<1>9. Queued(a) /\ Endpoint(a, b) /\ Deinit(a) /\ Starters(a, b)
  BY DEF Good
<1>10. Queued(r)
  BY <1>3, <1>4, <1>7, <1>8, <1>9 DEF Queued
<1>11. Endpoint(r, b)
  BY <1>3, <1>4, <1>5, <1>7, <1>8, <1>9 DEF Endpoint, Empty
<1>12. Deinit(r)
  BY <1>4, <1>5, <1>7, <1>8, <1>9 DEF Deinit, NoProxyLeft
<1>13. Starters(r, b)
  <2>1. Sender(a) => Sender(r)
    BY <1>3, <1>7 DEF Sender
  <2> QED
    BY <1>7, <1>8, <1>9, <2>1 DEF Starters
<1> QED
  BY <1>6, <1>7, <1>10, <1>11, <1>12, <1>13 DEF Good, Early

\* What a step of the app keeps of its state and of its loop.
StateKept(a, r) ==
  /\ ~Early(r) /\ (ten_app_is_closing(r) <=> ten_app_is_closing(a))
  /\ a.state = "ON_DEINIT_DONE" => r.state = "ON_DEINIT_DONE"
  /\ r.state = "ON_DEINIT_DONE" => a.deinits > 0
  /\ "configure" \notin r.pending /\ "load" \notin r.pending
  /\ "unregister" \in r.pending \/ "deinit" \in r.pending => a.deinits > 0
  /\ r.loop = "running" \/ (r.state = "ON_DEINIT_DONE" /\ NoProxyLeft(r))

\* How the engines, the connections and the endpoint move.
HeldKept(a, r) ==
  /\ \A e \in Engines :
       \/ r.engines[e] = a.engines[e]
       \/ a.engines[e] \in {"running", "closing"} /\ r.engines[e] = "closing"
       \/ /\ a.engines[e] = "none" /\ r.engines[e] = "running"
          /\ config.endpoint => a.endpoint # "none"
          /\ config.ownLoop => a.deinits = 0
  /\ \A x \in Conns :
       \/ r.orphans[x] = a.orphans[x]
       \/ a.orphans[x] = "none" /\ r.orphans[x] = "accepted" /\ a.endpoint = "listening"
       \/ /\ a.orphans[x] \notin {"none", "gone"} /\ r.orphans[x] \notin {"none", "accepted"}
          /\ ~Has(a.queue, <<"client", x>>)
  /\ \/ r.endpoint = a.endpoint
     \/ /\ a.endpoint = "closing" /\ r.endpoint = "closed"
        /\ \A x \in Conns : r.orphans[x] # "accepted"

\* A step that leaves the queue and the messages alone.
LEMMA HeldGood ==
  ASSUME NEW a, NEW b, NEW c, Good(a, b, c), NEW d \in {"no", "init"}, NEW r \in AppRecord,
         d = "init" => r.state = "ON_INIT" /\ b = <<>>,
         r.queue = a.queue, r.inMsgs = a.inMsgs, r.deinits = a.deinits,
         StateKept(a, r), HeldKept(a, r)
  PROVE  Good(r, b, d)
<1>1. Queued(a) /\ Endpoint(a, b) /\ Deinit(a) /\ Starters(a, b) /\ b \in Seq(Messages)
  BY DEF Good
<1>2. a \in AppRecord /\ a.deinits \in Nat
  BY AppFields DEF Good
<1>3. config.ownLoop /\ a.deinits > 0 => AllGone(r)
  <2>1. config.ownLoop /\ a.deinits > 0 => AllGone(a) /\ a.deinits # 0
    BY <1>1, <1>2 DEF Deinit
  <2> QED
    BY <2>1 DEF AllGone, HeldKept
<1>4. AllGone(r) => AllGone(a)
  BY DEF HeldKept, AllGone
<1>5. Queued(r)
  BY <1>1 DEF Queued, HeldKept, StateKept
<1>6. Endpoint(r, b)
  <2>1. /\ r.endpoint # "creating"
        /\ \A x \in Conns :
             r.orphans[x] = "accepted" => r.endpoint \in {"listening", "closing"}
    BY <1>1 DEF Endpoint, HeldKept
  <2>2. r.endpoint \in {"closing", "closed"} =>
           ten_app_is_closing(r) /\ ~Has(r.queue, <<"close">>)
    BY <1>1 DEF Endpoint, HeldKept, StateKept
  <2>3. ASSUME config.endpoint /\ r.endpoint = "none" PROVE Empty(r, b) /\ ten_app_is_closing(r)
    <3>1. a.endpoint = "none" /\ Empty(a, b) /\ ten_app_is_closing(a)
      BY <1>1, <2>3 DEF Endpoint, HeldKept
    <3>2. ten_app_is_closing(r)
      BY <3>1 DEF StateKept
    <3>3. Empty(r, b)
      BY <2>3, <3>1 DEF HeldKept, Empty
    <3> QED
      BY <3>2, <3>3
  <2> QED
    BY <2>1, <2>2, <2>3 DEF Endpoint
<1>7. Deinit(r)
  <2>1. ASSUME r.deinits > 0
        PROVE  /\ ten_app_is_closing(r)
               /\ \A x \in Conns : r.orphans[x] \in {"none", "gone"}
               /\ r.endpoint \in {"none", "closed"}
               /\ config.endpoint => ~Has(r.queue, <<"close">>)
    <3>1. /\ ten_app_is_closing(a)
          /\ \A x \in Conns : a.orphans[x] \in {"none", "gone"}
          /\ a.endpoint \in {"none", "closed"}
          /\ config.endpoint => ~Has(a.queue, <<"close">>)
      BY <1>1, <2>1 DEF Deinit
    <3> QED
      BY <3>1 DEF HeldKept, StateKept
  <2>2. /\ "unregister" \in r.pending \/ "deinit" \in r.pending => r.deinits > 0
        /\ r.state = "ON_DEINIT_DONE" => r.deinits > 0
        /\ r.loop # "running" => r.state = "ON_DEINIT_DONE" /\ NoProxyLeft(r)
    BY DEF StateKept
  <2>3. config.endpoint /\ config.ownLoop => r.deinits <= 1
    BY <1>1 DEF Deinit
  <2> QED
    BY <1>3, <2>1, <2>2, <2>3 DEF Deinit
<1>8. Starters(r, b)
  <2>1. Sender(a) => Sender(r)
    BY DEF Sender, HeldKept
  <2> QED
    BY <1>1, <1>4, <2>1 DEF Starters
<1> QED
  BY <1>1, <1>5, <1>6, <1>7, <1>8 DEF Good, StateKept

\* An app that has just left its start.
LEMMA FreshGood ==
  ASSUME NEW r \in AppRecord, ~Early(r), r.state # "ON_DEINIT_DONE",
         r.queue \in {<<>>, << <<"close">> >>}, r.queue # <<>> => ten_app_is_closing(r),
         r.inMsgs = <<>>, r.pending \subseteq {"init"}, r.deinits = 0, r.loop = "running",
         \A x \in Conns : r.orphans[x] = "none",
         \A e \in Engines : r.engines[e] \in {"none", "running"},
         r.endpoint \in {"none", "listening"},
         config.endpoint /\ r.endpoint = "none" => Empty(r, <<>>) /\ ten_app_is_closing(r)
  PROVE  Good(r, <<>>, "no")
<1>1. /\ ~HasStart(<<>>) /\ (Has(r.queue, <<"close">>) => ten_app_is_closing(r))
      /\ Once(r.queue, <<"close">>)
      /\ \A i \in 1..Len(r.queue) : r.queue[i] = <<"close">>
      /\ \A y : Has(r.queue, y) => y = <<"close">>
      /\ \A y : y # <<"close">> => Once(r.queue, y)
  <2>1. CASE r.queue = <<>>
    BY <2>1 DEF HasStart, Has, Once
  <2>2. CASE r.queue = << <<"close">> >>
    <3>1. Len(r.queue) = 1 /\ r.queue[1] = <<"close">>
      BY <2>2
    <3> QED
      BY <2>2, <3>1 DEF HasStart, Has, Once
  <2> QED
    BY <2>1, <2>2
<1>2. Queued(r)
  BY <1>1 DEF Queued
<1>3. Endpoint(r, <<>>)
  BY DEF Endpoint
<1>4. Deinit(r)
  BY DEF Deinit
<1>5. Starters(r, <<>>)
  BY <1>1 DEF Starters
<1> QED
  BY <1>2, <1>3, <1>4, <1>5 DEF Good

\* An engine has closed, and the app looks whether it ends with it.
LEMMA TermGood ==
  ASSUME NEW a, Good(a, <<>>, "no"), NEW e \in Engines,
         ~Has(a.queue, <<"engine_closed", e>>), a.engines[e] \in {"closing", "closed"},
         config.ownLoop => a.engines[e] = "closed",
         NEW r, r = ten_app_check_termination_when_engine_closed(a, e)
  PROVE  Good(r, <<>>, "no")
<1> DEFINE told == IF stop[e] = "kept" THEN PushInMsg(a, <<"stop_ok", e>>) ELSE a
           gone == [told EXCEPT !.engines[e] = "gone"]
           last == \A f \in Engines : gone.engines[f] \in {"none", "gone"}
           z == IF ~config.longRunning /\ last THEN ten_app_close(gone) ELSE gone
<1>1. r = ProceedIfClosing(z)
  BY DEF ten_app_check_termination_when_engine_closed
<1>2. <<"stop_ok", e>> \in Messages
  BY DEF Messages
<1>3. config.endpoint => a.endpoint # "none"
  BY DEF Good, Endpoint, Empty
<1>4. config.ownLoop => a.deinits = 0
  <2>1. a \in AppRecord /\ a.deinits \in Nat
    BY AppFields DEF Good
  <2>2. config.ownLoop => ~(a.deinits > 0)
    BY DEF Good, Deinit, AllGone
  <2> QED
    BY <2>1, <2>2
<1>5. /\ Good(told, <<>>, "no") /\ told.engines = a.engines /\ told.endpoint = a.endpoint
      /\ told.deinits = a.deinits
      /\ ~Has(told.queue, <<"engine_closed", e>>)
  <2>1. CASE stop[e] # "kept"
    BY <2>1
  <2>2. CASE stop[e] = "kept"
    <3>1. told = PushInMsg(a, <<"stop_ok", e>>) /\ <<"stop_ok", e>>[1] # "start_graph"
      BY <2>2
    <3> HIDE DEF told
    <3> QED
      BY <1>2, <1>3, <3>1, PushGood
  <2> QED
    BY <2>1, <2>2
<1> HIDE DEF told
<1>6. /\ Good(gone, <<>>, "no") /\ gone.endpoint = a.endpoint /\ gone.deinits = a.deinits
  <2> HIDE DEF gone
  <2> QED
    BY <1>5, GoneGood DEF gone
<1> HIDE DEF gone, last
<1>7. /\ Good(z, <<>>, "no") /\ z.endpoint = a.endpoint /\ z.deinits = a.deinits
  <2> DEFINE w == ten_app_close(gone)
  <2>1. Good(w, <<>>, "no") /\ w.endpoint = gone.endpoint /\ w.deinits = gone.deinits
    <3> HIDE DEF w
    <3> QED
      BY <1>6, CloseGood DEF w
  <2> QED
    BY <1>6, <2>1
<1> HIDE DEF z
<1>8. ten_app_could_be_close(z) /\ config.endpoint => ~Has(z.queue, <<"close">>)
  BY <1>3, <1>7 DEF Good, Endpoint, ten_app_could_be_close
<1> QED
  BY <1>1, <1>4, <1>7, <1>8, ProceedGood

-----------------------------------------------------------------------------
(* The start of the app.                                                   *)

\* The fields of the app are set, one or some at a time.
WithQueue(a, q) == [a EXCEPT !.queue = q]
\* What the handlers of an app change, one operator per part.
WithState(a, st, p) == [a EXCEPT !.state = st, !.pending = p]
WithLoop(a, l) == [a EXCEPT !.loop = l]
WithProxies(a, f) == [a EXCEPT !.proxies = f]
WithEngines(a, f, l) == [a EXCEPT !.engines = f, !.late = l]
WithOrphans(a, g, l) == [a EXCEPT !.orphans = g, !.late = l]
WithEndpoint(a, h) == [a EXCEPT !.endpoint = h]
WithStart(a, st, p, f) == [a EXCEPT !.state = st, !.pending = p, !.engines = f]

\* What is left alone when the queue is set.
LEMMA SetQueue ==
  ASSUME NEW a \in AppRecord, NEW q \in Seq(Tasks)
  PROVE  LET r == WithQueue(a, q)
         IN  /\ r \in AppRecord /\ r.queue = q
             /\ r.state = a.state /\ r.loop = a.loop /\ r.inMsgs = a.inMsgs
             /\ r.pending = a.pending /\ r.deinits = a.deinits /\ r.late = a.late
             /\ r.engines = a.engines /\ r.orphans = a.orphans
             /\ r.endpoint = a.endpoint /\ r.proxies = a.proxies
<1>1. WithQueue(a, q) \in AppRecord
  BY DEF AppRecord, WithQueue
<1> QED
  BY <1>1 DEF AppRecord, WithQueue

\* What is left alone when the state and what is pending are set.
LEMMA SetState ==
  ASSUME NEW a \in AppRecord, NEW st \in AppStates, NEW p \in SUBSET Pendings
  PROVE  LET r == WithState(a, st, p)
         IN  /\ r \in AppRecord /\ r.state = st /\ r.pending = p
             /\ r.loop = a.loop /\ r.queue = a.queue /\ r.inMsgs = a.inMsgs
             /\ r.deinits = a.deinits /\ r.late = a.late /\ r.engines = a.engines
             /\ r.orphans = a.orphans /\ r.endpoint = a.endpoint
             /\ r.proxies = a.proxies
<1>1. WithState(a, st, p) \in AppRecord
  BY DEF AppRecord, WithState, Pendings
<1> QED
  BY <1>1 DEF AppRecord, WithState, Pendings

\* What is left alone when the loop is stopped.
LEMMA SetLoop ==
  ASSUME NEW a \in AppRecord, NEW l \in {"running", "stopping", "stopped"}
  PROVE  LET r == WithLoop(a, l)
         IN  /\ r \in AppRecord /\ r.loop = l
             /\ r.state = a.state /\ r.queue = a.queue /\ r.inMsgs = a.inMsgs
             /\ r.pending = a.pending /\ r.deinits = a.deinits /\ r.late = a.late
             /\ r.engines = a.engines /\ r.orphans = a.orphans
             /\ r.endpoint = a.endpoint /\ r.proxies = a.proxies
<1>1. WithLoop(a, l) \in AppRecord
  BY DEF AppRecord, WithLoop
<1> QED
  BY <1>1 DEF AppRecord, WithLoop

\* What is left alone when the proxies change.
LEMMA SetProxies ==
  ASSUME NEW a \in AppRecord, NEW f \in [Proxies -> ProxyStates]
  PROVE  LET r == WithProxies(a, f)
         IN  /\ r \in AppRecord /\ r.proxies = f
             /\ r.state = a.state /\ r.loop = a.loop /\ r.queue = a.queue
             /\ r.inMsgs = a.inMsgs /\ r.pending = a.pending /\ r.deinits = a.deinits
             /\ r.late = a.late /\ r.engines = a.engines /\ r.orphans = a.orphans
             /\ r.endpoint = a.endpoint
<1>1. WithProxies(a, f) \in AppRecord
  BY DEF AppRecord, WithProxies, ProxyStates
<1> QED
  BY <1>1 DEF AppRecord, WithProxies, ProxyStates

\* What is left alone when the engines change.
LEMMA SetEngines ==
  ASSUME NEW a \in AppRecord, NEW f \in [Engines -> EngineStates], NEW l \in BOOLEAN
  PROVE  LET r == WithEngines(a, f, l)
         IN  /\ r \in AppRecord /\ r.engines = f /\ r.late = l
             /\ r.state = a.state /\ r.loop = a.loop /\ r.queue = a.queue
             /\ r.inMsgs = a.inMsgs /\ r.pending = a.pending /\ r.deinits = a.deinits
             /\ r.orphans = a.orphans /\ r.endpoint = a.endpoint
             /\ r.proxies = a.proxies
<1>1. WithEngines(a, f, l) \in AppRecord
  BY DEF AppRecord, WithEngines, EngineStates
<1> QED
  BY <1>1 DEF AppRecord, WithEngines, EngineStates

\* What is left alone when the connections change.
LEMMA SetOrphans ==
  ASSUME NEW a \in AppRecord, NEW g \in [Conns -> ConnStates], NEW l \in BOOLEAN
  PROVE  LET r == WithOrphans(a, g, l)
         IN  /\ r \in AppRecord /\ r.orphans = g /\ r.late = l
             /\ r.state = a.state /\ r.loop = a.loop /\ r.queue = a.queue
             /\ r.inMsgs = a.inMsgs /\ r.pending = a.pending /\ r.deinits = a.deinits
             /\ r.engines = a.engines /\ r.endpoint = a.endpoint
             /\ r.proxies = a.proxies
<1>1. WithOrphans(a, g, l) \in AppRecord
  BY DEF AppRecord, WithOrphans, ConnStates
<1> QED
  BY <1>1 DEF AppRecord, WithOrphans, ConnStates

\* What is left alone when the endpoint changes.
LEMMA SetEndpoint ==
  ASSUME NEW a \in AppRecord, NEW h \in {"none", "creating", "listening", "closing", "closed"}
  PROVE  LET r == WithEndpoint(a, h)
         IN  /\ r \in AppRecord /\ r.endpoint = h
             /\ r.state = a.state /\ r.loop = a.loop /\ r.queue = a.queue
             /\ r.inMsgs = a.inMsgs /\ r.pending = a.pending /\ r.deinits = a.deinits
             /\ r.late = a.late /\ r.engines = a.engines /\ r.orphans = a.orphans
             /\ r.proxies = a.proxies
<1>1. WithEndpoint(a, h) \in AppRecord
  BY DEF AppRecord, WithEndpoint
<1> QED
  BY <1>1 DEF AppRecord, WithEndpoint

\* What is left alone when on_init is called.
LEMMA SetStart ==
  ASSUME NEW a \in AppRecord, NEW st \in AppStates, NEW p \in SUBSET Pendings,
         NEW f \in [Engines -> EngineStates]
  PROVE  LET r == WithStart(a, st, p, f)
         IN  /\ r \in AppRecord /\ r.state = st /\ r.pending = p /\ r.engines = f
             /\ r.loop = a.loop /\ r.queue = a.queue /\ r.inMsgs = a.inMsgs
             /\ r.deinits = a.deinits /\ r.late = a.late /\ r.orphans = a.orphans
             /\ r.endpoint = a.endpoint /\ r.proxies = a.proxies
<1>1. WithStart(a, st, p, f) \in AppRecord
  BY DEF AppRecord, WithStart, Pendings, EngineStates
<1> QED
  BY <1>1 DEF AppRecord, WithStart, Pendings, EngineStates

\* What a task is made of.
LEMMA TaskForms ==
  ASSUME NEW x \in Tasks
  PROVE  /\ x[1] = "close" => x = <<"close">>
         /\ x[1] = "in_msgs" => x = <<"in_msgs">>
         /\ x[1] = "engine_closed" => x[2] \in Engines /\ x = <<"engine_closed", x[2]>>
         /\ x[1] = "client" => x[2] \in Conns /\ x = <<"client", x[2]>>
         /\ x[1] = "proxy" => x[2] \in Proxies /\ x = <<"proxy", x[2]>>
  BY DEF Tasks

\* The first task in the queue of an app that starts, and of one that has.
LEMMA FirstTask ==
  ASSUME AppInv, NEW k, Runs(k)
  PROVE  /\ batch = <<>> /\ checked = "no" /\ app \in AppRecord
         /\ Starts(app, <<>>, "no") \/ Good(app, <<>>, "no")
         /\ k \in {"metadata", "endpoint_created", "endpoint_failed"} =>
              Starts(app, <<>>, "no") /\ Tail(app.queue) = <<>>
         /\ k \notin {"metadata", "endpoint_created", "endpoint_failed"} =>
              Good(app, <<>>, "no") /\ Head(app.queue) \in Tasks
         /\ k = "metadata" => app.state = "INIT"
         /\ k \in {"endpoint_created", "endpoint_failed"} =>
              app.state = "ON_CONFIGURE_DONE" /\ app.endpoint = "creating" /\ app.pending = {}
<1>1. batch = <<>> /\ checked = "no" /\ app.queue # <<>> /\ Head(app.queue)[1] = k
  BY DEF Runs, Idle
<1>2. AppOK(app, <<>>, "no")
  BY <1>1 DEF AppInv
<1>3. CASE Starts(app, <<>>, "no")
  <2>1. app \in AppRecord
    BY <1>3 DEF Starts
  <2>2. \/ app.state = "INIT" /\ app.queue = << <<"metadata">> >>
        \/ /\ app.state = "ON_CONFIGURE_DONE" /\ app.endpoint = "creating" /\ app.pending = {}
           /\ app.queue \in {<< <<"endpoint_created">> >>, << <<"endpoint_failed">> >>}
    BY <1>1, <1>3 DEF Starts, Phase
  <2>3. CASE app.state = "INIT" /\ app.queue = << <<"metadata">> >>
    <3>1. Head(app.queue) = <<"metadata">> /\ Tail(app.queue) = <<>> /\ k = "metadata"
      BY <1>1, <2>3
    <3> QED
      BY <1>1, <1>3, <2>1, <2>3, <3>1
  <2>4. CASE /\ app.state = "ON_CONFIGURE_DONE" /\ app.endpoint = "creating" /\ app.pending = {}
             /\ app.queue = << <<"endpoint_created">> >>
    <3>1. /\ Head(app.queue) = <<"endpoint_created">> /\ Tail(app.queue) = <<>>
          /\ k = "endpoint_created"
      BY <1>1, <2>4
    <3> QED
      BY <1>1, <1>3, <2>1, <2>4, <3>1
  <2>5. CASE /\ app.state = "ON_CONFIGURE_DONE" /\ app.endpoint = "creating" /\ app.pending = {}
             /\ app.queue = << <<"endpoint_failed">> >>
    <3>1. /\ Head(app.queue) = <<"endpoint_failed">> /\ Tail(app.queue) = <<>>
          /\ k = "endpoint_failed"
      BY <1>1, <2>5
    <3> QED
      BY <1>1, <1>3, <2>1, <2>5, <3>1
  <2> QED
    BY <2>2, <2>3, <2>4, <2>5
<1>4. CASE Good(app, <<>>, "no")
  <2>1. app \in AppRecord /\ app.queue \in Seq(Tasks)
    BY <1>4, AppFields DEF Good
  <2>2. Head(app.queue) \in Tasks /\ Has(app.queue, Head(app.queue))
    BY <1>1, <2>1, TailQueue
  <2>3. k \notin {"metadata", "endpoint_created", "endpoint_failed"}
    BY <1>1, <1>4, <2>2 DEF Good, Queued, Has
  <2> QED
    BY <1>1, <1>4, <2>1, <2>2, <2>3
<1> QED
  BY <1>2, <1>3, <1>4 DEF AppOK

\* on_configure, its answer, and what follows it.
LEMMA MetadataOK ==
  ASSUME AppInv, ten_app_handle_metadata_task
  PROVE  AppOK(app', batch', checked')
<1>1. /\ batch = <<>> /\ checked = "no" /\ app \in AppRecord /\ Starts(app, <<>>, "no")
      /\ Tail(app.queue) = <<>> /\ app.state = "INIT"
  BY FirstTask DEF ten_app_handle_metadata_task
<1>2. /\ app' = [[app EXCEPT !.queue = <<>>]
                   EXCEPT !.state = "ON_CONFIGURE", !.pending = @ \cup {"configure"}]
      /\ batch' = <<>> /\ checked' = "no"
  BY <1>1 DEF ten_app_handle_metadata_task, Only, Rest, ten_app_on_configure
<1>3. app.pending = {} /\ app.endpoint = "none"
  BY <1>1 DEF Starts, Phase
<1>4. /\ app'.state = "ON_CONFIGURE" /\ app'.queue = <<>> /\ app'.pending = {"configure"}
      /\ app'.loop = app.loop /\ app'.inMsgs = app.inMsgs
      /\ app'.deinits = app.deinits /\ app'.late = app.late
      /\ app'.engines = app.engines /\ app'.orphans = app.orphans
      /\ app'.endpoint = app.endpoint /\ app'.proxies = app.proxies
  BY <1>1, <1>2, <1>3 DEF AppRecord
<1>5. app' \in AppRecord
  <2> DEFINE m == [app EXCEPT !.queue = <<>>]
  <2>1. <<>> \in Seq(Tasks)
    OBVIOUS
  <2>2. m \in AppRecord /\ m.pending = app.pending
    <3>1. m = WithQueue(app, <<>>)
      BY DEF WithQueue
    <3> HIDE DEF m
    <3> QED
      BY <1>1, <2>1, <3>1, SetQueue
  <2>3. app' = WithState(m, "ON_CONFIGURE", {"configure"})
    BY <1>2, <1>3, <2>2 DEF WithState
  <2>4. "ON_CONFIGURE" \in AppStates /\ {"configure"} \in SUBSET Pendings
    BY DEF AppStates, Pendings
  <2> HIDE DEF m
  <2> QED
    BY <2>2, <2>3, <2>4, SetState
<1>6. Phase(app', "no")
  BY <1>3, <1>4 DEF Phase
<1> QED
  BY <1>1, <1>2, <1>4, <1>5, <1>6 DEF AppOK, Starts, Empty

\* on_init, with the graphs that start by themselves.
LEMMA TriggerGood ==
  ASSUME NEW a \in AppRecord, Empty(a, <<>>), a.deinits = 0, a.loop = "running",
         a.queue = <<>>, a.pending = {}, a.endpoint \in {"none", "listening"},
         config.endpoint => a.endpoint = "listening", NEW r, r = TriggerOnInit(a)
  PROVE  Good(r, <<>>, "no")
<1> DEFINE f == [e \in Engines |-> IF e \in AutoStart /\ a.engines[e] = "none"
                                   THEN "running" ELSE a.engines[e]]
           p == {"init"}
<1>1. f \in [Engines -> EngineStates] /\ \A e \in Engines : f[e] \in {"none", "running"}
  <2>1. \A e \in Engines : a.engines[e] = "none"
    BY DEF Empty
  <2> QED
    BY <2>1 DEF EngineStates
<1>2. p \in SUBSET Pendings /\ p \subseteq {"init"} /\ "ON_INIT" \in AppStates
  BY DEF Pendings, AppStates
<1>3. r = WithStart(a, "ON_INIT", p, f)
  BY DEF TriggerOnInit, WithStart
<1> HIDE DEF f, p
<1>4. r \in AppRecord
  BY <1>1, <1>2, <1>3, SetStart
<1>5. /\ r.state = "ON_INIT" /\ r.pending = p /\ r.engines = f
      /\ r.loop = a.loop /\ r.queue = a.queue /\ r.inMsgs = a.inMsgs
      /\ r.deinits = a.deinits /\ r.late = a.late /\ r.orphans = a.orphans
      /\ r.endpoint = a.endpoint /\ r.proxies = a.proxies
  BY <1>1, <1>2, <1>3, SetStart
<1>6. ~Early(r) /\ r.state # "ON_DEINIT_DONE" /\ \A x \in Conns : r.orphans[x] = "none"
  BY <1>5 DEF Early, Empty
<1>7. r.inMsgs = <<>> /\ r.queue = <<>>
  BY <1>5 DEF Empty
<1> QED
  BY <1>1, <1>2, <1>4, <1>5, <1>6, <1>7, FreshGood

\* The start has failed, and the app closes.
LEMMA FailGood ==
  ASSUME NEW a \in AppRecord, Empty(a, <<>>), a.deinits = 0, a.loop = "running",
         a.queue = <<>>, a.pending = {}, a.endpoint = "none", ~ten_app_is_closing(a),
         NEW r, r = ten_app_close(a)
  PROVE  Good(r, <<>>, "no")
<1> DEFINE d == [a EXCEPT !.state = "CLOSING"]
           q == << <<"close">> >>
<1>1. "CLOSING" \in AppStates /\ q \in Seq(Tasks)
  BY DEF AppStates, Tasks
<1>2. d \in AppRecord /\ d.loop = "running" /\ d.queue = <<>>
  BY <1>1 DEF AppRecord
<1>3. r = WithQueue(d, q)
  <2>1. r = Post(d, <<"close">>)
    BY DEF ten_app_close
  <2>2. q = Append(<<>>, <<"close">>)
    OBVIOUS
  <2> HIDE DEF d, q
  <2> QED
    BY <1>2, <2>1, <2>2 DEF Post, WithQueue
<1>4. /\ d.state = "CLOSING"
      /\ d.loop = a.loop /\ d.queue = a.queue /\ d.inMsgs = a.inMsgs
      /\ d.pending = a.pending /\ d.deinits = a.deinits /\ d.late = a.late
      /\ d.engines = a.engines /\ d.orphans = a.orphans /\ d.endpoint = a.endpoint
      /\ d.proxies = a.proxies
  BY DEF AppRecord
<1> HIDE DEF d, q
<1>5. /\ r \in AppRecord /\ r.queue = q
      /\ r.state = d.state /\ r.loop = d.loop /\ r.inMsgs = d.inMsgs
      /\ r.pending = d.pending /\ r.deinits = d.deinits /\ r.late = d.late
      /\ r.engines = d.engines /\ r.orphans = d.orphans /\ r.endpoint = d.endpoint
      /\ r.proxies = d.proxies
  BY <1>1, <1>2, <1>3, SetQueue
<1>6. ~Early(r) /\ r.state # "ON_DEINIT_DONE" /\ ten_app_is_closing(r) /\ Empty(r, <<>>)
  BY <1>4, <1>5 DEF Early, Empty, ten_app_is_closing
<1>7. /\ r.inMsgs = <<>> /\ \A x \in Conns : r.orphans[x] = "none"
      /\ \A e \in Engines : r.engines[e] \in {"none", "running"}
  BY <1>6 DEF Empty
<1>8. r.queue = << <<"close">> >>
  BY <1>5 DEF q
<1>9. r.pending \subseteq {"init"} /\ r.deinits = 0 /\ r.loop = "running" /\ r.endpoint = "none"
  BY <1>4, <1>5
<1> QED
  BY <1>5, <1>6, <1>7, <1>8, <1>9, FreshGood

\* The answer of the protocol addon.
LEMMA EndpointOK ==
  ASSUME AppInv, EndpointTask
  PROVE  AppOK(app', batch', checked')
<1>1. PICK k \in {"endpoint_created", "endpoint_failed"} :
        /\ Runs(k) /\ UNCHANGED <<batch, checked>>
        /\ app' = ten_app_on_endpoint_protocol_created(Rest, k = "endpoint_created")
  BY DEF EndpointTask, Only
<1>2. /\ batch = <<>> /\ checked = "no" /\ app \in AppRecord /\ Starts(app, <<>>, "no")
      /\ Tail(app.queue) = <<>> /\ app.state = "ON_CONFIGURE_DONE" /\ app.pending = {}
  BY <1>1, FirstTask
<1>3. Rest = WithQueue(app, <<>>)
  BY <1>2 DEF Rest, WithQueue
<1>4. /\ Rest \in AppRecord /\ Rest.queue = <<>>
      /\ Rest.state = app.state /\ Rest.loop = app.loop /\ Rest.inMsgs = app.inMsgs
      /\ Rest.pending = app.pending /\ Rest.deinits = app.deinits
      /\ Rest.late = app.late /\ Rest.engines = app.engines
      /\ Rest.orphans = app.orphans /\ Rest.endpoint = app.endpoint
      /\ Rest.proxies = app.proxies
  <2>1. app \in AppRecord /\ <<>> \in Seq(Tasks)
    BY <1>2
  <2> QED
    BY <1>3, <2>1, SetQueue
<1>5. Empty(Rest, <<>>) /\ Rest.deinits = 0 /\ Rest.loop = "running"
  BY <1>2, <1>4 DEF Starts, Empty
<1> DEFINE h == IF k = "endpoint_created" THEN "listening" ELSE "none"
           m == [Rest EXCEPT !.endpoint = h]
<1>6. /\ h \in {"none", "creating", "listening", "closing", "closed"} /\ m = WithEndpoint(Rest, h)
      /\ app' = IF k = "endpoint_created" THEN TriggerOnInit(m) ELSE ten_app_close(m)
      /\ h = IF k = "endpoint_created" THEN "listening" ELSE "none"
  BY <1>1 DEF ten_app_on_endpoint_protocol_created, WithEndpoint
<1> HIDE DEF m, h
<1>7. /\ m \in AppRecord /\ m.endpoint = h
      /\ m.state = Rest.state /\ m.loop = Rest.loop /\ m.queue = Rest.queue
      /\ m.inMsgs = Rest.inMsgs /\ m.pending = Rest.pending
      /\ m.deinits = Rest.deinits /\ m.late = Rest.late /\ m.engines = Rest.engines
      /\ m.orphans = Rest.orphans /\ m.proxies = Rest.proxies
  BY <1>4, <1>6, SetEndpoint
<1>8. Empty(m, <<>>) /\ ~ten_app_is_closing(m) /\ m.pending = {} /\ m.deinits = 0
                     /\ m.loop = "running" /\ m.queue = <<>>
  BY <1>2, <1>4, <1>5, <1>7 DEF Empty, ten_app_is_closing
<1>9. CASE k = "endpoint_created"
  <2>1. app' = TriggerOnInit(m) /\ m.endpoint = "listening"
    BY <1>6, <1>7, <1>9
  <2>2. Good(app', <<>>, "no")
    BY <1>7, <1>8, <2>1, TriggerGood
  <2> QED
    BY <1>1, <1>2, <2>2 DEF AppOK
<1>10. CASE k # "endpoint_created"
  <2>1. app' = ten_app_close(m) /\ m.endpoint = "none"
    BY <1>6, <1>7, <1>10
  <2>2. Good(app', <<>>, "no")
    BY <1>7, <1>8, <2>1, FailGood
  <2> QED
    BY <1>1, <1>2, <2>2 DEF AppOK
<1> QED
  BY <1>9, <1>10

\* on_configure is answered: the state is read.
LEMMA ConfigureDoneOK ==
  ASSUME AppInv, ten_app_on_configure_done
  PROVE  AppOK(app', batch', checked')
<1>1. batch = <<>> /\ checked = "no" /\ "configure" \in app.pending
  BY DEF ten_app_on_configure_done, Idle
<1>2. Starts(app, <<>>, "no")
  BY <1>1 DEF AppInv, AppOK, Good
<1>3. /\ app \in AppRecord /\ app.state = "ON_CONFIGURE" /\ app.queue = <<>>
      /\ app.pending = {"configure"} /\ app.endpoint = "none"
  BY <1>1, <1>2 DEF Starts, Phase
<1>4. app' = WithState(app, app.state, {}) /\ batch' = <<>> /\ checked' = "configure"
  <2>1. {"configure"} \ {"configure"} = {}
    OBVIOUS
  <2>2. app' = [app EXCEPT !.pending = {}]
    BY <1>3, <2>1 DEF ten_app_on_configure_done
  <2>3. app' = WithState(app, app.state, {})
    BY <1>3, <2>2 DEF WithState, AppRecord
  <2> QED
    BY <1>1, <1>3, <2>3 DEF ten_app_on_configure_done
<1>5. app.state \in AppStates /\ {} \in SUBSET Pendings
  BY <1>3, AppFields
<1>6. /\ app' \in AppRecord /\ app'.state = app.state /\ app'.pending = {}
      /\ app'.loop = app.loop /\ app'.queue = app.queue /\ app'.inMsgs = app.inMsgs
      /\ app'.deinits = app.deinits /\ app'.late = app.late
      /\ app'.engines = app.engines /\ app'.orphans = app.orphans
      /\ app'.endpoint = app.endpoint /\ app'.proxies = app.proxies
  BY <1>3, <1>4, <1>5, SetState
<1>7. Phase(app', "configure")
  BY <1>3, <1>6 DEF Phase
<1> QED
  BY <1>2, <1>4, <1>6, <1>7 DEF AppOK, Starts, Empty

\* The state that was read is ON_CONFIGURE still: nobody closes an app that
\* early.
LEMMA SetConfigureDoneOK ==
  ASSUME AppInv, SetConfigureDone
  PROVE  AppOK(app', batch', checked')
<1>1. checked = "configure"
  BY DEF SetConfigureDone
<1>2. Starts(app, batch, checked)
  BY <1>1 DEF AppInv, AppOK, Good
<1>3. /\ app \in AppRecord /\ app.queue = <<>> /\ app.pending = {} /\ app.endpoint = "none"
  BY <1>1, <1>2 DEF Starts, Phase
<1>4. app' = WithState(app, "ON_CONFIGURE_DONE", {"load"}) /\ batch' = batch /\ checked' = "no"
  BY <1>3 DEF SetConfigureDone, WithState
<1>5. "ON_CONFIGURE_DONE" \in AppStates /\ {"load"} \in SUBSET Pendings
  BY DEF AppStates, Pendings
<1>6. /\ app' \in AppRecord /\ app'.state = "ON_CONFIGURE_DONE" /\ app'.pending = {"load"}
      /\ app'.loop = app.loop /\ app'.queue = app.queue /\ app'.inMsgs = app.inMsgs
      /\ app'.deinits = app.deinits /\ app'.late = app.late
      /\ app'.engines = app.engines /\ app'.orphans = app.orphans
      /\ app'.endpoint = app.endpoint /\ app'.proxies = app.proxies
  BY <1>3, <1>4, <1>5, SetState
<1>7. Phase(app', "no")
  BY <1>3, <1>6 DEF Phase
<1> QED
  BY <1>2, <1>4, <1>6, <1>7 DEF AppOK, Starts, Empty

\* The addons are loaded: the endpoint is created, on_init is called, or the
\* app gives up.
LEMMA ContinueOK ==
  ASSUME AppInv, ContinueRun
  PROVE  AppOK(app', batch', checked')
<1>1. batch = <<>> /\ checked = "no" /\ "load" \in app.pending
  BY DEF ContinueRun, TakesEvents, Idle
<1>2. Starts(app, <<>>, "no")
  BY <1>1 DEF AppInv, AppOK, Good
<1>3. /\ app \in AppRecord /\ app.queue = <<>> /\ app.state = "ON_CONFIGURE_DONE"
      /\ app.pending = {"load"} /\ app.endpoint = "none"
  BY <1>1, <1>2 DEF Starts, Phase
<1> DEFINE a == [app EXCEPT !.pending = @ \ {"load"}]
<1>4. a = WithState(app, app.state, {})
  <2>1. {"load"} \ {"load"} = {}
    OBVIOUS
  <2>2. a = [app EXCEPT !.pending = {}]
    BY <1>3, <2>1
  <2> HIDE DEF a
  <2> QED
    BY <1>3, <2>2 DEF WithState, AppRecord
<1>5. /\ batch' = <<>> /\ checked' = "no"
      /\ \/ app' = ten_app_close(a)
         \/ config.endpoint /\ app' = [a EXCEPT !.endpoint = "creating"]
         \/ ~config.endpoint /\ app' = TriggerOnInit(a)
  BY <1>1 DEF ContinueRun, Only
<1> HIDE DEF a
<1>6. app.state \in AppStates /\ {} \in SUBSET Pendings
  BY <1>3, AppFields
<1>7. /\ a \in AppRecord /\ a.state = app.state /\ a.pending = {}
      /\ a.loop = app.loop /\ a.queue = app.queue /\ a.inMsgs = app.inMsgs
      /\ a.deinits = app.deinits /\ a.late = app.late /\ a.engines = app.engines
      /\ a.orphans = app.orphans /\ a.endpoint = app.endpoint /\ a.proxies = app.proxies
  BY <1>3, <1>4, <1>6, SetState
<1>8. Empty(a, <<>>) /\ a.deinits = 0 /\ a.loop = "running" /\ a.queue = <<>>
                     /\ a.endpoint = "none"
  BY <1>2, <1>3, <1>7 DEF Starts, Empty
<1>9. CASE app' = ten_app_close(a)
  <2>1. ~ten_app_is_closing(a)
    BY <1>3, <1>7 DEF ten_app_is_closing
  <2>2. Good(app', <<>>, "no")
    BY <1>7, <1>8, <1>9, <2>1, FailGood
  <2> QED
    BY <1>5, <2>2 DEF AppOK
<1>10. CASE config.endpoint /\ app' = [a EXCEPT !.endpoint = "creating"]
  <2>1. app' = WithEndpoint(a, "creating")
    BY <1>10 DEF WithEndpoint
  <2>2. /\ app' \in AppRecord /\ app'.endpoint = "creating"
        /\ app'.state = a.state /\ app'.loop = a.loop /\ app'.queue = a.queue
        /\ app'.inMsgs = a.inMsgs /\ app'.pending = a.pending
        /\ app'.deinits = a.deinits /\ app'.late = a.late /\ app'.engines = a.engines
        /\ app'.orphans = a.orphans /\ app'.proxies = a.proxies
    BY <1>7, <2>1, SetEndpoint
  <2>3. config.endpoint = TRUE
    BY <1>10 DEF AppInv, Config
  <2>4. Phase(app', "no")
    BY <1>3, <1>7, <1>8, <2>2, <2>3 DEF Phase
  <2> QED
    BY <1>5, <1>8, <2>2, <2>4 DEF AppOK, Starts, Empty
<1>11. CASE ~config.endpoint /\ app' = TriggerOnInit(a)
  <2>1. Good(app', <<>>, "no")
    BY <1>7, <1>8, <1>11, TriggerGood
  <2> QED
    BY <1>5, <2>1 DEF AppOK
<1> QED
  BY <1>5, <1>9, <1>10, <1>11

\* The protocol addon answers, once.
LEMMA AddonOK ==
  ASSUME AppInv, AddonCreatesEndpoint
  PROVE  AppOK(app', batch', checked')
<1>1. app.endpoint = "creating" /\ app.loop = "running" /\ UNCHANGED <<batch, checked>>
  BY DEF AddonCreatesEndpoint, Only
<1>2. Starts(app, batch, checked)
  BY <1>1 DEF AppInv, AppOK, Good, Endpoint
<1>3. /\ app \in AppRecord /\ app.state = "ON_CONFIGURE_DONE" /\ app.pending = {}
      /\ checked = "no" /\ config.endpoint = TRUE
      /\ app.queue \in {<<>>, << <<"endpoint_created">> >>, << <<"endpoint_failed">> >>}
  BY <1>1, <1>2 DEF Starts, Phase
<1>4. app.queue = <<>>
  BY <1>3 DEF AddonCreatesEndpoint
<1>5. PICK k \in {"endpoint_created", "endpoint_failed"} : app' = Post(app, <<k>>)
  BY DEF AddonCreatesEndpoint, Only
<1>6. <<k>> \in Tasks /\ Append(<<>>, <<k>>) = << <<k>> >>
  BY DEF Tasks
<1>7. app' = WithQueue(app, << <<k>> >>) /\ << <<k>> >> \in Seq(Tasks)
  BY <1>1, <1>4, <1>5, <1>6 DEF Post, WithQueue
<1>8. /\ app' \in AppRecord /\ app'.queue = << <<k>> >>
      /\ app'.state = app.state /\ app'.loop = app.loop /\ app'.inMsgs = app.inMsgs
      /\ app'.pending = app.pending /\ app'.deinits = app.deinits
      /\ app'.late = app.late /\ app'.engines = app.engines
      /\ app'.orphans = app.orphans /\ app'.endpoint = app.endpoint
      /\ app'.proxies = app.proxies
  BY <1>3, <1>7, SetQueue
<1>9. << <<k>> >> \in {<<>>, << <<"endpoint_created">> >>, << <<"endpoint_failed">> >>}
  OBVIOUS
<1>10. Phase(app', "no")
  BY <1>1, <1>3, <1>8, <1>9 DEF Phase
<1> QED
  BY <1>1, <1>2, <1>3, <1>8, <1>10 DEF AppOK, Starts, Empty

-----------------------------------------------------------------------------
(* The tasks.                                                              *)

\* A task is taken from the queue.
LEMMA TakeTask ==
  ASSUME AppInv, NEW k \in {"close", "engine_closed", "client", "proxy"}, Runs(k)
  PROVE  /\ batch = <<>> /\ checked = "no" /\ Good(app, <<>>, "no") /\ Good(Rest, <<>>, "no")
         /\ Head(app.queue) \in Tasks /\ Head(app.queue)[1] = k
         /\ Has(app.queue, Head(app.queue))
         /\ Once(app.queue, Head(app.queue)) => ~Has(Rest.queue, Head(app.queue))
         /\ Rest.state = app.state /\ Rest.loop = app.loop /\ Rest.inMsgs = app.inMsgs
         /\ Rest.pending = app.pending /\ Rest.deinits = app.deinits
         /\ Rest.late = app.late /\ Rest.engines = app.engines
         /\ Rest.orphans = app.orphans /\ Rest.endpoint = app.endpoint
         /\ Rest.proxies = app.proxies
<1>1. /\ batch = <<>> /\ checked = "no" /\ Good(app, <<>>, "no") /\ Head(app.queue) \in Tasks
  BY FirstTask
<1>2. app.queue # <<>> /\ Head(app.queue)[1] = k
  BY DEF Runs
<1>3. app \in AppRecord /\ app.queue \in Seq(Tasks)
  BY <1>1, AppFields DEF Good
<1>4. /\ Has(app.queue, Head(app.queue))
      /\ Once(app.queue, Head(app.queue)) => ~Has(Tail(app.queue), Head(app.queue))
  BY <1>2, <1>3, TailQueue
<1>5. Head(app.queue) # <<"in_msgs">>
  BY <1>2
<1>6. Rest = [app EXCEPT !.queue = Tail(@)]
  BY DEF Rest
<1>7. /\ Good(Rest, <<>>, "no") /\ Rest.queue = Tail(app.queue)
      /\ Rest.state = app.state /\ Rest.loop = app.loop /\ Rest.inMsgs = app.inMsgs
      /\ Rest.pending = app.pending /\ Rest.deinits = app.deinits
      /\ Rest.late = app.late /\ Rest.engines = app.engines
      /\ Rest.orphans = app.orphans /\ Rest.endpoint = app.endpoint
      /\ Rest.proxies = app.proxies
  BY <1>1, <1>2, <1>5, <1>6, RestGood
<1> QED
  BY <1>1, <1>2, <1>4, <1>7

\* The task of ten_app_close.
LEMMA AppCloseTaskOK ==
  ASSUME AppInv, CloseTask
  PROVE  AppOK(app', batch', checked')
<1>1. Runs("close") /\ app' = ten_app_close_task(Rest) /\ UNCHANGED <<batch, checked>>
  BY DEF CloseTask, Only
<1>2. /\ batch = <<>> /\ checked = "no" /\ Good(app, <<>>, "no") /\ Good(Rest, <<>>, "no")
      /\ Head(app.queue) \in Tasks /\ Head(app.queue)[1] = "close"
      /\ Has(app.queue, Head(app.queue))
      /\ Once(app.queue, Head(app.queue)) => ~Has(Rest.queue, Head(app.queue))
      /\ Rest.state = app.state /\ Rest.deinits = app.deinits
  BY <1>1, TakeTask
<1>3. Head(app.queue) = <<"close">>
  BY <1>2, TaskForms
<1>4. ~Has(Rest.queue, <<"close">>) /\ ten_app_is_closing(Rest)
  BY <1>2, <1>3 DEF Good, Queued, ten_app_is_closing
<1>5. config.endpoint => Rest.deinits = 0
  <2>1. app \in AppRecord /\ app.deinits \in Nat
    BY <1>2, AppFields DEF Good
  <2>2. config.endpoint => ~(app.deinits > 0)
    BY <1>2, <1>3 DEF Good, Deinit
  <2> QED
    BY <1>2, <2>1, <2>2
<1>6. Good(app', <<>>, "no")
  <2>1. CASE ten_app_could_be_close(Rest)
    <3>1. app' = ten_app_on_deinit(Rest)
      BY <1>1, <2>1 DEF ten_app_close_task, ten_app_proceed_to_close
    <3> QED
      BY <1>2, <1>4, <1>5, <2>1, <3>1, DeinitGood
  <2>2. CASE ~ten_app_could_be_close(Rest)
    <3>1. app' = ten_app_close_sync(Rest)
      BY <1>1, <2>2 DEF ten_app_close_task
    <3> QED
      BY <1>2, <1>4, <3>1, CloseSyncGood
  <2> QED
    BY <2>1, <2>2
<1> QED
  BY <1>1, <1>2, <1>6 DEF AppOK

\* The task of an engine that has closed.
LEMMA EngineClosedOK ==
  ASSUME AppInv, EngineClosedTask
  PROVE  AppOK(app', batch', checked')
<1> DEFINE e == Head(app.queue)[2]
<1>1. /\ Runs("engine_closed") /\ UNCHANGED <<batch, checked>>
      /\ app' = ten_app_check_termination_when_engine_closed(Rest, e)
  BY DEF EngineClosedTask, Only
<1>2. /\ batch = <<>> /\ checked = "no" /\ Good(app, <<>>, "no") /\ Good(Rest, <<>>, "no")
      /\ Head(app.queue) \in Tasks /\ Head(app.queue)[1] = "engine_closed"
      /\ Has(app.queue, Head(app.queue))
      /\ Once(app.queue, Head(app.queue)) => ~Has(Rest.queue, Head(app.queue))
      /\ Rest.engines = app.engines
  BY <1>1, TakeTask
<1>3. e \in Engines /\ Head(app.queue) = <<"engine_closed", e>>
  BY <1>2, TaskForms
<1> HIDE DEF e
<1>4. ~Has(Rest.queue, <<"engine_closed", e>>) /\ Rest.engines[e] = "closed"
  BY <1>2, <1>3 DEF Good, Queued
<1>5. Good(app', <<>>, "no")
  BY <1>1, <1>2, <1>3, <1>4, TermGood
<1> QED
  BY <1>1, <1>2, <1>5 DEF AppOK

\* The task of a client that was accepted.
LEMMA ClientTaskOK ==
  ASSUME AppInv, ten_app_thread_on_client_protocol_created
  PROVE  AppOK(app', batch', checked')
<1> DEFINE x == Head(app.queue)[2]
           g == [Rest.orphans EXCEPT ![x] = "open"]
           l == Rest.late \/ HasCloseRun(app)
<1>1. Runs("client") /\ UNCHANGED <<batch, checked>>
  BY DEF ten_app_thread_on_client_protocol_created, Only
<1>2. /\ batch = <<>> /\ checked = "no" /\ Good(app, <<>>, "no") /\ Good(Rest, <<>>, "no")
      /\ Head(app.queue) \in Tasks /\ Head(app.queue)[1] = "client"
      /\ Has(app.queue, Head(app.queue))
      /\ Once(app.queue, Head(app.queue)) => ~Has(Rest.queue, Head(app.queue))
      /\ Rest.orphans = app.orphans
  BY <1>1, TakeTask
<1>3. x \in Conns /\ Head(app.queue) = <<"client", x>>
  BY <1>2, TaskForms
<1>4. app' = WithOrphans(Rest, g, l)
  BY DEF ten_app_thread_on_client_protocol_created, Only, WithOrphans
<1> HIDE DEF x
<1>5. ~Has(Rest.queue, <<"client", x>>) /\ Rest.orphans[x] = "accepted"
  BY <1>2, <1>3 DEF Good, Queued
<1>6. Rest \in AppRecord /\ Rest.orphans \in [Conns -> ConnStates] /\ Rest.late \in BOOLEAN
  BY <1>2, AppFields DEF Good
<1>7. /\ g \in [Conns -> ConnStates] /\ g[x] = "open"
      /\ \A y \in Conns : y # x => g[y] = Rest.orphans[y]
  BY <1>3, <1>6 DEF ConnStates
<1>8. l \in BOOLEAN
  BY DEF HasCloseRun
<1> HIDE DEF g, l
<1>9. /\ app' \in AppRecord /\ app'.orphans = g
      /\ app'.state = Rest.state /\ app'.loop = Rest.loop /\ app'.queue = Rest.queue
      /\ app'.inMsgs = Rest.inMsgs /\ app'.pending = Rest.pending
      /\ app'.deinits = Rest.deinits /\ app'.engines = Rest.engines
      /\ app'.endpoint = Rest.endpoint /\ app'.proxies = Rest.proxies
  BY <1>4, <1>6, <1>7, <1>8, SetOrphans
<1>10. HeldKept(Rest, app')
  BY <1>5, <1>7, <1>9 DEF HeldKept
<1>11. StateKept(Rest, app')
  BY <1>2, <1>9 DEF StateKept, Good, Early, ten_app_is_closing, Deinit, NoProxyLeft
<1>12. Good(app', <<>>, "no")
  BY <1>2, <1>9, <1>10, <1>11, HeldGood
<1> QED
  BY <1>1, <1>2, <1>12 DEF AppOK

\* The loop is told to stop.
LEMMA StopGood ==
  ASSUME NEW a, NEW b, NEW c, Good(a, b, c), a.state = "ON_DEINIT_DONE", NoProxyLeft(a),
         NEW r, r = ten_runloop_stop(a)
  PROVE  Good(r, b, "no")
<1>1. a \in AppRecord /\ "stopping" \in {"running", "stopping", "stopped"}
  BY DEF Good
<1>2. CASE a.loop = "running"
  <2>1. r = WithLoop(a, "stopping")
    BY <1>2 DEF ten_runloop_stop, WithLoop
  <2>2. /\ r \in AppRecord /\ r.loop = "stopping"
        /\ r.state = a.state /\ r.queue = a.queue /\ r.inMsgs = a.inMsgs
        /\ r.pending = a.pending /\ r.deinits = a.deinits /\ r.late = a.late
        /\ r.engines = a.engines /\ r.orphans = a.orphans /\ r.endpoint = a.endpoint
        /\ r.proxies = a.proxies
    BY <1>1, <2>1, SetLoop
  <2>3. HeldKept(a, r)
    BY <2>2 DEF HeldKept
  <2>4. StateKept(a, r)
    BY <2>2 DEF StateKept, Good, Early, ten_app_is_closing, Deinit, NoProxyLeft
  <2> QED
    BY <2>2, <2>3, <2>4, HeldGood
<1>3. CASE a.loop # "running"
  <2>1. r = a
    BY <1>3 DEF ten_runloop_stop
  <2>2. c = "no"
    BY DEF Good
  <2> QED
    BY <2>1, <2>2
<1> QED
  BY <1>2, <1>3

\* The task of a proxy that was released.
LEMMA ProxyTaskOK ==
  ASSUME AppInv, ProxyTask
  PROVE  AppOK(app', batch', checked')
<1> DEFINE x == Head(app.queue)[2]
           f == [Rest.proxies EXCEPT ![x] = "gone"]
           z == [Rest EXCEPT !.proxies[x] = "gone"]
<1>1. Runs("proxy") /\ UNCHANGED <<batch, checked>>
  BY DEF ProxyTask, Only
<1>2. /\ batch = <<>> /\ checked = "no" /\ Good(app, <<>>, "no") /\ Good(Rest, <<>>, "no")
      /\ Head(app.queue) \in Tasks /\ Head(app.queue)[1] = "proxy"
      /\ Has(app.queue, Head(app.queue)) /\ Rest.state = app.state
  BY <1>1, TakeTask
<1>3. x \in Proxies /\ Head(app.queue) = <<"proxy", x>>
  BY <1>2, TaskForms
<1>4. app' = IF NoProxyLeft(z) /\ ten_app_is_closing(z) THEN ten_runloop_stop(z) ELSE z
  BY DEF ProxyTask, Only, ten_env_delete_ten_proxy
<1>5. z = WithProxies(Rest, f)
  BY DEF WithProxies
<1> HIDE DEF x, z
<1>6. Rest.state = "ON_DEINIT_DONE"
  BY <1>2, <1>3 DEF Good, Queued
<1>7. Rest \in AppRecord /\ Rest.proxies \in [Proxies -> ProxyStates]
  BY <1>2, AppFields DEF Good
<1>8. /\ f \in [Proxies -> ProxyStates] /\ f[x] = "gone"
      /\ \A y \in Proxies : y # x => f[y] = Rest.proxies[y]
  BY <1>3, <1>7 DEF ProxyStates
<1> HIDE DEF f
<1>9. /\ z \in AppRecord /\ z.proxies = f
      /\ z.state = Rest.state /\ z.loop = Rest.loop /\ z.queue = Rest.queue
      /\ z.inMsgs = Rest.inMsgs /\ z.pending = Rest.pending /\ z.deinits = Rest.deinits
      /\ z.late = Rest.late /\ z.engines = Rest.engines /\ z.orphans = Rest.orphans
      /\ z.endpoint = Rest.endpoint
  BY <1>5, <1>7, <1>8, SetProxies
<1>10. HeldKept(Rest, z)
  BY <1>9 DEF HeldKept
<1>11. NoProxyLeft(Rest) => NoProxyLeft(z)
  BY <1>8, <1>9 DEF NoProxyLeft
<1>12. StateKept(Rest, z)
  BY <1>2, <1>9, <1>11 DEF StateKept, Good, Early, ten_app_is_closing, Deinit
<1>13. Good(z, <<>>, "no") /\ z.state = "ON_DEINIT_DONE"
  BY <1>2, <1>6, <1>9, <1>10, <1>12, HeldGood
<1>14. Good(app', <<>>, "no")
  <2>1. CASE NoProxyLeft(z) /\ ten_app_is_closing(z)
    BY <1>4, <1>13, <2>1, StopGood
  <2>2. CASE ~(NoProxyLeft(z) /\ ten_app_is_closing(z))
    BY <1>4, <1>13, <2>2
  <2> QED
    BY <2>1, <2>2
<1> QED
  BY <1>1, <1>2, <1>14 DEF AppOK

\* All messages are taken.
LEMMA AppInMsgsOK ==
  ASSUME AppInv, InMsgsTask
  PROVE  AppOK(app', batch', checked')
<1> DEFINE z == [app EXCEPT !.inMsgs = <<>>]
<1>1. /\ Runs("in_msgs") /\ app' = [Rest EXCEPT !.inMsgs = <<>>]
      /\ batch' = app.inMsgs /\ checked' = checked
  BY DEF InMsgsTask
<1>2. checked = "no" /\ Good(app, <<>>, "no") /\ app.queue # <<>>
  <2>1. checked = "no" /\ Good(app, <<>>, "no")
    BY <1>1, FirstTask
  <2> QED
    BY <1>1, <2>1 DEF Runs
<1>3. app \in AppRecord /\ app.inMsgs \in Seq(Messages) /\ <<>> \in Seq(Messages)
  BY <1>2, AppFields DEF Good
<1>4. z \in AppRecord
  BY <1>3, SetInMsgs
<1>5. /\ z.inMsgs = <<>>
      /\ z.state = app.state /\ z.loop = app.loop /\ z.queue = app.queue
      /\ z.pending = app.pending /\ z.deinits = app.deinits /\ z.late = app.late
      /\ z.engines = app.engines /\ z.orphans = app.orphans /\ z.endpoint = app.endpoint
      /\ z.proxies = app.proxies
  BY <1>3 DEF AppRecord
<1>6. app' = [z EXCEPT !.queue = Tail(@)]
  BY <1>1, <1>3 DEF Rest, AppRecord
<1> HIDE DEF z
<1>7. (ten_app_is_closing(z) <=> ten_app_is_closing(app)) /\ (AllGone(app) <=> AllGone(z))
  BY <1>5 DEF ten_app_is_closing, AllGone
<1>8. Queued(z)
  <2>1. Queued(app)
    BY <1>2 DEF Good
  <2> QED
    BY <1>5, <1>7, <2>1 DEF Queued
<1>9. Endpoint(z, app.inMsgs)
  <2>1. Endpoint(app, <<>>)
    BY <1>2 DEF Good
  <2> QED
    BY <1>5, <1>7, <2>1 DEF Endpoint, Empty
<1>10. Deinit(z)
  <2>1. Deinit(app)
    BY <1>2 DEF Good
  <2> QED
    BY <1>5, <1>7, <2>1 DEF Deinit, NoProxyLeft
<1>11. ~HasStart(<<>>)
  BY DEF HasStart
<1>12. Starters(z, app.inMsgs)
  <2>1. Starters(app, <<>>) /\ Queued(app)
    BY <1>2 DEF Good
  <2>2. Sender(app) => ~AllGone(app)
    BY <2>1, SoonerHas DEF Sender, AllGone, Queued
  <2> QED
    BY <1>5, <1>7, <1>11, <2>1, <2>2 DEF Starters
<1>13. Good(z, app.inMsgs, "no")
  BY <1>2, <1>3, <1>4, <1>5, <1>8, <1>9, <1>10, <1>12 DEF Good, Early
<1>14. Good(app', app.inMsgs, "no")
  BY <1>2, <1>5, <1>6, <1>11, <1>13, RestGood
<1> QED
  BY <1>1, <1>2, <1>14 DEF AppOK

\* A message less.
LEMMA TailGood ==
  ASSUME NEW a, NEW b, NEW c, Good(a, b, c), b # <<>>
  PROVE  Good(a, Tail(b), c)
<1>1. b \in Seq(Messages) /\ Tail(b) \in Seq(Messages) /\ c = "no"
  BY DEF Good
<1>2. HasStart(Tail(b)) => HasStart(b)
  <2>1. PICK z : z \in Messages
    BY DEF Messages
  <2> QED
    BY <1>1, <2>1, StartQueue
<1>3. Endpoint(a, Tail(b))
  BY DEF Good, Endpoint, Empty
<1>4. Starters(a, Tail(b))
  BY <1>2 DEF Good, Starters
<1> QED
  BY <1>1, <1>3, <1>4 DEF Good

\* A graph is started.
LEMMA StartGood ==
  ASSUME NEW a, NEW b, NEW c, Good(a, b, c), NEW e \in Engines,
         config.endpoint => a.endpoint # "none", config.ownLoop => a.deinits = 0,
         NEW r, r = StartGraph(a, e)
  PROVE  Good(r, b, c)
<1> DEFINE f == [a.engines EXCEPT ![e] = "running"]
           l == a.late \/ HasCloseRun(a)
<1>1. CASE a.engines[e] # "none"
  BY <1>1 DEF StartGraph
<1>2. CASE a.engines[e] = "none"
  <2>1. r = WithEngines(a, f, l)
    BY <1>2 DEF StartGraph, WithEngines
  <2>2. a \in AppRecord /\ a.engines \in [Engines -> EngineStates] /\ a.late \in BOOLEAN
    BY AppFields DEF Good
  <2>3. /\ f \in [Engines -> EngineStates] /\ f[e] = "running"
        /\ \A g \in Engines : g # e => f[g] = a.engines[g]
    BY <2>2 DEF EngineStates
  <2>4. l \in BOOLEAN
    BY DEF HasCloseRun
  <2> HIDE DEF f, l
  <2>5. /\ r \in AppRecord /\ r.engines = f
        /\ r.state = a.state /\ r.loop = a.loop /\ r.queue = a.queue
        /\ r.inMsgs = a.inMsgs /\ r.pending = a.pending /\ r.deinits = a.deinits
        /\ r.orphans = a.orphans /\ r.endpoint = a.endpoint /\ r.proxies = a.proxies
    BY <2>1, <2>2, <2>3, <2>4, SetEngines
  <2>6. HeldKept(a, r)
    BY <1>2, <2>3, <2>5 DEF HeldKept
  <2>7. StateKept(a, r)
    BY <2>5 DEF StateKept, Good, Early, ten_app_is_closing, Deinit, NoProxyLeft
  <2>8. c \in {"no", "init"} /\ (c = "init" => r.state = "ON_INIT" /\ b = <<>>)
    BY <2>5 DEF Good
  <2> QED
    BY <2>5, <2>6, <2>7, <2>8, HeldGood
<1> QED
  BY <1>1, <1>2

\* What a message is made of.
LEMMA MessageForms ==
  ASSUME NEW m \in Messages
  PROVE  /\ m[1] = "start_graph" => m[2] \in Engines
         /\ m[1] = "stop_graph" => m[2] \in Engines /\ <<"stop_error", m[2]>> \in Messages
  BY DEF Messages

\* A message is handled.
LEMMA HandleOK ==
  ASSUME AppInv, ten_app_handle_in_msg
  PROVE  AppOK(app', batch', checked')
<1> DEFINE m == Head(batch)
<1>1. batch # <<>> /\ batch' = Tail(batch) /\ checked' = checked
  BY DEF ten_app_handle_in_msg
<1>2. Good(app, batch, checked)
  BY <1>1 DEF AppInv, AppOK, Starts, Empty
<1>3. batch \in Seq(Messages) /\ checked = "no" /\ m \in Messages
  BY <1>1, <1>2 DEF Good
<1>4. config.endpoint => app.endpoint # "none"
  BY <1>1, <1>2 DEF Good, Endpoint, Empty
<1>5. \/ m[1] = "start_graph" /\ app' = StartGraph(app, m[2])
      \/ m[1] = "stop_graph" /\ app' = ten_app_handle_stop_graph_cmd(app, m[2])
      \/ app' = ten_app_close(app)
      \/ app' = app
  BY DEF ten_app_handle_in_msg
<1>6. m[1] = "start_graph" => m[2] \in Engines /\ (config.ownLoop => app.deinits = 0)
  <2>1. ASSUME m[1] = "start_graph" PROVE HasStart(batch)
    BY <1>1, <1>3, <2>1, StartQueue
  <2>2. m[1] = "start_graph" /\ config.ownLoop => ~(app.deinits > 0)
    BY <1>2, <2>1 DEF Good, Starters, Deinit
  <2>3. app \in AppRecord /\ app.deinits \in Nat
    BY <1>2, AppFields DEF Good
  <2> QED
    <3>1. ASSUME NEW n \in Nat, ~(n > 0) PROVE n = 0
      BY <3>1
    <3>2. config.ownLoop /\ m[1] = "start_graph" => app.deinits = 0
      BY <2>2, <2>3, <3>1
    <3> HIDE DEF m
    <3>3. m[1] = "start_graph" => m[2] \in Engines
      BY <1>3, MessageForms
    <3> QED
      BY <3>2, <3>3
<1> HIDE DEF m
<1>7. Good(app', batch, checked)
  <2>1. CASE m[1] = "start_graph" /\ app' = StartGraph(app, m[2])
    BY <1>2, <1>4, <1>6, <2>1, StartGood
  <2>2. CASE m[1] = "stop_graph" /\ app' = ten_app_handle_stop_graph_cmd(app, m[2])
    <3>1. app' = app \/ app' = PushInMsg(app, <<"stop_error", m[2]>>)
      BY <2>2 DEF ten_app_handle_stop_graph_cmd
    <3>2. <<"stop_error", m[2]>> \in Messages /\ <<"stop_error", m[2]>>[1] # "start_graph"
      BY <1>3, <2>2, MessageForms
    <3> QED
      BY <1>2, <1>4, <3>1, <3>2, PushGood
  <2>3. CASE app' = ten_app_close(app)
    BY <1>2, <1>3, <2>3, CloseGood
  <2>4. CASE app' = app
    BY <1>2, <2>4
  <2> QED
    BY <1>5, <2>1, <2>2, <2>3, <2>4
<1>8. Good(app', Tail(batch), checked)
  BY <1>1, <1>7, TailGood
<1> QED
  BY <1>1, <1>8 DEF AppOK

-----------------------------------------------------------------------------
(* The callbacks and their answers.                                        *)

\* on_init is answered: the state is read.
LEMMA InitDoneOK ==
  ASSUME AppInv, ten_app_on_init_done
  PROVE  AppOK(app', batch', checked')
<1> DEFINE p == app.pending \ {"init"}
<1>1. /\ batch = <<>> /\ batch' = <<>> /\ checked = "no" /\ "init" \in app.pending
      /\ checked' = IF app.state = "ON_INIT" THEN "init" ELSE "no"
  BY DEF ten_app_on_init_done, Idle
<1>2. Good(app, <<>>, "no")
  BY <1>1 DEF AppInv, AppOK, Starts, Phase
<1>3. app \in AppRecord /\ app.state \in AppStates /\ app.pending \in SUBSET Pendings
  BY <1>2, AppFields DEF Good
<1>4. p \in SUBSET Pendings
  BY <1>3
<1>5. app' = WithState(app, app.state, p)
  <2>1. app' = [app EXCEPT !.pending = p]
    BY DEF ten_app_on_init_done
  <2> HIDE DEF p
  <2> QED
    BY <1>3, <2>1 DEF WithState, AppRecord
<1>6. \A x : x \in p => x \in app.pending
  OBVIOUS
<1> HIDE DEF p
<1>7. /\ app' \in AppRecord /\ app'.state = app.state /\ app'.pending = p
      /\ app'.loop = app.loop /\ app'.queue = app.queue /\ app'.inMsgs = app.inMsgs
      /\ app'.deinits = app.deinits /\ app'.late = app.late
      /\ app'.engines = app.engines /\ app'.orphans = app.orphans
      /\ app'.endpoint = app.endpoint /\ app'.proxies = app.proxies
  BY <1>3, <1>4, <1>5, SetState
<1>8. HeldKept(app, app')
  BY <1>7 DEF HeldKept
<1>9. StateKept(app, app')
  BY <1>2, <1>6, <1>7 DEF StateKept, Good, Early, ten_app_is_closing, Deinit, NoProxyLeft
<1>10. Good(app', <<>>, checked')
  BY <1>1, <1>2, <1>7, <1>8, <1>9, HeldGood
<1> QED
  BY <1>1, <1>10 DEF AppOK

\* The state that was read is ON_INIT still: only the app's own thread closes an
\* app in that state, and it is here.
LEMMA SetInitDoneOK ==
  ASSUME AppInv, SetInitDone
  PROVE  AppOK(app', batch', checked')
<1>1. batch' = batch /\ checked = "init" /\ checked' = "no"
  BY DEF SetInitDone
<1>2. Good(app, batch, checked)
  BY <1>1 DEF AppInv, AppOK, Starts, Phase
<1>3. app \in AppRecord /\ app.pending \in SUBSET Pendings /\ "ON_INIT_DONE" \in AppStates
  BY <1>2, AppFields DEF Good, AppStates
<1>4. app' = WithState(app, "ON_INIT_DONE", app.pending)
  BY <1>3 DEF SetInitDone, WithState, AppRecord
<1>5. /\ app' \in AppRecord /\ app'.state = "ON_INIT_DONE" /\ app'.pending = app.pending
      /\ app'.loop = app.loop /\ app'.queue = app.queue /\ app'.inMsgs = app.inMsgs
      /\ app'.deinits = app.deinits /\ app'.late = app.late
      /\ app'.engines = app.engines /\ app'.orphans = app.orphans
      /\ app'.endpoint = app.endpoint /\ app'.proxies = app.proxies
  BY <1>3, <1>4, SetState
<1>6. app.state = "ON_INIT"
  BY <1>1, <1>2 DEF Good
<1>7. HeldKept(app, app')
  BY <1>5 DEF HeldKept
<1>8. StateKept(app, app')
  BY <1>2, <1>5, <1>6 DEF StateKept, Good, Early, ten_app_is_closing, Deinit, NoProxyLeft
<1>9. Good(app', batch, "no")
  BY <1>2, <1>5, <1>7, <1>8, HeldGood
<1> QED
  BY <1>1, <1>9 DEF AppOK

\* The addons are unregistered.
LEMMA UnregisteredOK ==
  ASSUME AppInv, ten_app_on_all_addons_unregistered
  PROVE  AppOK(app', batch', checked')
<1> DEFINE p == (app.pending \ {"unregister"}) \cup {"deinit"}
<1>1. /\ batch = <<>> /\ batch' = <<>> /\ checked = "no" /\ "unregister" \in app.pending
      /\ checked' = "no"
  BY DEF ten_app_on_all_addons_unregistered, Idle, Only
<1>2. Good(app, <<>>, "no")
  BY <1>1 DEF AppInv, AppOK, Starts, Phase
<1>3. app \in AppRecord /\ app.state \in AppStates /\ app.pending \in SUBSET Pendings
  BY <1>2, AppFields DEF Good
<1>4. p \in SUBSET Pendings
  BY <1>3 DEF Pendings
<1>5. app' = WithState(app, app.state, p)
  <2>1. app' = [app EXCEPT !.pending = p]
    BY DEF ten_app_on_all_addons_unregistered, Only
  <2> HIDE DEF p
  <2> QED
    BY <1>3, <2>1 DEF WithState, AppRecord
<1>6. \A x : x \in p => x \in app.pending \/ x = "deinit"
  OBVIOUS
<1> HIDE DEF p
<1>7. /\ app' \in AppRecord /\ app'.state = app.state /\ app'.pending = p
      /\ app'.loop = app.loop /\ app'.queue = app.queue /\ app'.inMsgs = app.inMsgs
      /\ app'.deinits = app.deinits /\ app'.late = app.late
      /\ app'.engines = app.engines /\ app'.orphans = app.orphans
      /\ app'.endpoint = app.endpoint /\ app'.proxies = app.proxies
  BY <1>3, <1>4, <1>5, SetState
<1>8. HeldKept(app, app')
  BY <1>7 DEF HeldKept
<1>9. StateKept(app, app')
  BY <1>1, <1>2, <1>6, <1>7
     DEF StateKept, Good, Early, ten_app_is_closing, Deinit, NoProxyLeft
<1>10. Good(app', <<>>, "no")
  BY <1>2, <1>7, <1>8, <1>9, HeldGood
<1> QED
  BY <1>1, <1>10 DEF AppOK

\* on_deinit is answered; without a proxy the loop stops.
LEMMA DeinitDoneOK ==
  ASSUME AppInv, ten_app_on_deinit_done
  PROVE  AppOK(app', batch', checked')
<1> DEFINE p == app.pending \ {"deinit"}
           st == IF app.state = "CLOSING" THEN "ON_DEINIT_DONE" ELSE app.state
           z == WithState(app, st, p)
<1>1. /\ batch = <<>> /\ batch' = <<>> /\ checked = "no" /\ "deinit" \in app.pending
      /\ checked' = "no"
  BY DEF ten_app_on_deinit_done, Idle, Only
<1>2. Good(app, <<>>, "no")
  BY <1>1 DEF AppInv, AppOK, Starts, Phase
<1>3. app \in AppRecord /\ app.state \in AppStates /\ app.pending \in SUBSET Pendings
  BY <1>2, AppFields DEF Good
<1>4. p \in SUBSET Pendings /\ st \in AppStates
  BY <1>3 DEF AppStates
<1>5. app' = IF app.state = "CLOSING" /\ NoProxyLeft(z) THEN ten_runloop_stop(z) ELSE z
  <2> DEFINE a == [app EXCEPT !.pending = p]
             d == [a EXCEPT !.state = "ON_DEINIT_DONE"]
  <2>1. app' = IF a.state # "CLOSING" THEN a
               ELSE IF NoProxyLeft(d) THEN ten_runloop_stop(d) ELSE d
    BY DEF ten_app_on_deinit_done, Only
  <2> HIDE DEF p
  <2>2. a.state = app.state
    BY <1>3 DEF AppRecord
  <2>3. app.state = "CLOSING" => d = z
    BY <1>3 DEF WithState, AppRecord
  <2>4. app.state # "CLOSING" => a = z
    BY <1>3 DEF WithState, AppRecord
  <2> HIDE DEF a, d, z
  <2> QED
    BY <2>1, <2>2, <2>3, <2>4
<1>6. /\ \A x : x \in p => x \in app.pending
      /\ st = "ON_DEINIT_DONE" <=> app.state \in {"CLOSING", "ON_DEINIT_DONE"}
      /\ st # "CLOSING" /\ (st # "ON_DEINIT_DONE" => st = app.state)
  OBVIOUS
<1>7. z = WithState(app, st, p)
  OBVIOUS
<1> HIDE DEF p, st, z
<1>8. /\ z \in AppRecord /\ z.state = st /\ z.pending = p
      /\ z.loop = app.loop /\ z.queue = app.queue /\ z.inMsgs = app.inMsgs
      /\ z.deinits = app.deinits /\ z.late = app.late /\ z.engines = app.engines
      /\ z.orphans = app.orphans /\ z.endpoint = app.endpoint /\ z.proxies = app.proxies
  BY <1>3, <1>4, <1>7, SetState
<1>9. HeldKept(app, z)
  BY <1>8 DEF HeldKept
<1>10. StateKept(app, z)
  BY <1>1, <1>2, <1>6, <1>8
     DEF StateKept, Good, Early, ten_app_is_closing, Deinit, NoProxyLeft
<1>11. Good(z, <<>>, "no")
  BY <1>2, <1>8, <1>9, <1>10, HeldGood
<1>12. Good(app', <<>>, "no")
  <2>1. CASE app.state = "CLOSING" /\ NoProxyLeft(z)
    <3>1. z.state = "ON_DEINIT_DONE" /\ app' = ten_runloop_stop(z)
      BY <1>5, <1>6, <1>8, <2>1
    <3> QED
      BY <1>11, <2>1, <3>1, StopGood
  <2>2. CASE ~(app.state = "CLOSING" /\ NoProxyLeft(z))
    BY <1>5, <1>11, <2>2
  <2> QED
    BY <2>1, <2>2
<1> QED
  BY <1>1, <1>12 DEF AppOK

\* The loop ends.
LEMMA LoopEndsOK ==
  ASSUME AppInv, LoopEnds
  PROVE  AppOK(app', batch', checked')
<1>1. /\ batch = <<>> /\ checked = "no" /\ UNCHANGED <<batch, checked>>
      /\ app.loop = "stopping" /\ app' = WithLoop(app, "stopped")
  BY DEF LoopEnds, Idle, Only, WithLoop
<1>2. Good(app, <<>>, "no")
  BY <1>1 DEF AppInv, AppOK, Starts
<1>3. app \in AppRecord /\ "stopped" \in {"running", "stopping", "stopped"}
  BY <1>2 DEF Good
<1>4. /\ app' \in AppRecord /\ app'.loop = "stopped"
      /\ app'.state = app.state /\ app'.queue = app.queue /\ app'.inMsgs = app.inMsgs
      /\ app'.pending = app.pending /\ app'.deinits = app.deinits
      /\ app'.late = app.late /\ app'.engines = app.engines
      /\ app'.orphans = app.orphans /\ app'.endpoint = app.endpoint
      /\ app'.proxies = app.proxies
  BY <1>1, <1>3, SetLoop
<1>5. HeldKept(app, app')
  BY <1>4 DEF HeldKept
<1>6. StateKept(app, app')
  BY <1>1, <1>2, <1>4 DEF StateKept, Good, Early, ten_app_is_closing, Deinit, NoProxyLeft
<1>7. Good(app', <<>>, "no")
  BY <1>2, <1>4, <1>5, <1>6, HeldGood
<1> QED
  BY <1>1, <1>7 DEF AppOK

\* A connection, of which no task is left, is in another state.
LEMMA OrphanGood ==
  ASSUME NEW a, NEW b, NEW c, Good(a, b, c), NEW x \in Conns, NEW st \in {"closing", "gone"},
         a.orphans[x] \in {"open", "closing"}, NEW r, r = [a EXCEPT !.orphans[x] = st]
  PROVE  /\ Good(r, b, c) /\ (config.endpoint => a.endpoint # "none") /\ a.deinits = 0
         /\ r.state = a.state /\ r.loop = a.loop /\ r.queue = a.queue
         /\ r.inMsgs = a.inMsgs /\ r.pending = a.pending /\ r.deinits = a.deinits
         /\ r.engines = a.engines /\ r.endpoint = a.endpoint /\ r.proxies = a.proxies
<1> DEFINE g == [a.orphans EXCEPT ![x] = st]
<1>1. /\ a \in AppRecord /\ a.orphans \in [Conns -> ConnStates] /\ a.deinits \in Nat
      /\ a.late \in BOOLEAN
  BY AppFields DEF Good
<1>2. r = WithOrphans(a, g, a.late)
  <2>1. r = [a EXCEPT !.orphans = g]
    OBVIOUS
  <2> HIDE DEF g
  <2> QED
    BY <1>1, <2>1 DEF WithOrphans, AppRecord
<1>3. /\ g \in [Conns -> ConnStates] /\ g[x] = st
      /\ \A y \in Conns : y # x => g[y] = a.orphans[y]
  BY <1>1 DEF ConnStates
<1> HIDE DEF g
<1>4. /\ r \in AppRecord /\ r.orphans = g
      /\ r.state = a.state /\ r.loop = a.loop /\ r.queue = a.queue
      /\ r.inMsgs = a.inMsgs /\ r.pending = a.pending /\ r.deinits = a.deinits
      /\ r.engines = a.engines /\ r.endpoint = a.endpoint /\ r.proxies = a.proxies
  BY <1>1, <1>2, <1>3, SetOrphans
<1>5. ~Has(a.queue, <<"client", x>>) /\ (config.endpoint => a.endpoint # "none")
  BY DEF Good, Queued, Endpoint, Empty
<1>6. HeldKept(a, r)
  BY <1>3, <1>4, <1>5 DEF HeldKept
<1>7. StateKept(a, r)
  BY <1>4 DEF StateKept, Good, Early, ten_app_is_closing, Deinit, NoProxyLeft
<1>8. c \in {"no", "init"} /\ (c = "init" => r.state = "ON_INIT" /\ b = <<>>)
  BY <1>4 DEF Good
<1>9. Good(r, b, c)
  BY <1>4, <1>6, <1>7, <1>8, HeldGood
<1>10. ~(a.deinits > 0)
  BY DEF Good, Deinit
<1>11. a.deinits = 0
  BY <1>1, <1>10
<1> QED
  BY <1>4, <1>5, <1>9, <1>11

\* A closed connection or endpoint lets the app go on with closing.
LEMMA OrphanClosedOK ==
  ASSUME AppInv, NEW x \in Conns, ten_app_on_orphan_connection_closed(x)
  PROVE  AppOK(app', batch', checked')
<1> DEFINE z == [app EXCEPT !.orphans[x] = "gone"]
<1>1. /\ batch = <<>> /\ checked = "no" /\ UNCHANGED <<batch, checked>>
      /\ app.orphans[x] = "closing" /\ app' = ProceedIfClosing(z)
  BY DEF ten_app_on_orphan_connection_closed, TakesEvents, Idle, Only
<1>2. Good(app, <<>>, "no")
  BY <1>1 DEF AppInv, AppOK, Starts, Empty
<1>3. z = [app EXCEPT !.orphans[x] = "gone"]
  OBVIOUS
<1> HIDE DEF z
<1>4. /\ Good(z, <<>>, "no") /\ z.endpoint = app.endpoint /\ z.deinits = 0
      /\ config.endpoint => z.endpoint # "none"
  BY <1>1, <1>2, <1>3, OrphanGood
<1>5. ten_app_could_be_close(z) /\ config.endpoint => ~Has(z.queue, <<"close">>)
  BY <1>4 DEF Good, Endpoint, ten_app_could_be_close
<1>6. Good(app', <<>>, "no")
  BY <1>1, <1>4, <1>5, ProceedGood
<1> QED
  BY <1>1, <1>6 DEF AppOK

\* The endpoint has closed.
LEMMA ProtocolClosedOK ==
  ASSUME AppInv, ten_app_on_protocol_closed
  PROVE  AppOK(app', batch', checked')
<1> DEFINE z == WithEndpoint(app, "closed")
<1>1. /\ batch = <<>> /\ checked = "no" /\ UNCHANGED <<batch, checked>>
      /\ app.endpoint = "closing" /\ app' = ProceedIfClosing(z)
      /\ \A x \in Conns : app.orphans[x] # "accepted"
  BY DEF ten_app_on_protocol_closed, TakesEvents, Idle, Only, WithEndpoint
<1>2. Good(app, <<>>, "no")
  BY <1>1 DEF AppInv, AppOK, Starts, Phase
<1>3. z = WithEndpoint(app, "closed")
  OBVIOUS
<1> HIDE DEF z
<1>4. /\ app \in AppRecord /\ app.deinits \in Nat
      /\ "closed" \in {"none", "creating", "listening", "closing", "closed"}
  BY <1>2, AppFields DEF Good
<1>5. /\ z \in AppRecord /\ z.endpoint = "closed"
      /\ z.state = app.state /\ z.loop = app.loop /\ z.queue = app.queue
      /\ z.inMsgs = app.inMsgs /\ z.pending = app.pending /\ z.deinits = app.deinits
      /\ z.late = app.late /\ z.engines = app.engines /\ z.orphans = app.orphans
      /\ z.proxies = app.proxies
  BY <1>3, <1>4, SetEndpoint
<1>6. HeldKept(app, z)
  BY <1>1, <1>5 DEF HeldKept
<1>7. StateKept(app, z)
  BY <1>2, <1>5 DEF StateKept, Good, Early, ten_app_is_closing, Deinit, NoProxyLeft
<1>8. Good(z, <<>>, "no")
  BY <1>2, <1>5, <1>6, <1>7, HeldGood
<1>9. ~Has(z.queue, <<"close">>)
  BY <1>5, <1>8 DEF Good, Endpoint
<1>10. ~(app.deinits > 0)
  BY <1>1, <1>2 DEF Good, Deinit
<1>11. z.deinits = 0
  BY <1>4, <1>5, <1>10
<1>12. Good(app', <<>>, "no")
  BY <1>1, <1>8, <1>9, <1>11, ProceedGood
<1> QED
  BY <1>1, <1>12 DEF AppOK

\* What clients do.
LEMMA AcceptedOK ==
  ASSUME AppInv, NEW x \in Conns, ten_transport_on_client_accepted(x)
  PROVE  AppOK(app', batch', checked')
<1> DEFINE g == [app.orphans EXCEPT ![x] = "accepted"]
           z == [app EXCEPT !.orphans[x] = "accepted"]
<1>1. /\ batch = <<>> /\ checked = "no" /\ UNCHANGED <<batch, checked>>
      /\ app.endpoint = "listening" /\ app.orphans[x] = "none"
      /\ app' = Post(z, <<"client", x>>)
  BY DEF ten_transport_on_client_accepted, TakesEvents, Idle, Only
<1>2. Good(app, <<>>, "no")
  BY <1>1 DEF AppInv, AppOK, Starts, Phase
<1>3. app \in AppRecord /\ app.orphans \in [Conns -> ConnStates] /\ app.late \in BOOLEAN
  BY <1>2, AppFields DEF Good
<1>4. z = WithOrphans(app, g, app.late)
  <2>1. z = [app EXCEPT !.orphans = g]
    OBVIOUS
  <2> HIDE DEF g, z
  <2> QED
    BY <1>3, <2>1 DEF WithOrphans, AppRecord
<1>5. /\ g \in [Conns -> ConnStates] /\ g[x] = "accepted"
      /\ \A y \in Conns : y # x => g[y] = app.orphans[y]
  BY <1>3 DEF ConnStates
<1> HIDE DEF g, z
<1>6. /\ z \in AppRecord /\ z.orphans = g
      /\ z.state = app.state /\ z.loop = app.loop /\ z.queue = app.queue
      /\ z.inMsgs = app.inMsgs /\ z.pending = app.pending /\ z.deinits = app.deinits
      /\ z.engines = app.engines /\ z.endpoint = app.endpoint /\ z.proxies = app.proxies
  BY <1>3, <1>4, <1>5, SetOrphans
<1>7. HeldKept(app, z)
  BY <1>1, <1>5, <1>6 DEF HeldKept
<1>8. StateKept(app, z)
  BY <1>2, <1>6 DEF StateKept, Good, Early, ten_app_is_closing, Deinit, NoProxyLeft
<1>9. Good(z, <<>>, "no")
  BY <1>2, <1>6, <1>7, <1>8, HeldGood
<1>10. ~Has(z.queue, <<"client", x>>)
  BY <1>1, <1>2, <1>6 DEF Good, Queued
<1>11. MayPost(z, <<"client", x>>)
  BY <1>5, <1>6, <1>10 DEF MayPost, Tasks
<1>12. Good(app', <<>>, "no")
  BY <1>1, <1>9, <1>11, PostGood
<1> QED
  BY <1>1, <1>12 DEF AppOK

\* The first command of a client.
LEMMA ClientSendsOK ==
  ASSUME AppInv, NEW x \in Conns, ClientSends(x)
  PROVE  AppOK(app', batch', checked')
<1> DEFINE z == [app EXCEPT !.orphans[x] = "gone"]
<1>1. /\ batch = <<>> /\ checked = "no" /\ UNCHANGED <<batch, checked>>
      /\ app.orphans[x] = "open"
      /\ (\E e \in Engines : app' = StartGraph(z, e)) \/ app' = ten_app_close(app)
  BY DEF ClientSends, TakesEvents, Idle, Only
<1>2. Good(app, <<>>, "no")
  BY <1>1 DEF AppInv, AppOK, Starts, Empty
<1>3. z = [app EXCEPT !.orphans[x] = "gone"]
  OBVIOUS
<1> HIDE DEF z
<1>4. /\ Good(z, <<>>, "no") /\ z.deinits = 0
      /\ config.endpoint => z.endpoint # "none"
  BY <1>1, <1>2, <1>3, OrphanGood
<1>5. CASE app' = ten_app_close(app)
  <2>1. Good(app', <<>>, "no")
    BY <1>2, <1>5, CloseGood
  <2> QED
    BY <1>1, <2>1 DEF AppOK
<1>6. ASSUME NEW e \in Engines, app' = StartGraph(z, e)
      PROVE  AppOK(app', batch', checked')
  <2>1. Good(app', <<>>, "no")
    BY <1>4, <1>6, StartGood
  <2> QED
    BY <1>1, <2>1 DEF AppOK
<1> QED
  BY <1>1, <1>5, <1>6

\* A client goes away.
LEMMA ClientDropsOK ==
  ASSUME AppInv, NEW x \in Conns, ClientDrops(x)
  PROVE  AppOK(app', batch', checked')
<1>1. /\ batch = <<>> /\ checked = "no" /\ UNCHANGED <<batch, checked>>
      /\ app.orphans[x] = "open" /\ app' = [app EXCEPT !.orphans[x] = "closing"]
  BY DEF ClientDrops, TakesEvents, Idle, Only
<1>2. Good(app, <<>>, "no")
  BY <1>1 DEF AppInv, AppOK, Starts, Empty
<1>3. Good(app', <<>>, "no")
  BY <1>1, <1>2, OrphanGood
<1> QED
  BY <1>1, <1>3 DEF AppOK

-----------------------------------------------------------------------------
(* The engines, and the other threads.                                     *)

\* An engine that lives is told to close.
LEMMA ClosingGood ==
  ASSUME NEW a, NEW b, NEW c, Good(a, b, c), NEW e \in Engines,
         a.engines[e] \in {"running", "closing"}, NEW r, r = [a EXCEPT !.engines[e] = "closing"]
  PROVE  Good(r, b, c)
<1> DEFINE f == [a.engines EXCEPT ![e] = "closing"]
<1>1. a \in AppRecord /\ a.engines \in [Engines -> EngineStates] /\ a.late \in BOOLEAN
  BY AppFields DEF Good
<1>2. r = WithEngines(a, f, a.late)
  <2>1. r = [a EXCEPT !.engines = f]
    OBVIOUS
  <2> HIDE DEF f
  <2> QED
    BY <1>1, <2>1 DEF WithEngines, AppRecord
<1>3. /\ f \in [Engines -> EngineStates] /\ f[e] = "closing"
      /\ \A g \in Engines : g # e => f[g] = a.engines[g]
  BY <1>1 DEF EngineStates
<1> HIDE DEF f
<1>4. /\ r \in AppRecord /\ r.engines = f
      /\ r.state = a.state /\ r.loop = a.loop /\ r.queue = a.queue
      /\ r.inMsgs = a.inMsgs /\ r.pending = a.pending /\ r.deinits = a.deinits
      /\ r.orphans = a.orphans /\ r.endpoint = a.endpoint /\ r.proxies = a.proxies
  BY <1>1, <1>2, <1>3, SetEngines
<1>5. HeldKept(a, r)
  BY <1>3, <1>4 DEF HeldKept
<1>6. StateKept(a, r)
  BY <1>4 DEF StateKept, Good, Early, ten_app_is_closing, Deinit, NoProxyLeft
<1>7. c \in {"no", "init"} /\ (c = "init" => r.state = "ON_INIT" /\ b = <<>>)
  BY <1>4 DEF Good
<1> QED
  BY <1>4, <1>5, <1>6, <1>7, HeldGood

\* An engine begins to close.
LEMMA EngineStopsOK ==
  ASSUME AppInv, NEW e \in Engines, EngineStops(e) \/ ten_engine_handle_cmd_stop_graph(e)
  PROVE  AppOK(app', batch', checked')
<1>1. /\ UNCHANGED <<batch, checked>> /\ app' = [app EXCEPT !.engines[e] = "closing"]
      /\ app.engines[e] \in {"running", "closing"}
  BY DEF EngineStops, ten_engine_handle_cmd_stop_graph, Only, Alive
<1>2. Good(app, batch, checked)
  BY <1>1 DEF AppInv, AppOK, Starts, Empty
<1>3. Good(app', batch, checked)
  BY <1>1, <1>2, ClosingGood
<1> QED
  BY <1>1, <1>3 DEF AppOK

\* An engine sends a message to the app.
LEMMA EngineSendsOK ==
  ASSUME AppInv, NEW e \in Engines, EngineSends(e)
  PROVE  AppOK(app', batch', checked')
<1>1. /\ UNCHANGED <<batch, checked>> /\ app.engines[e] \in {"running", "closing"}
      /\ app.loop = "running"
  BY DEF EngineSends, EngineTurn, Alive
<1>2. Good(app, batch, checked)
  BY <1>1 DEF AppInv, AppOK, Starts, Empty
<1>3. PICK m \in Messages : app' = PushInMsg(app, m)
  <2>1. /\ \A f \in Engines :
             <<"start_graph", f>> \in Messages /\ <<"stop_graph", f>> \in Messages
        /\ <<"close_app">> \in Messages /\ <<"start_failed">> \in Messages
    BY DEF Messages
  <2> QED
    BY <2>1 DEF EngineSends
<1>4. config.endpoint => app.endpoint # "none"
  BY <1>1, <1>2 DEF Good, Endpoint, Empty
<1>5. Good(app', batch, checked)
  BY <1>1, <1>2, <1>3, <1>4, PushGood
<1> QED
  BY <1>1, <1>5 DEF AppOK

\* An engine with its own loop has closed, and posts the task that says so.
LEMMA ClosedGood ==
  ASSUME NEW a, NEW b, NEW c, Good(a, b, c), NEW e \in Engines, a.engines[e] = "closing",
         a.loop = "running",
         NEW r, r = Post([a EXCEPT !.engines[e] = "closed"], <<"engine_closed", e>>)
  PROVE  Good(r, b, c)
<1> DEFINE t == <<"engine_closed", e>>
           q == Append(a.queue, t)
           f == [a.engines EXCEPT ![e] = "closed"]
           z == WithEngines(a, f, a.late)
<1>1. /\ a \in AppRecord /\ a.engines \in [Engines -> EngineStates] /\ a.late \in BOOLEAN
      /\ a.queue \in Seq(Tasks)
  BY AppFields DEF Good
<1>2. t \in Tasks /\ ~Has(a.queue, t)
  BY DEF Tasks, Good, Queued
<1>3. /\ q \in Seq(Tasks)
      /\ \A y : Has(q, y) <=> Has(a.queue, y) \/ y = t
      /\ \A y : Once(a.queue, y) /\ (y = t => ~Has(a.queue, y)) => Once(q, y)
  BY <1>1, <1>2, AppendQueue
<1>4. /\ \A y, w : Sooner(a.queue, y, w) => Sooner(q, y, w)
      /\ \A y : Has(a.queue, y) => Sooner(q, y, t)
  BY <1>1, <1>2, SoonerQueue
<1>5. \A i \in 1..Len(q) : q[i] = t \/ \E j \in 1..Len(a.queue) : q[i] = a.queue[j]
  <2>1. \A i \in 1..Len(q) : (i \in 1..Len(a.queue) /\ q[i] = a.queue[i]) \/ q[i] = t
    BY <1>1, <1>2
  <2> QED
    BY <2>1
<1>6. /\ f \in [Engines -> EngineStates] /\ f[e] = "closed"
      /\ \A g \in Engines : g # e => f[g] = a.engines[g]
  BY <1>1 DEF EngineStates
<1>7. r = Post(z, t)
  <2>1. z = [a EXCEPT !.engines[e] = "closed"]
    <3>1. [a EXCEPT !.engines[e] = "closed"] = [a EXCEPT !.engines = f]
      OBVIOUS
    <3> HIDE DEF f
    <3>2. [a EXCEPT !.engines = f] = WithEngines(a, f, a.late)
      BY <1>1 DEF WithEngines, AppRecord
    <3> QED
      BY <3>1, <3>2
  <2> HIDE DEF z, t
  <2> QED
    BY <2>1 DEF t
<1>8. z = WithEngines(a, f, a.late) /\ t[1] = "engine_closed"
  OBVIOUS
<1>9. q = Append(a.queue, t) /\ t = <<"engine_closed", e>>
  OBVIOUS
<1> HIDE DEF t, q, f, z
<1>10. /\ z \in AppRecord /\ z.engines = f
       /\ z.state = a.state /\ z.loop = a.loop /\ z.queue = a.queue
       /\ z.inMsgs = a.inMsgs /\ z.pending = a.pending /\ z.deinits = a.deinits
       /\ z.orphans = a.orphans /\ z.endpoint = a.endpoint /\ z.proxies = a.proxies
  BY <1>1, <1>6, <1>8, SetEngines
<1>11. r = WithQueue(z, q)
  BY <1>7, <1>9, <1>10 DEF Post, WithQueue
<1>12. /\ r \in AppRecord /\ r.queue = q
       /\ r.state = z.state /\ r.loop = z.loop /\ r.inMsgs = z.inMsgs
       /\ r.pending = z.pending /\ r.deinits = z.deinits /\ r.late = z.late
       /\ r.engines = z.engines /\ r.orphans = z.orphans /\ r.endpoint = z.endpoint
       /\ r.proxies = z.proxies
  BY <1>3, <1>10, <1>11, SetQueue
<1>13. /\ r.engines = f /\ r.queue = q
       /\ r.state = a.state /\ r.loop = a.loop /\ r.inMsgs = a.inMsgs
       /\ r.pending = a.pending /\ r.deinits = a.deinits /\ r.orphans = a.orphans
       /\ r.endpoint = a.endpoint /\ r.proxies = a.proxies
  BY <1>10, <1>12
<1>14. (ten_app_is_closing(r) <=> ten_app_is_closing(a)) /\ ~AllGone(a) /\ ~AllGone(r)
  BY <1>6, <1>13 DEF ten_app_is_closing, AllGone
<1>15. Queued(a) /\ Endpoint(a, b) /\ Deinit(a) /\ Starters(a, b)
  BY DEF Good
<1>16. Queued(r)
  <2>1. /\ \A i \in 1..Len(r.queue) :
             r.queue[i][1] \notin {"metadata", "endpoint_created", "endpoint_failed"}
        /\ Has(r.queue, <<"close">>) => ten_app_is_closing(r)
        /\ Once(r.queue, <<"close">>)
    <3>1. \A i \in 1..Len(a.queue) :
            a.queue[i][1] \notin {"metadata", "endpoint_created", "endpoint_failed"}
      BY <1>15 DEF Queued
    <3>2. \A i \in 1..Len(q) : q[i][1] \notin {"metadata", "endpoint_created", "endpoint_failed"}
      BY <1>5, <1>8, <3>1
    <3>3. t # <<"close">>
      BY <1>9
    <3> QED
      BY <1>3, <1>13, <1>14, <1>15, <3>2, <3>3 DEF Queued
  <2>2. /\ \A g \in Engines :
             /\ Once(r.queue, <<"engine_closed", g>>)
             /\ Has(r.queue, <<"engine_closed", g>>) => r.engines[g] = "closed"
    BY <1>2, <1>3, <1>6, <1>9, <1>13, <1>15 DEF Queued
  <2>3. /\ \A y \in Conns :
             /\ Once(r.queue, <<"client", y>>)
             /\ Has(r.queue, <<"client", y>>) => r.orphans[y] = "accepted"
        /\ \A p \in Proxies : Has(r.queue, <<"proxy", p>>) => r.state = "ON_DEINIT_DONE"
    BY <1>3, <1>9, <1>13, <1>15 DEF Queued
  <2> QED
    BY <2>1, <2>2, <2>3 DEF Queued
<1>17. \A y : y # t => (Has(r.queue, y) <=> Has(a.queue, y))
  BY <1>3, <1>13
<1>18. Has(r.queue, <<"close">>) <=> Has(a.queue, <<"close">>)
  BY <1>9, <1>17
<1>19. Endpoint(r, b)
  BY <1>13, <1>14, <1>15, <1>18 DEF Endpoint, Empty
<1>20. Deinit(r)
  BY <1>13, <1>14, <1>15, <1>18 DEF Deinit, NoProxyLeft
<1>21. Starters(r, b)
  <2>1. ASSUME Sender(a) PROVE Sender(r)
    <3>1. PICK g \in Engines :
            \/ a.engines[g] \in {"running", "closing"} /\ Has(a.queue, <<"in_msgs">>)
            \/ Sooner(a.queue, <<"in_msgs">>, <<"engine_closed", g>>)
      BY <2>1 DEF Sender
    <3>2. CASE Sooner(a.queue, <<"in_msgs">>, <<"engine_closed", g>>)
      BY <1>4, <1>13, <3>2 DEF Sender
    <3>3. CASE Has(a.queue, <<"in_msgs">>)
      BY <1>4, <1>9, <1>13, <3>3 DEF Sender
    <3> QED
      BY <3>1, <3>2, <3>3
  <2> QED
    BY <1>13, <1>14, <1>15, <2>1 DEF Starters
<1> QED
  BY <1>12, <1>13, <1>16, <1>19, <1>20, <1>21 DEF Good, Early

\* An engine has closed, in its own thread or in the app's.
LEMMA OnEngineClosedOK ==
  ASSUME AppInv, NEW e \in Engines, ten_app_on_engine_closed(e)
  PROVE  AppOK(app', batch', checked')
<1>1. /\ UNCHANGED <<batch, checked>> /\ app.engines[e] = "closing" /\ app.loop = "running"
      /\ config.ownLoop \/ (batch = <<>> /\ checked = "no")
      /\ app' = IF config.ownLoop
                THEN Post([app EXCEPT !.engines[e] = "closed"], <<"engine_closed", e>>)
                ELSE ten_app_check_termination_when_engine_closed(app, e)
  BY DEF ten_app_on_engine_closed, EngineTurn, Idle
<1>2. Good(app, batch, checked)
  BY <1>1 DEF AppInv, AppOK, Starts, Empty
<1>3. ~Has(app.queue, <<"engine_closed", e>>)
  BY <1>1, <1>2 DEF Good, Queued
<1>4. Good(app', batch, checked)
  <2>1. CASE config.ownLoop
    BY <1>1, <1>2, <2>1, ClosedGood
  <2>2. CASE ~config.ownLoop
    BY <1>1, <1>2, <1>3, <2>2, TermGood
  <2> QED
    BY <2>1, <2>2
<1> QED
  BY <1>1, <1>4 DEF AppOK

\* Another thread closes the app.
LEMMA ForeignCloseOK ==
  ASSUME AppInv, AppUsage, ForeignClose
  PROVE  AppOK(app', batch', checked')
<1>1. /\ UNCHANGED <<batch, checked>> /\ app.state = "ON_INIT_DONE" /\ app' = ten_app_close(app)
  BY DEF ForeignClose, AppUsage, Only
<1>2. Good(app, batch, checked) /\ checked = "no"
  BY <1>1 DEF AppInv, AppOK, Starts, Phase, Good
<1>3. Good(app', batch, checked)
  BY <1>1, <1>2, CloseGood
<1> QED
  BY <1>1, <1>3 DEF AppOK

\* A proxy of the app is in another state.
LEMMA NewProxyOK ==
  ASSUME AppInv, NEW x \in Proxies, NewProxy(x)
  PROVE  AppOK(app', batch', checked')
<1> DEFINE f == [app.proxies EXCEPT ![x] = "held"]
<1>1. /\ batch = <<>> /\ checked = "no" /\ UNCHANGED <<batch, checked>>
      /\ app.loop = "running" /\ app' = [app EXCEPT !.proxies = f]
  BY DEF NewProxy, TakesEvents, Idle, Only
<1>2. app \in AppRecord
  BY DEF AppInv, AppOK, Starts, Good
<1>3. app.proxies \in [Proxies -> ProxyStates]
  BY <1>2, AppFields
<1>4. f \in [Proxies -> ProxyStates] /\ app' = WithProxies(app, f)
  <2>1. f \in [Proxies -> ProxyStates]
    BY <1>3 DEF ProxyStates
  <2> QED
    BY <1>1, <2>1 DEF WithProxies
<1> HIDE DEF f
<1>5. /\ app' \in AppRecord /\ app'.proxies = f
      /\ app'.state = app.state /\ app'.loop = app.loop /\ app'.queue = app.queue
      /\ app'.inMsgs = app.inMsgs /\ app'.pending = app.pending
      /\ app'.deinits = app.deinits /\ app'.late = app.late
      /\ app'.engines = app.engines /\ app'.orphans = app.orphans
      /\ app'.endpoint = app.endpoint
  BY <1>2, <1>4, SetProxies
<1>6. CASE Starts(app, <<>>, "no")
  <2>1. Phase(app', "no")
    BY <1>5, <1>6 DEF Starts, Phase
  <2> QED
    BY <1>1, <1>5, <1>6, <2>1 DEF AppOK, Starts, Empty
<1>7. CASE Good(app, <<>>, "no")
  <2>1. HeldKept(app, app')
    BY <1>5 DEF HeldKept
  <2>2. StateKept(app, app')
    BY <1>1, <1>5, <1>7 DEF StateKept, Good, Early, ten_app_is_closing, Deinit, NoProxyLeft
  <2>3. Good(app', <<>>, "no")
    BY <1>5, <1>7, <2>1, <2>2, HeldGood
  <2> QED
    BY <1>1, <2>3 DEF AppOK
<1> QED
  BY <1>1, <1>6, <1>7 DEF AppInv, AppOK

\* The last holder of a proxy gives it back.
LEMMA ReleaseProxyOK ==
  ASSUME AppInv, AppUsage, NEW x \in Proxies, ReleaseProxy(x)
  PROVE  AppOK(app', batch', checked')
<1> DEFINE f == [app.proxies EXCEPT ![x] = "releasing"]
           z == [app EXCEPT !.proxies[x] = "releasing"]
<1>1. /\ UNCHANGED <<batch, checked>> /\ app.loop = "running" /\ app.state = "ON_DEINIT_DONE"
      /\ app' = Post(z, <<"proxy", x>>)
  BY DEF ReleaseProxy, Only, AppUsage
<1>2. Good(app, batch, checked)
  BY <1>1 DEF AppInv, AppOK, Starts, Phase
<1>3. app \in AppRecord /\ app.proxies \in [Proxies -> ProxyStates]
  BY <1>2, AppFields DEF Good
<1>4. f \in [Proxies -> ProxyStates]
  BY <1>3 DEF ProxyStates
<1>5. z = WithProxies(app, f)
  BY DEF WithProxies
<1> HIDE DEF f, z
<1>6. /\ z \in AppRecord /\ z.proxies = f
      /\ z.state = app.state /\ z.loop = app.loop /\ z.queue = app.queue
      /\ z.inMsgs = app.inMsgs /\ z.pending = app.pending /\ z.deinits = app.deinits
      /\ z.late = app.late /\ z.engines = app.engines /\ z.orphans = app.orphans
      /\ z.endpoint = app.endpoint
  BY <1>3, <1>4, <1>5, SetProxies
<1>7. HeldKept(app, z)
  BY <1>6 DEF HeldKept
<1>8. StateKept(app, z)
  BY <1>1, <1>2, <1>6 DEF StateKept, Good, Early, ten_app_is_closing, Deinit, NoProxyLeft
<1>9. checked \in {"no", "init"} /\ (checked = "init" => z.state = "ON_INIT" /\ batch = <<>>)
  BY <1>2, <1>6 DEF Good
<1>10. Good(z, batch, checked)
  BY <1>2, <1>6, <1>7, <1>8, <1>9, HeldGood
<1>11. MayPost(z, <<"proxy", x>>)
  BY <1>1, <1>6 DEF MayPost, Tasks
<1>12. Good(app', batch, checked)
  BY <1>1, <1>10, <1>11, PostGood
<1> QED
  BY <1>1, <1>12 DEF AppOK

-----------------------------------------------------------------------------
(* The theorems.                                                           *)

\* The configuration of the app stays.
LEMMA ConfigStays ==
  ASSUME config' = config, AppOK(app', batch', checked')
  PROVE  AppOK(app, batch, checked)'
<1>1. CASE Starts(app', batch', checked')
  BY <1>1 DEF AppOK, Starts, Phase, Empty
<1>2. CASE Good(app', batch', checked')
  <2>1. Endpoint(app, batch)'
    BY <1>2 DEF Good, Endpoint, Empty, ten_app_is_closing, Has
  <2>2. Deinit(app)'
    BY <1>2 DEF Good, Deinit, AllGone, NoProxyLeft, ten_app_is_closing, Has
  <2>3. Starters(app, batch)'
    BY <1>2 DEF Good, Starters, Sender, AllGone, HasStart, Sooner, Has
  <2>4. Queued(app)'
    BY <1>2 DEF Good, Queued, Has, Once, ten_app_is_closing
  <2> QED
    BY <1>2, <2>1, <2>2, <2>3, <2>4 DEF AppOK, Good, Early
<1> QED
  BY <1>1, <1>2 DEF AppOK

\* The life of an app begins in the invariant.
LEMMA AppInitInv ==
  ASSUME AppUsage, Init
  PROVE  AppInv
<1> DEFINE f == [e \in Engines |-> "none"]
           g == [x \in Conns |-> "none"]
           h == [p \in Proxies |-> "none"]
           q == << <<"metadata">> >>
<1>1. app = [state |-> "INIT", loop |-> "running", queue |-> q, inMsgs |-> <<>>,
             pending |-> {}, deinits |-> 0, late |-> FALSE, engines |-> f,
             orphans |-> g, endpoint |-> "none", proxies |-> h]
  BY DEF Init
<1>2. /\ f \in [Engines -> {"none", "running", "closing", "closed", "gone"}]
      /\ g \in [Conns -> {"none", "accepted", "open", "closing", "gone"}]
      /\ h \in [Proxies -> {"none", "held", "releasing", "gone"}]
      /\ (\A e \in Engines : f[e] = "none") /\ (\A x \in Conns : g[x] = "none")
  OBVIOUS
<1>3. q \in Seq(Tasks) /\ <<>> \in Seq(Messages) /\ "INIT" \in AppStates
  BY DEF Tasks, AppStates
<1>4. q = << <<"metadata">> >>
  OBVIOUS
<1> HIDE DEF f, g, h, q
<1>5. app \in AppRecord
  BY <1>1, <1>2, <1>3 DEF AppRecord
<1>6. /\ app.state = "INIT" /\ app.queue = q /\ app.pending = {} /\ app.endpoint = "none"
      /\ app.inMsgs = <<>> /\ app.deinits = 0 /\ app.loop = "running"
      /\ app.engines = f /\ app.orphans = g
  BY <1>1
<1>7. batch = <<>> /\ checked = "no"
  BY DEF Init
<1>8. Starts(app, batch, checked)
  BY <1>2, <1>4, <1>5, <1>6, <1>7 DEF Starts, Empty, Phase
<1>9. config \in Config /\ stop \in Stops /\ sent \in 0..MaxMsgs
  BY DEF Init, Config, Stops, AppUsage
<1> QED
  BY <1>8, <1>9 DEF AppInv, AppOK

\* The stop_graph commands and the count of messages.
LEMMA StopsStay ==
  ASSUME AppInv, AppUsage, [Next]_vars
  PROVE  config' = config /\ stop' \in Stops /\ sent' \in 0..MaxMsgs
<1>1. stop \in Stops /\ sent \in 0..MaxMsgs /\ MaxMsgs \in Nat
  BY DEF AppInv, AppUsage
<1>2. CASE UNCHANGED <<config, stop, sent>>
  BY <1>1, <1>2
<1>3. ASSUME NEW e \in Engines, EngineSends(e)
      PROVE  config' = config /\ stop' \in Stops /\ sent' \in 0..MaxMsgs
  <2>1. sent < MaxMsgs /\ sent' = sent + 1 /\ config' = config
    BY <1>3 DEF EngineSends
  <2>2. stop' = stop \/ \E f \in Engines : stop' = [stop EXCEPT ![f] = "sent"]
    BY <1>3 DEF EngineSends
  <2>3. stop' \in Stops
    BY <1>1, <2>2 DEF Stops
  <2> QED
    BY <1>1, <2>1, <2>3
<1>4. ASSUME NEW e \in Engines, ten_engine_handle_cmd_stop_graph(e)
      PROVE  config' = config /\ stop' \in Stops /\ sent' = sent
  BY <1>1, <1>4 DEF ten_engine_handle_cmd_stop_graph, Stops
<1>5. ASSUME NEW e \in Engines, ten_app_on_engine_closed(e)
      PROVE  config' = config /\ stop' \in Stops /\ sent' = sent
  BY <1>1, <1>5 DEF ten_app_on_engine_closed, Stops
<1>6. CASE ten_app_handle_in_msg
  <2> DEFINE m == Head(batch)
  <2>1. config' = config /\ sent' = sent
    BY <1>6 DEF ten_app_handle_in_msg
  <2>2. \/ stop' = stop
        \/ stop' = [stop EXCEPT ![m[2]] = "mail"]
        \/ stop' = [stop EXCEPT ![m[2]] = "ok"]
        \/ stop' = [stop EXCEPT ![m[2]] = "error"]
    BY <1>6 DEF ten_app_handle_in_msg
  <2> HIDE DEF m
  <2>3. stop' \in Stops
    BY <1>1, <2>2 DEF Stops
  <2> QED
    BY <1>1, <2>1, <2>3
<1>7. CASE Tasks_
  <2>1. UNCHANGED <<config, stop, sent>>
    BY <1>7 DEF Tasks_, ten_app_handle_metadata_task, CloseTask, EndpointTask, EngineClosedTask,
                ten_app_thread_on_client_protocol_created, ProxyTask, InMsgsTask, Only
  <2> QED
    BY <1>2, <2>1
<1>8. CASE \/ ten_app_on_configure_done \/ SetConfigureDone \/ ContinueRun
           \/ ten_app_on_init_done \/ SetInitDone \/ ten_app_on_all_addons_unregistered
           \/ ten_app_on_deinit_done \/ LoopEnds
           \/ \E c \in Conns : ten_app_on_orphan_connection_closed(c)
           \/ ten_app_on_protocol_closed \/ AddonCreatesEndpoint
  <2>1. UNCHANGED <<config, stop, sent>>
    BY <1>8 DEF ten_app_on_configure_done, SetConfigureDone, ContinueRun,
                ten_app_on_init_done, SetInitDone, ten_app_on_all_addons_unregistered,
                ten_app_on_deinit_done, LoopEnds, ten_app_on_orphan_connection_closed,
                ten_app_on_protocol_closed, AddonCreatesEndpoint, Only
  <2> QED
    BY <1>2, <2>1
<1>9. CASE \/ \E e \in Engines : EngineStops(e)
           \/ \E c \in Conns :
                ten_transport_on_client_accepted(c) \/ ClientSends(c) \/ ClientDrops(c)
           \/ ForeignClose
           \/ \E p \in Proxies : NewProxy(p) \/ ReleaseProxy(p)
  <2>1. UNCHANGED <<config, stop, sent>>
    BY <1>9 DEF EngineStops, ten_transport_on_client_accepted, ClientSends, ClientDrops,
                ForeignClose, NewProxy, ReleaseProxy, Only
  <2> QED
    BY <1>2, <2>1
<1>10. CASE UNCHANGED vars
  BY <1>2, <1>10 DEF vars
<1> QED
  BY <1>1, <1>3, <1>4, <1>5, <1>6, <1>7, <1>8, <1>9, <1>10 DEF Next, AppThread

\* Every step keeps the invariant.
LEMMA AppNextInv ==
  ASSUME AppInv, AppUsage, [Next]_vars
  PROVE  AppInv'
<1>1. config' = config /\ stop' \in Stops /\ sent' \in 0..MaxMsgs
  BY StopsStay
<1>2. AppOK(app', batch', checked')
  <2>1. CASE Tasks_
    BY <2>1, MetadataOK, AppCloseTaskOK, EndpointOK, EngineClosedOK, ClientTaskOK, ProxyTaskOK,
       AppInMsgsOK DEF Tasks_
  <2>2. CASE AppThread /\ ~Tasks_
    BY <2>2, HandleOK, ConfigureDoneOK, SetConfigureDoneOK, ContinueOK, InitDoneOK,
       SetInitDoneOK, UnregisteredOK, DeinitDoneOK, LoopEndsOK, OrphanClosedOK,
       ProtocolClosedOK DEF AppThread
  <2>3. CASE AddonCreatesEndpoint
    BY <2>3, AddonOK
  <2>4. ASSUME NEW e \in Engines,
               \/ EngineSends(e) \/ EngineStops(e)
               \/ ten_engine_handle_cmd_stop_graph(e) \/ ten_app_on_engine_closed(e)
        PROVE  AppOK(app', batch', checked')
    BY <2>4, EngineSendsOK, EngineStopsOK, OnEngineClosedOK
  <2>5. ASSUME NEW x \in Conns,
               ten_transport_on_client_accepted(x) \/ ClientSends(x) \/ ClientDrops(x)
        PROVE  AppOK(app', batch', checked')
    BY <2>5, AcceptedOK, ClientSendsOK, ClientDropsOK
  <2>6. CASE ForeignClose
    BY <2>6, ForeignCloseOK
  <2>7. ASSUME NEW x \in Proxies, NewProxy(x) \/ ReleaseProxy(x)
        PROVE  AppOK(app', batch', checked')
    BY <2>7, NewProxyOK, ReleaseProxyOK
  <2>8. CASE UNCHANGED vars
    BY <2>8 DEF vars, AppInv
  <2> QED
    BY <2>1, <2>2, <2>3, <2>4, <2>5, <2>6, <2>7, <2>8 DEF Next
<1>3. AppOK(app, batch, checked)'
  BY <1>1, <1>2, ConfigStays
<1>4. config' \in Config
  BY <1>1 DEF AppInv
<1> QED
  BY <1>1, <1>3, <1>4 DEF AppInv

\* The invariant gives the property.
LEMMA InvGives ==
  ASSUME AppInv
  PROVE  EndsLast
<1>1. app \in AppRecord /\ batch \in Seq(Messages) /\ checked \in {"no", "configure", "init"}
  <2>1. CASE Starts(app, batch, checked)
    <3>1. app \in AppRecord /\ batch = <<>> /\ checked \in {"no", "configure"}
      BY <2>1 DEF Starts, Empty, Phase
    <3> QED
      BY <3>1
  <2>2. CASE Good(app, batch, checked)
    BY <2>2 DEF Good
  <2> QED
    BY <2>1, <2>2 DEF AppInv, AppOK
<1>2. TypeOK
  BY <1>1 DEF AppInv, TypeOK, Config, Stops
<1>3. CASE Starts(app, batch, checked)
  <2>1. app.deinits = 0 /\ app.loop = "running"
    BY <1>3 DEF Starts
  <2> QED
    BY <1>2, <2>1 DEF EndsLast, DeinitAfterClosed, DeinitOnce, LoopStopsLast
<1>4. CASE Good(app, batch, checked)
  <2>1. Deinit(app) /\ (AllGone(app) <=> EnginesGone)
    BY <1>4 DEF Good, AllGone, EnginesGone
  <2>2. DeinitAfterClosed /\ DeinitOnce /\ LoopStopsLast
    BY <2>1 DEF Deinit, DeinitAfterClosed, DeinitOnce, LoopStopsLast
  <2> QED
    BY <1>2, <2>2 DEF EndsLast
<1> QED
  BY <1>3, <1>4 DEF AppInv, AppOK

\* The inductive invariant of the life of an app, for any number of engines,
\* connections, proxies and messages, in each of its configurations: while it
\* starts, state and callback determine each other; afterwards every task in
\* its queue, its endpoint, what it holds and a start_graph command on its way
\* fit its state.
THEOREM AppInvariance == AppUsage => (Spec => []AppInv)
<1> SUFFICES ASSUME AppUsage PROVE Spec => []AppInv
  OBVIOUS
<1>1. Init => AppInv
  BY AppInitInv
<1>2. AppInv /\ [Next]_vars => AppInv'
  BY AppNextInv
<1> QED
  BY <1>1, <1>2, PTL DEF Spec

\* on_deinit is called when no connection, no endpoint and, with engines in
\* their own loops, no engine is left, and once if the app has an endpoint; the
\* loop stops after on_deinit_done and after the last proxy, in whatever order
\* ten_app_on_orphan_connection_closed, ten_app_on_protocol_closed,
\* ten_app_check_termination_when_engine_closed and the task of ten_app_close
\* call ten_app_proceed_to_close.
THEOREM TheEnd == AppUsage => (Spec => []EndsLast)
<1>1. AppInv => EndsLast
  BY InvGives
<1> QED
  BY <1>1, AppInvariance, PTL

-----------------------------------------------------------------------------
(* The answers to stop_graph.                                              *)

\* Among the messages q is the answer that e is stopped.
Tells(q, e) == \E i \in 1..Len(q) : q[i] = <<"stop_ok", e>>

\* An answer that is on its way to the sender means that the engine is gone.
Honest(a, e) ==
  /\ "engines" \in DOMAIN a /\ "inMsgs" \in DOMAIN a /\ "queue" \in DOMAIN a
  /\ e \in DOMAIN a.engines /\ a.inMsgs \in Seq(Messages)
  /\ Tells(a.inMsgs, e) => a.engines[e] = "gone"

\* Nothing brings an engine back.
Later(a, r, e) == Honest(r, e) /\ (a.engines[e] = "gone" => r.engines[e] = "gone")

\* Pushing a message, and taking one.
LEMMA TellsQueue ==
  ASSUME NEW q \in Seq(Messages), NEW m \in Messages, NEW e
  PROVE  /\ ~Tells(<<>>, e)
         /\ Tells(Append(q, m), e) => Tells(q, e) \/ m = <<"stop_ok", e>>
         /\ q # <<>> /\ Tells(Tail(q), e) => Tells(q, e)
         /\ q # <<>> /\ Head(q) = <<"stop_ok", e>> => Tells(q, e)
<1>1. ~Tells(<<>>, e)
  BY DEF Tells
<1>2. ASSUME Tells(Append(q, m), e), m # <<"stop_ok", e>> PROVE Tells(q, e)
  <2>1. PICK i \in 1..Len(Append(q, m)) : Append(q, m)[i] = <<"stop_ok", e>>
    BY <1>2 DEF Tells
  <2>2. (i \in 1..Len(q) /\ Append(q, m)[i] = q[i]) \/ Append(q, m)[i] = m
    OBVIOUS
  <2> QED
    BY <1>2, <2>1, <2>2 DEF Tells
<1>3. ASSUME q # <<>>
      PROVE  (Tells(Tail(q), e) => Tells(q, e)) /\ (Head(q) = <<"stop_ok", e>> => Tells(q, e))
  <2> DEFINE t == Tail(q)
  <2>1. /\ Len(q) \in Nat /\ Len(q) >= 1 /\ Len(t) = Len(q) - 1 /\ q[1] = Head(q)
        /\ \A i \in 1..Len(t) : t[i] = q[i + 1]
    BY <1>3, HeadTailProperties
  <2> HIDE DEF t
  <2>2. 1 \in 1..Len(q) /\ \A i \in 1..Len(t) : i + 1 \in 1..Len(q)
    BY <2>1
  <2> QED
    BY <2>1, <2>2 DEF Tells, t
<1> QED
  BY <1>1, <1>2, <1>3

\* A step that leaves the engines and the messages alone.
LEMMA AloneLater ==
  ASSUME NEW a, NEW e, Honest(a, e)
  PROVE  /\ Later(a, a, e)
         /\ \A v : Later(a, [a EXCEPT !.queue = v], e) /\ Later(a, [a EXCEPT !.pending = v], e)
         /\ \A v : Later(a, [a EXCEPT !.orphans = v], e) /\ Later(a, [a EXCEPT !.proxies = v], e)
         /\ \A v : Later(a, [a EXCEPT !.endpoint = v], e) /\ Later(a, [a EXCEPT !.state = v], e)
         /\ \A v : Later(a, [a EXCEPT !.loop = v], e)
         /\ \A v : Later(a, [a EXCEPT !.late = v], e)
         /\ Later(a, ten_app_on_deinit(a), e)
<1>1. Later(a, a, e)
  BY DEF Later
<1>2. ASSUME NEW r, r.engines = a.engines, r.inMsgs = a.inMsgs, DOMAIN r = DOMAIN a
      PROVE  Later(a, r, e)
  BY <1>2 DEF Later, Honest
<1>3. \A v : Later(a, [a EXCEPT !.queue = v], e) /\ Later(a, [a EXCEPT !.pending = v], e)
  BY <1>2 DEF Honest
<1>4. \A v : Later(a, [a EXCEPT !.orphans = v], e) /\ Later(a, [a EXCEPT !.proxies = v], e)
  BY <1>2 DEF Honest
<1>5. \A v : Later(a, [a EXCEPT !.endpoint = v], e) /\ Later(a, [a EXCEPT !.state = v], e)
  BY <1>2 DEF Honest
<1>6. \A v : Later(a, [a EXCEPT !.loop = v], e) /\ Later(a, [a EXCEPT !.late = v], e)
  BY <1>2 DEF Honest
<1>7. Later(a, ten_app_on_deinit(a), e)
  BY <1>2 DEF Honest, ten_app_on_deinit
<1> QED
  BY <1>1, <1>3, <1>4, <1>5, <1>6, <1>7

\* One step after the other.
LEMMA LaterAgain ==
  ASSUME NEW a, NEW b, NEW r, NEW e, Later(a, b, e), Honest(b, e) => Later(b, r, e)
  PROVE  Later(a, r, e)
  BY DEF Later

\* An engine that is not gone changes, or one is gone.
LEMMA EngineLater ==
  ASSUME NEW a, NEW e, Honest(a, e), NEW f, NEW v, a.engines[f] # "gone" \/ v = "gone"
  PROVE  Later(a, [a EXCEPT !.engines[f] = v], e)
<1> DEFINE g == [a.engines EXCEPT ![f] = v]
           r == [a EXCEPT !.engines = g]
<1>1. e \in DOMAIN g /\ (a.engines[e] = "gone" => g[e] = "gone")
  BY DEF Honest
<1>2. [a EXCEPT !.engines[f] = v] = r
  OBVIOUS
<1> HIDE DEF g
<1>3. r.engines = g /\ r.inMsgs = a.inMsgs /\ DOMAIN r = DOMAIN a
  BY DEF Honest
<1> HIDE DEF r
<1>4. Later(a, r, e)
  BY <1>1, <1>3 DEF Later, Honest
<1> QED
  BY <1>2, <1>4

\* A message is pushed.
LEMMA PushLater ==
  ASSUME NEW a, NEW e, Honest(a, e), NEW m \in Messages,
         m = <<"stop_ok", e>> => a.engines[e] = "gone"
  PROVE  Later(a, PushInMsg(a, m), e)
<1> DEFINE w == Append(a.inMsgs, m)
           z == [a EXCEPT !.inMsgs = w]
<1>1. w \in Seq(Messages) /\ (Tells(w, e) => Tells(a.inMsgs, e) \/ m = <<"stop_ok", e>>)
  BY TellsQueue DEF Honest
<1>2. PushInMsg(a, m) = Post(z, <<"in_msgs">>)
  BY DEF PushInMsg
<1> HIDE DEF w
<1>3. z.engines = a.engines /\ z.inMsgs = w /\ DOMAIN z = DOMAIN a
  BY DEF Honest
<1> HIDE DEF z
<1>4. Later(a, z, e)
  BY <1>1, <1>3 DEF Later, Honest
<1>5. Honest(z, e) => Later(z, Post(z, <<"in_msgs">>), e)
  BY AloneLater DEF Post
<1> QED
  BY <1>2, <1>4, <1>5, LaterAgain

\* The other operators.
LEMMA OperatorsLater ==
  ASSUME NEW a, NEW e \in Engines, Honest(a, e)
  PROVE  /\ \A x : Later(a, Post(a, x), e)
         /\ Later(a, ten_runloop_stop(a), e) /\ Later(a, ten_app_close(a), e)
         /\ Later(a, ProceedIfClosing(a), e) /\ Later(a, ten_app_close_task(a), e)
         /\ \A f : Later(a, StartGraph(a, f), e)
<1>1. \A x : Later(a, Post(a, x), e)
  BY AloneLater DEF Post
<1>2. Later(a, ten_runloop_stop(a), e)
  BY AloneLater DEF ten_runloop_stop
<1>3. Later(a, ten_app_close(a), e)
  <2> DEFINE z == [a EXCEPT !.state = "CLOSING"]
  <2>1. Later(a, z, e)
    BY AloneLater
  <2>2. ten_app_close(a) = a \/ ten_app_close(a) = Post(z, <<"close">>)
    BY DEF ten_app_close
  <2> HIDE DEF z
  <2>3. Honest(z, e) => Later(z, Post(z, <<"close">>), e)
    BY AloneLater DEF Post
  <2>4. Later(a, Post(z, <<"close">>), e)
    BY <2>1, <2>3, LaterAgain
  <2> QED
    BY <2>2, <2>4, AloneLater
<1>4. Later(a, ProceedIfClosing(a), e)
  BY AloneLater DEF ProceedIfClosing, ten_app_proceed_to_close
<1>5. Later(a, ten_app_close_sync(a), e)
  <2> DEFINE g == [x \in Engines |-> IF a.engines[x] = "running" THEN "closing" ELSE a.engines[x]]
             r == ten_app_close_sync(a)
  <2>1. r.engines = g /\ r.inMsgs = a.inMsgs /\ DOMAIN r = DOMAIN a
    BY DEF ten_app_close_sync, Honest
  <2>2. e \in DOMAIN g /\ (a.engines[e] = "gone" => g[e] = "gone")
    OBVIOUS
  <2> HIDE DEF g, r
  <2>3. Later(a, r, e)
    BY <2>1, <2>2 DEF Later, Honest
  <2> QED
    BY <2>3 DEF r
<1>6. Later(a, ten_app_close_task(a), e)
  BY <1>5, AloneLater DEF ten_app_close_task, ten_app_proceed_to_close
<1>7. ASSUME NEW f PROVE Later(a, StartGraph(a, f), e)
  <2> DEFINE z == [a EXCEPT !.engines[f] = "running"]
             l == HasCloseRun(a)
  <2>1. CASE a.engines[f] # "none"
    BY <2>1, AloneLater DEF StartGraph
  <2>2. CASE a.engines[f] = "none"
    <3>1. Later(a, z, e)
      BY <2>2, EngineLater
    <3>2. StartGraph(a, f) = [z EXCEPT !.late = @ \/ l]
      <4> HIDE DEF l
      <4>1. StartGraph(a, f) = [a EXCEPT !.engines[f] = "running", !.late = @ \/ l]
        BY <2>2 DEF StartGraph, l
      <4> QED
        BY <4>1
    <3> HIDE DEF z, l
    <3>3. Honest(z, e) => Later(z, [z EXCEPT !.late = @ \/ l], e)
      BY AloneLater
    <3> QED
      BY <3>1, <3>2, <3>3, LaterAgain
  <2> QED
    BY <2>1, <2>2
<1> QED
  BY <1>1, <1>2, <1>3, <1>4, <1>6, <1>7

\* An engine is gone, and its stop_graph command is answered.
LEMMA TermLater ==
  ASSUME NEW a, NEW e \in Engines, Honest(a, e), NEW f \in Engines
  PROVE  Later(a, ten_app_check_termination_when_engine_closed(a, f), e)
<1> DEFINE told == IF stop[f] = "kept" THEN PushInMsg(a, <<"stop_ok", f>>) ELSE a
           gone == [told EXCEPT !.engines[f] = "gone"]
           last == \A g \in Engines : gone.engines[g] \in {"none", "gone"}
           z == IF ~config.longRunning /\ last THEN ten_app_close(gone) ELSE gone
<1>1. ten_app_check_termination_when_engine_closed(a, f) = ProceedIfClosing(z)
  BY DEF ten_app_check_termination_when_engine_closed
<1>2. <<"stop_ok", f>> \in Messages
  BY DEF Messages
<1>3. Later(a, gone, e)
  <2>1. CASE stop[f] # "kept" \/ e # f
    <3>1. Later(a, told, e)
      BY <1>2, <2>1, AloneLater, PushLater
    <3> HIDE DEF told
    <3>2. Honest(told, e) => Later(told, gone, e)
      BY EngineLater
    <3> HIDE DEF gone
    <3> QED
      BY <3>1, <3>2, LaterAgain
  <2>2. CASE stop[f] = "kept" /\ e = f
    <3> DEFINE w == Append(a.inMsgs, <<"stop_ok", f>>)
               y == [a EXCEPT !.inMsgs = w]
    <3>1. told = Post(y, <<"in_msgs">>)
      BY <2>2 DEF PushInMsg
    <3>2. w \in Seq(Messages)
      BY <1>2 DEF Honest
    <3> HIDE DEF w, told
    <3>3. y.engines = a.engines /\ y.inMsgs = w /\ DOMAIN y = DOMAIN a
      BY DEF Honest
    <3> HIDE DEF y
    <3>4. told.engines = a.engines /\ told.inMsgs = w /\ DOMAIN told = DOMAIN a
      BY <3>1, <3>3 DEF Honest, Post
    <3>5. /\ gone.engines = [a.engines EXCEPT ![e] = "gone"] /\ gone.inMsgs = w
          /\ DOMAIN gone = DOMAIN a
      BY <2>2, <3>4 DEF Honest
    <3>6. /\ e \in DOMAIN [a.engines EXCEPT ![e] = "gone"]
          /\ [a.engines EXCEPT ![e] = "gone"][e] = "gone"
      BY DEF Honest
    <3> HIDE DEF gone
    <3> QED
      BY <3>2, <3>5, <3>6 DEF Later, Honest
  <2> QED
    BY <2>1, <2>2
<1> HIDE DEF told, gone, last
<1>4. Later(a, z, e)
  <2>1. Honest(gone, e) => Later(gone, ten_app_close(gone), e)
    BY OperatorsLater
  <2>2. Later(a, ten_app_close(gone), e)
    BY <1>3, <2>1, LaterAgain
  <2> QED
    BY <1>3, <2>2
<1> HIDE DEF z
<1>5. Honest(z, e) => Later(z, ProceedIfClosing(z), e)
  BY OperatorsLater
<1> QED
  BY <1>1, <1>4, <1>5, LaterAgain

\* The steps of a start, which set several fields at once.
LEMMA StartLater ==
  ASSUME NEW a, NEW e \in Engines, Honest(a, e)
  PROVE  /\ Later(a, TriggerOnInit(a), e) /\ Later(a, ten_app_on_configure(a), e)
         /\ \A st, p : Later(a, [a EXCEPT !.state = st, !.pending = p], e)
         /\ \A st, p : Later(a, [a EXCEPT !.orphans = st, !.late = p], e)
<1>1. ASSUME NEW r, r.engines = a.engines, r.inMsgs = a.inMsgs, DOMAIN r = DOMAIN a
      PROVE  Later(a, r, e)
  BY <1>1 DEF Later, Honest
<1>2. \A st, p : Later(a, [a EXCEPT !.state = st, !.pending = p], e)
  BY <1>1 DEF Honest
<1>3. \A st, p : Later(a, [a EXCEPT !.orphans = st, !.late = p], e)
  BY <1>1 DEF Honest
<1>4. Later(a, ten_app_on_configure(a), e)
  BY <1>1 DEF Honest, ten_app_on_configure
<1>5. Later(a, TriggerOnInit(a), e)
  <2> DEFINE g == [x \in Engines |-> IF x \in AutoStart /\ a.engines[x] = "none"
                                     THEN "running" ELSE a.engines[x]]
             r == TriggerOnInit(a)
  <2>1. r.engines = g /\ r.inMsgs = a.inMsgs /\ DOMAIN r = DOMAIN a
    BY DEF TriggerOnInit, Honest
  <2>2. e \in DOMAIN g /\ (a.engines[e] = "gone" => g[e] = "gone")
    OBVIOUS
  <2> HIDE DEF g, r
  <2>3. Later(a, r, e)
    BY <2>1, <2>2 DEF Later, Honest
  <2> QED
    BY <2>3 DEF r
<1> QED
  BY <1>2, <1>3, <1>4, <1>5

\* A task of the app.
LEMMA TasksLater ==
  ASSUME AppInv, NEW e \in Engines, Honest(app, e), Tasks_
  PROVE  Later(app, app', e)
<1>1. Later(app, Rest, e)
  BY AloneLater DEF Rest
<1>2. ASSUME NEW r, Honest(Rest, e) => Later(Rest, r, e) PROVE Later(app, r, e)
  BY <1>1, <1>2, LaterAgain
<1>3. CASE ten_app_handle_metadata_task
  BY <1>2, <1>3, StartLater DEF ten_app_handle_metadata_task, Only
<1>4. CASE CloseTask
  BY <1>2, <1>4, OperatorsLater DEF CloseTask, Only
<1>5. CASE EndpointTask
  <2> DEFINE y == [Rest EXCEPT !.endpoint = "listening"]
             z == [Rest EXCEPT !.endpoint = "none"]
  <2>1. Later(app, y, e) /\ Later(app, z, e)
    BY <1>2, AloneLater
  <2>2. app' = TriggerOnInit(y) \/ app' = ten_app_close(z)
    BY <1>5 DEF EndpointTask, Only, ten_app_on_endpoint_protocol_created
  <2> HIDE DEF y, z
  <2>3. /\ Honest(y, e) => Later(y, TriggerOnInit(y), e)
        /\ Honest(z, e) => Later(z, ten_app_close(z), e)
    BY StartLater, OperatorsLater
  <2>4. Later(app, TriggerOnInit(y), e) /\ Later(app, ten_app_close(z), e)
    BY <2>1, <2>3, LaterAgain
  <2> QED
    BY <2>2, <2>4
<1>6. CASE EngineClosedTask
  <2> DEFINE f == Head(app.queue)[2]
  <2>1. /\ Runs("engine_closed")
        /\ app' = ten_app_check_termination_when_engine_closed(Rest, f)
    BY <1>6 DEF EngineClosedTask, Only
  <2>2. Head(app.queue) \in Tasks /\ Head(app.queue)[1] = "engine_closed"
    BY <2>1, TakeTask
  <2>3. f \in Engines
    BY <2>2, TaskForms
  <2> HIDE DEF f
  <2> QED
    BY <1>2, <2>1, <2>3, TermLater
<1>7. CASE ten_app_thread_on_client_protocol_created
  <2> DEFINE x == Head(app.queue)[2]
             l == HasCloseRun(app)
             z == [Rest EXCEPT !.orphans[x] = "open"]
  <2>1. app' = [Rest EXCEPT !.orphans[x] = "open", !.late = @ \/ l]
    BY <1>7 DEF ten_app_thread_on_client_protocol_created, Only
  <2> HIDE DEF x, l
  <2>2. app' = [Rest EXCEPT !.orphans = [Rest.orphans EXCEPT ![x] = "open"],
                            !.late = Rest.late \/ l]
    BY <2>1
  <2> QED
    BY <1>2, <2>2, StartLater
<1>8. CASE ProxyTask
  <2> DEFINE x == Head(app.queue)[2]
             z == [Rest EXCEPT !.proxies = [Rest.proxies EXCEPT ![x] = "gone"]]
  <2>1. Later(app, z, e)
    BY <1>2, AloneLater
  <2>2. app' = z \/ app' = ten_runloop_stop(z)
    BY <1>8 DEF ProxyTask, Only, ten_env_delete_ten_proxy
  <2> HIDE DEF x, z
  <2>3. Honest(z, e) => Later(z, ten_runloop_stop(z), e)
    BY OperatorsLater
  <2>4. Later(app, ten_runloop_stop(z), e)
    BY <2>1, <2>3, LaterAgain
  <2> QED
    BY <2>1, <2>2, <2>4
<1>9. CASE InMsgsTask
  <2>1. app' = [Rest EXCEPT !.inMsgs = <<>>]
    BY <1>9 DEF InMsgsTask
  <2>2. Honest(Rest, e)
    BY <1>1 DEF Later
  <2>3. app'.engines = Rest.engines /\ app'.inMsgs = <<>> /\ DOMAIN app' = DOMAIN Rest
    BY <2>1, <2>2 DEF Honest
  <2>4. ~Tells(<<>>, e) /\ <<>> \in Seq(Messages)
    BY DEF Tells
  <2>5. Later(Rest, app', e)
    BY <2>2, <2>3, <2>4 DEF Later, Honest
  <2> QED
    BY <1>2, <2>5
<1> QED
  BY <1>3, <1>4, <1>5, <1>6, <1>7, <1>8, <1>9 DEF Tasks_

\* A message is handled: the answers to stop_graph that it pushes are errors.
LEMMA HandleLater ==
  ASSUME AppInv, NEW e \in Engines, Honest(app, e), ten_app_handle_in_msg
  PROVE  Later(app, app', e)
<1> DEFINE m == Head(batch)
<1>1. batch # <<>> /\ batch \in Seq(Messages)
  BY DEF ten_app_handle_in_msg, AppInv, AppOK, Starts, Empty, Good
<1>2. m \in Messages
  BY <1>1
<1>3. \/ app' = StartGraph(app, m[2])
      \/ m[1] = "stop_graph" /\ app' = PushInMsg(app, <<"stop_error", m[2]>>)
      \/ app' = ten_app_close(app)
      \/ app' = app
  BY DEF ten_app_handle_in_msg, ten_app_handle_stop_graph_cmd
<1> HIDE DEF m
<1>4. CASE m[1] = "stop_graph" /\ app' = PushInMsg(app, <<"stop_error", m[2]>>)
  <2>1. <<"stop_error", m[2]>> \in Messages /\ <<"stop_error", m[2]>> # <<"stop_ok", e>>
    BY <1>2, <1>4, MessageForms
  <2> QED
    BY <1>4, <2>1, PushLater
<1> QED
  BY <1>3, <1>4, OperatorsLater, AloneLater

\* A step of an engine.
LEMMA EngineStepLater ==
  ASSUME AppInv, NEW e \in Engines, Honest(app, e), NEW f \in Engines,
         \/ EngineSends(f) \/ EngineStops(f)
         \/ ten_engine_handle_cmd_stop_graph(f) \/ ten_app_on_engine_closed(f)
  PROVE  Later(app, app', e)
<1>1. CASE EngineSends(f)
  <2>1. /\ \A g \in Engines :
             <<"start_graph", g>> \in Messages /\ <<"stop_graph", g>> \in Messages
        /\ <<"close_app">> \in Messages /\ <<"start_failed">> \in Messages
    BY DEF Messages
  <2>2. PICK m \in Messages : app' = PushInMsg(app, m) /\ m[1] # "stop_ok"
    BY <1>1, <2>1 DEF EngineSends
  <2>3. m # <<"stop_ok", e>>
    BY <2>2
  <2> QED
    BY <2>2, <2>3, PushLater
<1>2. CASE EngineStops(f) \/ ten_engine_handle_cmd_stop_graph(f)
  BY <1>2, EngineLater DEF EngineStops, ten_engine_handle_cmd_stop_graph, Only, Alive
<1>3. CASE ten_app_on_engine_closed(f)
  <2> DEFINE z == [app EXCEPT !.engines[f] = "closed"]
  <2>1. Later(app, z, e)
    BY <1>3, EngineLater DEF ten_app_on_engine_closed
  <2>2. \/ app' = Post(z, <<"engine_closed", f>>)
        \/ app' = ten_app_check_termination_when_engine_closed(app, f)
    BY <1>3 DEF ten_app_on_engine_closed
  <2> HIDE DEF z
  <2>3. Honest(z, e) => Later(z, Post(z, <<"engine_closed", f>>), e)
    BY OperatorsLater
  <2>4. Later(app, Post(z, <<"engine_closed", f>>), e)
    BY <2>1, <2>3, LaterAgain
  <2> QED
    BY <2>2, <2>4, TermLater
<1> QED
  BY <1>1, <1>2, <1>3

\* A step of a connection, of the endpoint, of a proxy, or of another thread.
LEMMA OthersLater ==
  ASSUME NEW e \in Engines, Honest(app, e),
         \/ AddonCreatesEndpoint \/ ForeignClose \/ ten_app_on_protocol_closed
         \/ \E c \in Conns :
              \/ ten_app_on_orphan_connection_closed(c)
              \/ ten_transport_on_client_accepted(c) \/ ClientSends(c) \/ ClientDrops(c)
         \/ \E p \in Proxies : NewProxy(p) \/ ReleaseProxy(p)
  PROVE  Later(app, app', e)
<1>1. CASE AddonCreatesEndpoint \/ ForeignClose
  BY <1>1, OperatorsLater DEF AddonCreatesEndpoint, ForeignClose, Only
<1>2. ASSUME NEW z, Later(app, z, e)
      PROVE  /\ \A x : Later(app, Post(z, x), e) /\ Later(app, StartGraph(z, x), e)
             /\ Later(app, ProceedIfClosing(z), e)
  <2>1. Honest(z, e) => /\ \A x : Later(z, Post(z, x), e) /\ Later(z, StartGraph(z, x), e)
                        /\ Later(z, ProceedIfClosing(z), e)
    BY OperatorsLater
  <2> QED
    BY <1>2, <2>1, LaterAgain
<1>3. CASE ten_app_on_protocol_closed
  <2> DEFINE z == [app EXCEPT !.endpoint = "closed"]
  <2>1. Later(app, z, e) /\ app' = ProceedIfClosing(z)
    BY <1>3, AloneLater DEF ten_app_on_protocol_closed, Only
  <2> HIDE DEF z
  <2> QED
    BY <1>2, <2>1
<1>4. ASSUME NEW x \in Conns,
             \/ ten_app_on_orphan_connection_closed(x)
             \/ ten_transport_on_client_accepted(x) \/ ClientSends(x) \/ ClientDrops(x)
      PROVE  Later(app, app', e)
  <2> DEFINE z(v) == [app EXCEPT !.orphans = [app.orphans EXCEPT ![x] = v]]
  <2>1. \A v : Later(app, z(v), e) /\ z(v) = [app EXCEPT !.orphans[x] = v]
    BY AloneLater
  <2>2. \/ app' = ProceedIfClosing(z("gone")) \/ app' = Post(z("accepted"), <<"client", x>>)
        \/ \E f : app' = StartGraph(z("gone"), f)
        \/ app' = ten_app_close(app) \/ app' = z("closing")
    BY <1>4, <2>1 DEF ten_app_on_orphan_connection_closed, ten_transport_on_client_accepted,
                      ClientSends, ClientDrops, Only
  <2> HIDE DEF z
  <2> QED
    BY <1>2, <2>1, <2>2, OperatorsLater
<1>5. ASSUME NEW p \in Proxies, NewProxy(p) \/ ReleaseProxy(p)
      PROVE  Later(app, app', e)
  <2> DEFINE z(v) == [app EXCEPT !.proxies = [app.proxies EXCEPT ![p] = v]]
  <2>1. \A v : Later(app, z(v), e) /\ z(v) = [app EXCEPT !.proxies[p] = v]
    BY AloneLater
  <2>2. app' = z("held") \/ app' = Post(z("releasing"), <<"proxy", p>>)
    BY <1>5, <2>1 DEF NewProxy, ReleaseProxy, Only
  <2> HIDE DEF z
  <2> QED
    BY <1>2, <2>1, <2>2
<1> QED
  BY <1>1, <1>3, <1>4, <1>5

\* An answer of the program to a callback, and the end of the loop.
LEMMA AnswersLater ==
  ASSUME NEW e \in Engines, Honest(app, e),
         \/ ten_app_on_configure_done \/ SetConfigureDone \/ ContinueRun
         \/ ten_app_on_init_done \/ SetInitDone
         \/ ten_app_on_all_addons_unregistered \/ ten_app_on_deinit_done \/ LoopEnds
  PROVE  Later(app, app', e)
<1>1. CASE \/ ten_app_on_configure_done \/ ten_app_on_init_done
           \/ ten_app_on_all_addons_unregistered
  <2>1. PICK v : app' = [app EXCEPT !.pending = v]
    BY <1>1 DEF ten_app_on_configure_done, ten_app_on_init_done,
                ten_app_on_all_addons_unregistered, Only
  <2> QED
    BY <2>1, AloneLater
<1>2. CASE SetConfigureDone
  BY <1>2, StartLater DEF SetConfigureDone
<1>3. CASE SetInitDone \/ LoopEnds
  <2>1. \/ app' = [app EXCEPT !.state = "ON_INIT_DONE"]
        \/ app' = [app EXCEPT !.loop = "stopped"]
    BY <1>3 DEF SetInitDone, LoopEnds, Only
  <2>2. /\ Later(app, [app EXCEPT !.state = "ON_INIT_DONE"], e)
        /\ Later(app, [app EXCEPT !.loop = "stopped"], e)
    BY AloneLater
  <2> QED
    BY <2>1, <2>2
<1>4. CASE ContinueRun
  <2> DEFINE a == [app EXCEPT !.pending = @ \ {"load"}]
  <2>1. Later(app, a, e)
    BY AloneLater
  <2>2. \/ app' = ten_app_close(a) \/ app' = [a EXCEPT !.endpoint = "creating"]
        \/ app' = TriggerOnInit(a)
    BY <1>4 DEF ContinueRun, Only
  <2> HIDE DEF a
  <2>3. ASSUME Honest(a, e) PROVE Later(a, app', e)
    <3>1. Later(a, ten_app_close(a), e)
      BY <2>3, OperatorsLater
    <3>2. Later(a, [a EXCEPT !.endpoint = "creating"], e)
      BY <2>3, AloneLater
    <3>3. Later(a, TriggerOnInit(a), e)
      BY <2>3, StartLater
    <3> QED
      BY <2>2, <3>1, <3>2, <3>3
  <2> QED
    BY <2>1, <2>3, LaterAgain
<1>5. CASE ten_app_on_deinit_done
  <2> DEFINE a == [app EXCEPT !.pending = @ \ {"deinit"}]
             d == [a EXCEPT !.state = "ON_DEINIT_DONE"]
  <2>1. Later(app, a, e)
    BY AloneLater
  <2>2. app' = a \/ app' = d \/ app' = ten_runloop_stop(d)
    BY <1>5 DEF ten_app_on_deinit_done, Only
  <2> HIDE DEF a
  <2>3. Later(app, d, e)
    <3>1. Honest(a, e) => Later(a, d, e)
      BY AloneLater
    <3> QED
      BY <2>1, <3>1, LaterAgain
  <2> HIDE DEF d
  <2>4. Honest(d, e) => Later(d, ten_runloop_stop(d), e)
    BY OperatorsLater
  <2>5. Later(app, ten_runloop_stop(d), e)
    BY <2>3, <2>4, LaterAgain
  <2> QED
    BY <2>1, <2>2, <2>3, <2>5
<1> QED
  BY <1>1, <1>2, <1>3, <1>4, <1>5

\* The answers that are on their way, that are being handled and that have
\* arrived: they all name an engine that is gone.
Answered ==
  \A e \in Engines :
    /\ Honest(app, e)
    /\ Tells(batch, e) \/ stop[e] = "ok" => app.engines[e] = "gone"

\* Initially no answer is there.
LEMMA InitAnswered ==
  ASSUME Init
  PROVE  Answered
<1> SUFFICES ASSUME NEW e \in Engines
             PROVE  /\ Honest(app, e)
                    /\ Tells(batch, e) \/ stop[e] = "ok" => app.engines[e] = "gone"
  BY DEF Answered
<1>1. /\ "engines" \in DOMAIN app /\ "inMsgs" \in DOMAIN app /\ "queue" \in DOMAIN app
      /\ app.engines = [f \in Engines |-> "none"] /\ app.inMsgs = <<>>
      /\ batch = <<>> /\ stop[e] = "none"
  BY DEF Init
<1>2. <<>> \in Seq(Messages) /\ ~Tells(<<>>, e)
  BY DEF Tells
<1> QED
  BY <1>1, <1>2 DEF Honest

\* Where a stop_graph command gets its answer from.
LEMMA StopOk ==
  ASSUME AppInv, NEW e \in Engines, [Next]_vars, stop'[e] = "ok", stop[e] # "ok"
  PROVE  batch # <<>> /\ Head(batch) = <<"stop_ok", e>>
<1>1. stop \in Stops
  BY DEF AppInv
<1>2. stop' # stop
  OBVIOUS
<1>3. ASSUME NEW f \in Engines
      PROVE  ~EngineSends(f) /\ ~ten_engine_handle_cmd_stop_graph(f)
                             /\ ~ten_app_on_engine_closed(f)
  <2>1. ~EngineSends(f)
    BY <1>1 DEF EngineSends, Stops
  <2>2. ~ten_engine_handle_cmd_stop_graph(f)
    BY <1>1 DEF ten_engine_handle_cmd_stop_graph, Stops
  <2>3. ~ten_app_on_engine_closed(f)
    BY <1>1 DEF ten_app_on_engine_closed, Stops
  <2> QED
    BY <2>1, <2>2, <2>3
<1>4. ~Tasks_
  BY <1>2 DEF Tasks_, ten_app_handle_metadata_task, CloseTask, EndpointTask, EngineClosedTask,
              ten_app_thread_on_client_protocol_created, ProxyTask, InMsgsTask, Only
<1>5. ~(\/ ten_app_on_configure_done \/ SetConfigureDone \/ ContinueRun
        \/ ten_app_on_init_done \/ SetInitDone \/ ten_app_on_all_addons_unregistered
        \/ ten_app_on_deinit_done \/ LoopEnds
        \/ \E c \in Conns : ten_app_on_orphan_connection_closed(c)
        \/ ten_app_on_protocol_closed \/ AddonCreatesEndpoint)
  BY <1>2 DEF ten_app_on_configure_done, SetConfigureDone, ContinueRun,
              ten_app_on_init_done, SetInitDone, ten_app_on_all_addons_unregistered,
              ten_app_on_deinit_done, LoopEnds, ten_app_on_orphan_connection_closed,
              ten_app_on_protocol_closed, AddonCreatesEndpoint, Only
<1>6. ~(\/ \E f \in Engines : EngineStops(f)
        \/ \E c \in Conns :
             ten_transport_on_client_accepted(c) \/ ClientSends(c) \/ ClientDrops(c)
        \/ ForeignClose
        \/ \E p \in Proxies : NewProxy(p) \/ ReleaseProxy(p))
  BY <1>2 DEF EngineStops, ten_transport_on_client_accepted, ClientSends, ClientDrops,
              ForeignClose, NewProxy, ReleaseProxy, Only
<1>7. ten_app_handle_in_msg
  BY <1>2, <1>3, <1>4, <1>5, <1>6 DEF Next, AppThread, vars
<1> DEFINE m == Head(batch)
<1>8. batch # <<>> /\ batch \in Seq(Messages)
  BY <1>7 DEF ten_app_handle_in_msg, AppInv, AppOK, Starts, Empty, Good
<1>9. m \in Messages
  BY <1>8
<1>10. \/ stop' = [stop EXCEPT ![m[2]] = "mail"]
       \/ m[1] = "stop_ok" /\ stop' = [stop EXCEPT ![m[2]] = "ok"]
       \/ stop' = [stop EXCEPT ![m[2]] = "error"]
  BY <1>2, <1>7 DEF ten_app_handle_in_msg
<1> HIDE DEF m
<1>11. m[1] = "stop_ok" /\ m[2] = e
  BY <1>1, <1>10 DEF Stops
<1>12. m = <<"stop_ok", e>>
  BY <1>9, <1>11 DEF Messages
<1> QED
  BY <1>8, <1>12 DEF m

\* The batch holds messages.
LEMMA BatchIsSeq ==
  ASSUME AppInv
  PROVE  batch \in Seq(Messages)
<1>1. batch = <<>> \/ batch \in Seq(Messages)
  BY DEF AppInv, AppOK, Starts, Empty, Good
<1>2. <<>> \in Seq(Messages)
  OBVIOUS
<1> QED
  BY <1>1, <1>2, Zenon

\* What the batch tells.
LEMMA BatchTells ==
  ASSUME AppInv, NEW e, [Next]_vars, Tells(batch', e)
  PROVE  Tells(batch, e) \/ Tells(app.inMsgs, e)
<1>1. batch \in Seq(Messages)
  BY BatchIsSeq
<1>2. CASE batch' = batch
  BY <1>2
<1>3. CASE InMsgsTask
  BY <1>3 DEF InMsgsTask
<1>4. CASE ten_app_handle_in_msg
  <2>1. batch # <<>> /\ batch' = Tail(batch)
    BY <1>4 DEF ten_app_handle_in_msg
  <2>2. <<"close_app">> \in Messages
    BY DEF Messages
  <2> QED
    BY <1>1, <2>1, <2>2, TellsQueue
<1>5. CASE Tasks_
  BY <1>2, <1>3, <1>5
     DEF Tasks_, ten_app_handle_metadata_task, CloseTask, EndpointTask, EngineClosedTask,
         ten_app_thread_on_client_protocol_created, ProxyTask, Only
<1>6. CASE \/ ten_app_on_configure_done \/ SetConfigureDone \/ ContinueRun
           \/ ten_app_on_init_done \/ SetInitDone \/ ten_app_on_all_addons_unregistered
           \/ ten_app_on_deinit_done \/ LoopEnds
           \/ \E c \in Conns : ten_app_on_orphan_connection_closed(c)
           \/ ten_app_on_protocol_closed \/ AddonCreatesEndpoint
  BY <1>2, <1>6 DEF ten_app_on_configure_done, SetConfigureDone, ContinueRun,
              ten_app_on_init_done, SetInitDone, ten_app_on_all_addons_unregistered,
              ten_app_on_deinit_done, LoopEnds, ten_app_on_orphan_connection_closed,
              ten_app_on_protocol_closed, AddonCreatesEndpoint, Only
<1>7. CASE \E f \in Engines :
             \/ EngineSends(f) \/ EngineStops(f)
             \/ ten_engine_handle_cmd_stop_graph(f) \/ ten_app_on_engine_closed(f)
  BY <1>2, <1>7 DEF EngineSends, EngineStops, ten_engine_handle_cmd_stop_graph,
                    ten_app_on_engine_closed, Only
<1>8. CASE \/ \E c \in Conns :
                ten_transport_on_client_accepted(c) \/ ClientSends(c) \/ ClientDrops(c)
           \/ ForeignClose
           \/ \E p \in Proxies : NewProxy(p) \/ ReleaseProxy(p)
  BY <1>2, <1>8 DEF ten_transport_on_client_accepted, ClientSends, ClientDrops,
              ForeignClose, NewProxy, ReleaseProxy, Only
<1> QED
  BY <1>2, <1>4, <1>5, <1>6, <1>7, <1>8 DEF Next, AppThread, vars

\* Every step keeps the answers true.
LEMMA NextAnswered ==
  ASSUME AppInv, Answered, [Next]_vars
  PROVE  Answered'
<1> SUFFICES ASSUME NEW e \in Engines
             PROVE  /\ Honest(app', e)
                    /\ Tells(batch', e) \/ stop'[e] = "ok" => app'.engines[e] = "gone"
  BY DEF Answered, Honest, Tells, Messages
<1>1. Honest(app, e) /\ (Tells(batch, e) \/ stop[e] = "ok" => app.engines[e] = "gone")
  BY DEF Answered
<1>2. Later(app, app', e)
  <2>1. CASE UNCHANGED vars
    BY <1>1, <2>1, AloneLater DEF vars
  <2>2. CASE Next
    BY <1>1, <2>2, TasksLater, HandleLater, EngineStepLater, OthersLater, AnswersLater
       DEF Next, AppThread
  <2> QED
    BY <2>1, <2>2
<1>3. Tells(batch', e) => app.engines[e] = "gone"
  BY <1>1, BatchTells DEF Honest
<1>4. stop'[e] = "ok" => app.engines[e] = "gone"
  <2>1. batch \in Seq(Messages) /\ <<"close_app">> \in Messages
    BY BatchIsSeq DEF Messages
  <2>2. batch # <<>> /\ Head(batch) = <<"stop_ok", e>> => Tells(batch, e)
    BY <2>1, TellsQueue
  <2> QED
    BY <1>1, <2>2, StopOk
<1> QED
  BY <1>2, <1>3, <1>4 DEF Later

\* A stop_graph command that another graph has sent is answered with success
\* only when the graph it names is gone, for any number of engines: the answer
\* is put on the app's queue by the step that takes the engine off its list
\* (ten_app_check_termination_when_engine_closed), and no step of a start
\* brings an engine back.
THEOREM AnswerMeansGone == AppUsage => (Spec => []OkMeansGone)
<1> SUFFICES ASSUME AppUsage PROVE Spec => []OkMeansGone
  OBVIOUS
<1>1. Init => Answered
  BY InitAnswered
<1>2. AppInv /\ Answered /\ [Next]_vars => Answered'
  BY NextAnswered
<1>3. Answered => OkMeansGone
  BY DEF Answered, OkMeansGone
<1> QED
  BY <1>1, <1>2, <1>3, AppInvariance, PTL DEF Spec

-----------------------------------------------------------------------------
(* A close of any thread at any time.                                      *)

\* The fields of an app, and the tasks in its queue.
Shape(a) ==
  /\ DOMAIN a = {"state", "loop", "queue", "inMsgs", "pending", "deinits", "late",
                 "engines", "orphans", "endpoint", "proxies"}
  /\ a.queue \in Seq(Tasks)

\* The tasks of the start that write the state.
StartTasks == {"metadata", "endpoint_created", "endpoint_failed"}

\* The app is closing, and only an xxx_done that has checked the state before
\* can still put it back.
Held(a) ==
  /\ ten_app_is_closing(a) /\ "load" \notin a.pending /\ a.endpoint # "creating"
  /\ \A i \in 1..Len(a.queue) : a.queue[i][1] \notin StartTasks

\* What leads from a to r keeps the close.
Kept(a, r) == Shape(r) /\ (Held(a) => Held(r))

\* Two changes, one after the other.
LEMMA KeptAgain ==
  ASSUME NEW a, NEW b, NEW r, Kept(a, b), Kept(b, r)
  PROVE  Kept(a, r)
  BY DEF Kept

\* The queue of an app.
LEMMA QueueKept ==
  ASSUME NEW a, Shape(a)
  PROVE  /\ \A x \in Tasks :
              /\ Shape([a EXCEPT !.queue = Append(@, x)])
              /\ x[1] \notin StartTasks => Kept(a, [a EXCEPT !.queue = Append(@, x)])
         /\ a.queue # <<>> => Kept(a, [a EXCEPT !.queue = Tail(@)])
         /\ a.queue # <<>> /\ Held(a) => Head(a.queue)[1] \notin StartTasks
<1> DEFINE q == a.queue
<1>1. q \in Seq(Tasks) /\ Len(q) \in Nat
  BY DEF Shape
<1>2. ASSUME NEW p \in Seq(Tasks)
      PROVE  /\ Shape([a EXCEPT !.queue = p]) /\ [a EXCEPT !.queue = p].queue = p
             /\ ((\A i \in 1..Len(q) : q[i][1] \notin StartTasks)
                   => \A i \in 1..Len(p) : p[i][1] \notin StartTasks)
                  => Kept(a, [a EXCEPT !.queue = p])
  <2> DEFINE r == [a EXCEPT !.queue = p]
  <2>1. /\ DOMAIN r = DOMAIN a /\ r.queue = p /\ r.state = a.state /\ r.pending = a.pending
        /\ r.endpoint = a.endpoint
    BY DEF Shape
  <2> HIDE DEF r
  <2>2. Shape(r)
    BY <1>2, <2>1 DEF Shape
  <2> QED
    BY <2>1, <2>2 DEF Kept, Held, ten_app_is_closing, r
<1>3. ASSUME NEW x \in Tasks
      PROVE  /\ Shape([a EXCEPT !.queue = Append(@, x)])
             /\ x[1] \notin StartTasks => Kept(a, [a EXCEPT !.queue = Append(@, x)])
  <2> DEFINE p == Append(q, x)
  <2>1. /\ p \in Seq(Tasks) /\ Len(p) = Len(q) + 1 /\ p[Len(q) + 1] = x
        /\ \A i \in 1..Len(q) : p[i] = q[i]
    BY <1>1
  <2>2. \A i \in 1..Len(p) : i \in 1..Len(q) \/ i = Len(q) + 1
    BY <1>1, <2>1
  <2>3. [a EXCEPT !.queue = Append(@, x)] = [a EXCEPT !.queue = p]
    OBVIOUS
  <2> HIDE DEF p, q
  <2> QED
    BY <1>2, <2>1, <2>2, <2>3
<1>4. ASSUME q # <<>>
      PROVE  /\ Kept(a, [a EXCEPT !.queue = Tail(@)])
             /\ Held(a) => Head(q)[1] \notin StartTasks
  <2> DEFINE p == Tail(q)
  <2>1. /\ p \in Seq(Tasks) /\ Len(p) = Len(q) - 1 /\ Head(q) = q[1]
        /\ \A i \in 1..Len(p) : p[i] = q[i + 1]
    BY <1>1, <1>4, HeadTailProperties
  <2>2. Len(q) # 0
    BY <1>1, <1>4, EmptySeq
  <2>3. 1 \in 1..Len(q) /\ \A i \in 1..Len(p) : i + 1 \in 1..Len(q)
    BY <1>1, <2>1, <2>2
  <2>4. [a EXCEPT !.queue = Tail(@)] = [a EXCEPT !.queue = p]
    OBVIOUS
  <2>5. Held(a) => Head(q)[1] \notin StartTasks
    BY <2>1, <2>3 DEF Held
  <2> HIDE DEF p, q
  <2> QED
    BY <1>2, <2>1, <2>3, <2>4, <2>5
<1> QED
  BY <1>3, <1>4

\* The other fields of an app.
LEMMA FieldsKept ==
  ASSUME NEW a, Shape(a), NEW v
  PROVE  /\ Kept(a, a)
         /\ Kept(a, [a EXCEPT !.inMsgs = v]) /\ Kept(a, [a EXCEPT !.loop = v])
         /\ Kept(a, [a EXCEPT !.engines = v]) /\ Kept(a, [a EXCEPT !.orphans = v])
         /\ Kept(a, [a EXCEPT !.proxies = v]) /\ Kept(a, [a EXCEPT !.late = v])
         /\ Kept(a, [a EXCEPT !.deinits = v])
         /\ v # "creating" => Kept(a, [a EXCEPT !.endpoint = v])
         /\ v \in {"CLOSING", "ON_DEINIT_DONE"} => Kept(a, [a EXCEPT !.state = v])
         /\ ("load" \in v => "load" \in a.pending) => Kept(a, [a EXCEPT !.pending = v])
         /\ Shape([a EXCEPT !.endpoint = v]) /\ Shape([a EXCEPT !.state = v])
         /\ Shape([a EXCEPT !.pending = v])
<1> USE DEF Kept, Shape, Held, ten_app_is_closing
<1>1. Kept(a, a)
  OBVIOUS
<1>2. Kept(a, [a EXCEPT !.inMsgs = v]) /\ Kept(a, [a EXCEPT !.loop = v])
  OBVIOUS
<1>3. Kept(a, [a EXCEPT !.engines = v]) /\ Kept(a, [a EXCEPT !.orphans = v])
  OBVIOUS
<1>4. Kept(a, [a EXCEPT !.proxies = v]) /\ Kept(a, [a EXCEPT !.late = v])
  OBVIOUS
<1>5. Kept(a, [a EXCEPT !.deinits = v])
  OBVIOUS
<1>6. Shape([a EXCEPT !.endpoint = v]) /\ Shape([a EXCEPT !.state = v])
      /\ Shape([a EXCEPT !.pending = v])
  OBVIOUS
<1>7. v # "creating" => Kept(a, [a EXCEPT !.endpoint = v])
  OBVIOUS
<1>8. v \in {"CLOSING", "ON_DEINIT_DONE"} => Kept(a, [a EXCEPT !.state = v])
  OBVIOUS
<1>9. ("load" \in v => "load" \in a.pending) => Kept(a, [a EXCEPT !.pending = v])
  OBVIOUS
<1> QED
  BY <1>1, <1>2, <1>3, <1>4, <1>5, <1>6, <1>7, <1>8, <1>9

\* The tasks of the model.
LEMMA TasksAre ==
  /\ <<"in_msgs">> \in Tasks /\ <<"close">> \in Tasks
  /\ <<"endpoint_created">> \in Tasks /\ <<"endpoint_failed">> \in Tasks
  /\ \A e \in Engines : <<"engine_closed", e>> \in Tasks
  /\ \A x \in Conns : <<"client", x>> \in Tasks
  /\ \A p \in Proxies : <<"proxy", p>> \in Tasks
  BY DEF Tasks

\* A task is posted, or refused.
LEMMA PostKept ==
  ASSUME NEW a, Shape(a), NEW x \in Tasks
  PROVE  Shape(Post(a, x)) /\ (x[1] \notin StartTasks => Kept(a, Post(a, x)))
<1>1. Post(a, x) = a \/ Post(a, x) = [a EXCEPT !.queue = Append(@, x)]
  BY DEF Post
<1>2. Kept(a, a)
  BY FieldsKept
<1>3. /\ Shape([a EXCEPT !.queue = Append(@, x)])
      /\ x[1] \notin StartTasks => Kept(a, [a EXCEPT !.queue = Append(@, x)])
  BY QueueKept
<1> QED
  BY <1>1, <1>2, <1>3

\* The operators of the model keep the close of an app.
LEMMA OperatorsKeep ==
  ASSUME NEW a, Shape(a)
  PROVE  /\ \A m : Kept(a, PushInMsg(a, m))
         /\ Kept(a, ten_runloop_stop(a)) /\ Kept(a, ten_app_close(a))
         /\ Kept(a, ProceedIfClosing(a)) /\ Kept(a, ten_app_close_task(a))
         /\ \A e : Kept(a, StartGraph(a, e))
<1>1. ASSUME NEW m PROVE Kept(a, PushInMsg(a, m))
  <2> DEFINE z == [a EXCEPT !.inMsgs = Append(@, m)]
  <2>1. Kept(a, z) /\ Shape(z)
    BY FieldsKept DEF Kept
  <2>2. PushInMsg(a, m) = Post(z, <<"in_msgs">>)
    BY DEF PushInMsg
  <2>3. <<"in_msgs">>[1] \notin StartTasks
    BY DEF StartTasks
  <2> HIDE DEF z
  <2>4. Kept(z, Post(z, <<"in_msgs">>))
    BY <2>1, <2>3, TasksAre, PostKept
  <2> QED
    BY <2>1, <2>2, <2>4, KeptAgain
<1>2. Kept(a, ten_runloop_stop(a))
  BY FieldsKept DEF ten_runloop_stop
<1>3. Kept(a, ten_app_close(a))
  <2> DEFINE z == [a EXCEPT !.state = "CLOSING"]
  <2>1. Kept(a, z) /\ Shape(z)
    BY FieldsKept DEF Kept
  <2>2. ten_app_close(a) = a \/ ten_app_close(a) = Post(z, <<"close">>)
    BY DEF ten_app_close
  <2>3. <<"close">>[1] \notin StartTasks
    BY DEF StartTasks
  <2> HIDE DEF z
  <2>4. Kept(z, Post(z, <<"close">>))
    BY <2>1, <2>3, TasksAre, PostKept
  <2> QED
    BY <2>1, <2>2, <2>4, KeptAgain, FieldsKept
<1>4. Kept(a, ten_app_on_deinit(a))
  BY DEF ten_app_on_deinit, Kept, Shape, Held, ten_app_is_closing
<1>5. Kept(a, ten_app_proceed_to_close(a)) /\ Kept(a, ProceedIfClosing(a))
  BY <1>4, FieldsKept DEF ten_app_proceed_to_close, ProceedIfClosing
<1>6. Kept(a, ten_app_close_sync(a))
  <2> DEFINE f == [e \in Engines |-> IF a.engines[e] = "running" THEN "closing" ELSE a.engines[e]]
             g == [c \in Conns |-> IF a.orphans[c] = "open" THEN "closing" ELSE a.orphans[c]]
             h == IF a.endpoint = "listening" THEN "closing" ELSE a.endpoint
             r == ten_app_close_sync(a)
  <2>1. r = [a EXCEPT !.engines = f, !.orphans = g, !.endpoint = h]
    BY DEF ten_app_close_sync
  <2>2. h = "creating" => a.endpoint = "creating"
    OBVIOUS
  <2> HIDE DEF f, g, h, r
  <2> QED
    BY <2>1, <2>2 DEF Kept, Shape, Held, ten_app_is_closing, r
<1>7. Kept(a, ten_app_close_task(a))
  BY <1>5, <1>6 DEF ten_app_close_task
<1>8. ASSUME NEW e PROVE Kept(a, StartGraph(a, e))
  <2> DEFINE f == [a.engines EXCEPT ![e] = "running"]
             g == a.late \/ HasCloseRun(a)
  <2>1. StartGraph(a, e) = a \/ StartGraph(a, e) = [a EXCEPT !.engines = f, !.late = g]
    BY DEF StartGraph
  <2> HIDE DEF f, g
  <2> QED
    BY <2>1 DEF Kept, Shape, Held, ten_app_is_closing
<1> QED
  BY <1>1, <1>2, <1>3, <1>5, <1>7, <1>8

\* The end of an engine.
LEMMA TermKeeps ==
  ASSUME NEW a, Shape(a), NEW e
  PROVE  Kept(a, ten_app_check_termination_when_engine_closed(a, e))
<1> DEFINE told == IF stop[e] = "kept" THEN PushInMsg(a, <<"stop_ok", e>>) ELSE a
           gone == [told EXCEPT !.engines[e] = "gone"]
           last == \A f \in Engines : gone.engines[f] \in {"none", "gone"}
           z == IF ~config.longRunning /\ last THEN ten_app_close(gone) ELSE gone
<1>1. ten_app_check_termination_when_engine_closed(a, e) = ProceedIfClosing(z)
  BY DEF ten_app_check_termination_when_engine_closed
<1>2. Kept(a, told) /\ Shape(told)
  BY OperatorsKeep, FieldsKept DEF Kept
<1> HIDE DEF told
<1>3. Kept(told, gone) /\ Shape(gone)
  BY <1>2, FieldsKept DEF Kept
<1> HIDE DEF gone, last
<1>4. Kept(gone, z) /\ Shape(z)
  BY <1>3, OperatorsKeep, FieldsKept DEF Kept
<1> HIDE DEF z
<1>5. Kept(z, ProceedIfClosing(z))
  BY <1>4, OperatorsKeep
<1> QED
  BY <1>1, <1>2, <1>3, <1>4, <1>5, KeptAgain

\* on_configure and on_init leave an app.
LEMMA StartShape ==
  ASSUME NEW a, Shape(a)
  PROVE  Shape(TriggerOnInit(a)) /\ Shape(ten_app_on_configure(a))
  BY DEF TriggerOnInit, ten_app_on_configure, Shape

\* A step keeps the close, and no xxx_done passes its check.
StepKeeps ==
  Shape(app') /\ (Held(app) /\ checked = "no" => Held(app') /\ checked' = "no")

\* Steps that only change the app, and take no task of the start.
LEMMA OnlyKeeps ==
  ASSUME Kept(app, app'), checked' = checked
  PROVE  StepKeeps
  BY DEF Kept, StepKeeps

\* Taking a task, whatever it is.
LEMMA TasksKeep ==
  ASSUME Shape(app), Tasks_
  PROVE  StepKeeps
<1>1. checked' = checked /\ app.queue # <<>>
  BY DEF Tasks_, ten_app_handle_metadata_task, CloseTask, EndpointTask, EngineClosedTask,
         ten_app_thread_on_client_protocol_created, ProxyTask, InMsgsTask, Runs, Only
<1>2. /\ Kept(app, Rest) /\ Shape(Rest)
      /\ Held(app) => Head(app.queue)[1] \notin StartTasks
  BY <1>1, QueueKept DEF Rest, Kept
<1>3. CASE ten_app_handle_metadata_task
  <2>1. Head(app.queue)[1] = "metadata" /\ app' = ten_app_on_configure(Rest)
    BY <1>3 DEF ten_app_handle_metadata_task, Runs, Only
  <2> QED
    BY <1>2, <2>1, StartShape DEF StepKeeps, StartTasks
<1>4. CASE CloseTask
  BY <1>1, <1>2, <1>4, OperatorsKeep, KeptAgain, OnlyKeeps DEF CloseTask, Only
<1>5. CASE EndpointTask
  <2>1. /\ Head(app.queue)[1] \in {"endpoint_created", "endpoint_failed"}
        /\ \/ app' = TriggerOnInit([Rest EXCEPT !.endpoint = "listening"])
           \/ app' = ten_app_close([Rest EXCEPT !.endpoint = "none"])
    BY <1>5 DEF EndpointTask, Runs, Only, ten_app_on_endpoint_protocol_created
  <2>2. \A v : Shape([Rest EXCEPT !.endpoint = v])
    BY <1>2, FieldsKept
  <2>3. Shape(app')
    BY <2>1, <2>2, StartShape, OperatorsKeep DEF Kept
  <2> QED
    BY <1>2, <2>1, <2>3 DEF StepKeeps, StartTasks
<1>6. CASE EngineClosedTask
  BY <1>1, <1>2, <1>6, TermKeeps, KeptAgain, OnlyKeeps DEF EngineClosedTask, Only
<1>7. CASE ten_app_thread_on_client_protocol_created
  <2> DEFINE f == [Rest.orphans EXCEPT ![Head(app.queue)[2]] = "open"]
             g == Rest.late \/ HasCloseRun(app)
  <2>1. app' = [Rest EXCEPT !.orphans = f, !.late = g]
    BY <1>7 DEF ten_app_thread_on_client_protocol_created, Only
  <2> HIDE DEF f, g
  <2>2. Kept(Rest, app')
    BY <1>2, <2>1 DEF Kept, Shape, Held, ten_app_is_closing
  <2> QED
    BY <1>1, <1>2, <2>2, KeptAgain, OnlyKeeps
<1>8. CASE ProxyTask
  <2> DEFINE z == [Rest EXCEPT !.proxies[Head(app.queue)[2]] = "gone"]
  <2>1. Kept(Rest, z) /\ Shape(z)
    BY <1>2, FieldsKept DEF Kept
  <2>2. app' = z \/ app' = ten_runloop_stop(z)
    BY <1>8 DEF ProxyTask, Only, ten_env_delete_ten_proxy
  <2> HIDE DEF z
  <2>3. Kept(z, app')
    BY <2>1, <2>2, OperatorsKeep, FieldsKept
  <2> QED
    BY <1>1, <1>2, <2>1, <2>3, KeptAgain, OnlyKeeps
<1>9. CASE InMsgsTask
  <2>1. Kept(Rest, app')
    BY <1>2, <1>9, FieldsKept DEF InMsgsTask
  <2> QED
    BY <1>1, <1>2, <2>1, KeptAgain, OnlyKeeps
<1> QED
  BY <1>3, <1>4, <1>5, <1>6, <1>7, <1>8, <1>9 DEF Tasks_

\* The program's answers to the callbacks: on_configure_done and on_init_done
\* find the app closing.
LEMMA AnswersKeep ==
  ASSUME Shape(app),
         \/ ten_app_on_configure_done \/ SetConfigureDone \/ ContinueRun
         \/ ten_app_on_init_done \/ SetInitDone
         \/ ten_app_on_all_addons_unregistered \/ ten_app_on_deinit_done
  PROVE  StepKeeps
<1>1. CASE ten_app_on_configure_done \/ ten_app_on_init_done
  <2>1. PICK x : app' = [app EXCEPT !.pending = @ \ {x}]
    BY <1>1 DEF ten_app_on_configure_done, ten_app_on_init_done
  <2>2. Kept(app, app')
    <3> DEFINE v == app.pending \ {x}
    <3>1. app' = [app EXCEPT !.pending = v] /\ ("load" \in v => "load" \in app.pending)
      BY <2>1
    <3> HIDE DEF v
    <3> QED
      BY <3>1, FieldsKept
  <2>3. Held(app) => checked' = "no"
    BY <1>1 DEF ten_app_on_configure_done, ten_app_on_init_done, Held, ten_app_is_closing
  <2> QED
    BY <2>2, <2>3 DEF Kept, StepKeeps
<1>2. CASE SetConfigureDone
  <2>1. checked # "no"
    BY <1>2 DEF SetConfigureDone
  <2>2. Shape(app')
    BY <1>2 DEF SetConfigureDone, Shape
  <2> QED
    BY <2>1, <2>2 DEF StepKeeps
<1>3. CASE SetInitDone
  <2>1. checked # "no"
    BY <1>3 DEF SetInitDone
  <2>2. Shape(app')
    BY <1>3 DEF SetInitDone, Shape
  <2> QED
    BY <2>1, <2>2 DEF StepKeeps
<1>4. CASE ContinueRun
  <2> DEFINE z == [app EXCEPT !.pending = @ \ {"load"}]
  <2>1. Shape(z)
    BY FieldsKept
  <2>2. /\ "load" \in app.pending
        /\ \/ app' = ten_app_close(z) \/ app' = [z EXCEPT !.endpoint = "creating"]
           \/ app' = TriggerOnInit(z)
    BY <1>4 DEF ContinueRun, Only
  <2> HIDE DEF z
  <2>3. Shape(app')
    BY <2>1, <2>2, OperatorsKeep, FieldsKept, StartShape DEF Kept
  <2> QED
    BY <2>2, <2>3 DEF StepKeeps, Held
<1>5. CASE ten_app_on_all_addons_unregistered
  <2> DEFINE v == (app.pending \ {"unregister"}) \cup {"deinit"}
  <2>1. /\ app' = [app EXCEPT !.pending = v] /\ checked' = checked
        /\ "load" \in v => "load" \in app.pending
    BY <1>5 DEF ten_app_on_all_addons_unregistered, Only
  <2> HIDE DEF v
  <2> QED
    BY <2>1, FieldsKept, OnlyKeeps
<1>6. CASE ten_app_on_deinit_done
  <2> DEFINE v == app.pending \ {"deinit"}
             a == [app EXCEPT !.pending = v]
             d == [a EXCEPT !.state = "ON_DEINIT_DONE"]
  <2>1. "load" \in v => "load" \in app.pending
    OBVIOUS
  <2>2. checked' = checked /\ (app' = a \/ app' = d \/ app' = ten_runloop_stop(d))
    BY <1>6 DEF ten_app_on_deinit_done, Only
  <2> HIDE DEF v
  <2>3. Kept(app, a) /\ Shape(a)
    BY <2>1, FieldsKept DEF Kept
  <2> HIDE DEF a
  <2>4. Kept(a, d) /\ Shape(d)
    BY <2>3, FieldsKept DEF Kept
  <2> HIDE DEF d
  <2>5. Kept(d, d) /\ Kept(d, ten_runloop_stop(d))
    BY <2>4, OperatorsKeep, FieldsKept
  <2> QED
    BY <2>2, <2>3, <2>4, <2>5, KeptAgain, OnlyKeeps
<1> QED
  BY <1>1, <1>2, <1>3, <1>4, <1>5, <1>6

\* A step of any thread, whatever the program and the other threads do.
LEMMA NextKeeps ==
  ASSUME Shape(app), Next
  PROVE  StepKeeps
<1>1. CASE Tasks_
  BY <1>1, TasksKeep
<1>2. CASE \/ ten_app_on_configure_done \/ SetConfigureDone \/ ContinueRun
           \/ ten_app_on_init_done \/ SetInitDone
           \/ ten_app_on_all_addons_unregistered \/ ten_app_on_deinit_done
  BY <1>2, AnswersKeep
<1>3. CASE ten_app_handle_in_msg
  <2>1. /\ checked' = checked
        /\ \/ \E e : app' = StartGraph(app, e)
           \/ \E m : app' = PushInMsg(app, m)
           \/ app' = ten_app_close(app)
           \/ app' = app
    BY <1>3 DEF ten_app_handle_in_msg, ten_app_handle_stop_graph_cmd
  <2>2. Kept(app, app)
    BY FieldsKept
  <2> QED
    BY <2>1, <2>2, OperatorsKeep, OnlyKeeps
<1>4. CASE LoopEnds
  BY <1>4, FieldsKept, OnlyKeeps DEF LoopEnds, Only
<1>5. ASSUME NEW x \in Conns, ten_app_on_orphan_connection_closed(x) PROVE StepKeeps
  <2> DEFINE z == [app EXCEPT !.orphans[x] = "gone"]
  <2>1. Kept(app, z) /\ Shape(z) /\ app' = ProceedIfClosing(z) /\ checked' = checked
    BY <1>5, FieldsKept DEF ten_app_on_orphan_connection_closed, Only, Kept
  <2> HIDE DEF z
  <2> QED
    BY <2>1, OperatorsKeep, KeptAgain, OnlyKeeps
<1>6. CASE ten_app_on_protocol_closed
  <2> DEFINE z == [app EXCEPT !.endpoint = "closed"]
  <2>1. Kept(app, z) /\ Shape(z) /\ app' = ProceedIfClosing(z) /\ checked' = checked
    BY <1>6, FieldsKept DEF ten_app_on_protocol_closed, Only, Kept
  <2> HIDE DEF z
  <2> QED
    BY <2>1, OperatorsKeep, KeptAgain, OnlyKeeps
<1>7. CASE AddonCreatesEndpoint
  <2>1. /\ app.endpoint = "creating"
        /\ app' = Post(app, <<"endpoint_created">>) \/ app' = Post(app, <<"endpoint_failed">>)
    BY <1>7 DEF AddonCreatesEndpoint, Only
  <2>2. Shape(app')
    BY <2>1, PostKept, TasksAre
  <2> QED
    BY <2>1, <2>2 DEF StepKeeps, Held
<1>8. ASSUME NEW e \in Engines,
             \/ EngineSends(e) \/ EngineStops(e)
             \/ ten_engine_handle_cmd_stop_graph(e) \/ ten_app_on_engine_closed(e)
      PROVE  StepKeeps
  <2>1. CASE EngineSends(e)
    <3>1. checked' = checked /\ \E m : app' = PushInMsg(app, m)
      BY <2>1 DEF EngineSends
    <3> QED
      BY <3>1, OperatorsKeep, OnlyKeeps
  <2>2. CASE EngineStops(e) \/ ten_engine_handle_cmd_stop_graph(e)
    <3>1. app' = [app EXCEPT !.engines[e] = "closing"] /\ checked' = checked
      BY <2>2 DEF EngineStops, ten_engine_handle_cmd_stop_graph, Only
    <3>2. PICK q : app' = [app EXCEPT !.engines = q]
      BY <3>1
    <3>3. Kept(app, app')
      BY <3>2, FieldsKept
    <3> QED
      BY <3>1, <3>3, OnlyKeeps
  <2>3. CASE ten_app_on_engine_closed(e)
    <3> DEFINE z == [app EXCEPT !.engines[e] = "closed"]
    <3>1. Kept(app, z) /\ Shape(z)
      BY FieldsKept DEF Kept
    <3>2. /\ checked' = checked
          /\ \/ app' = Post(z, <<"engine_closed", e>>)
             \/ app' = ten_app_check_termination_when_engine_closed(app, e)
      BY <2>3 DEF ten_app_on_engine_closed
    <3>3. <<"engine_closed", e>>[1] \notin StartTasks
      BY DEF StartTasks
    <3> HIDE DEF z
    <3>4. Kept(z, Post(z, <<"engine_closed", e>>))
      BY <3>1, <3>3, PostKept, TasksAre
    <3> QED
      BY <3>1, <3>2, <3>4, TermKeeps, KeptAgain, OnlyKeeps
  <2> QED
    BY <1>8, <2>1, <2>2, <2>3
<1>9. ASSUME NEW x \in Conns,
             ten_transport_on_client_accepted(x) \/ ClientSends(x) \/ ClientDrops(x)
      PROVE  StepKeeps
  <2>1. CASE ten_transport_on_client_accepted(x)
    <3> DEFINE z == [app EXCEPT !.orphans[x] = "accepted"]
    <3>1. Kept(app, z) /\ Shape(z) /\ app' = Post(z, <<"client", x>>) /\ checked' = checked
      BY <2>1, FieldsKept DEF ten_transport_on_client_accepted, Only, Kept
    <3>2. <<"client", x>>[1] \notin StartTasks
      BY DEF StartTasks
    <3> HIDE DEF z
    <3>3. Kept(z, Post(z, <<"client", x>>))
      BY <3>1, <3>2, PostKept, TasksAre
    <3> QED
      BY <3>1, <3>3, KeptAgain, OnlyKeeps
  <2>2. CASE ClientSends(x)
    <3> DEFINE z == [app EXCEPT !.orphans[x] = "gone"]
    <3>1. /\ Kept(app, z) /\ Shape(z) /\ checked' = checked
          /\ (\E e : app' = StartGraph(z, e)) \/ app' = ten_app_close(app)
      BY <2>2, FieldsKept DEF ClientSends, Only, Kept
    <3> HIDE DEF z
    <3>2. Kept(app, app')
      BY <3>1, OperatorsKeep, KeptAgain
    <3> QED
      BY <3>1, <3>2, OnlyKeeps
  <2>3. CASE ClientDrops(x)
    BY <2>3, FieldsKept, OnlyKeeps DEF ClientDrops, Only
  <2> QED
    BY <1>9, <2>1, <2>2, <2>3
<1>10. CASE ForeignClose
  BY <1>10, OperatorsKeep, OnlyKeeps DEF ForeignClose, Only
<1>11. ASSUME NEW x \in Proxies, NewProxy(x) \/ ReleaseProxy(x) PROVE StepKeeps
  <2>1. CASE NewProxy(x)
    BY <2>1, FieldsKept, OnlyKeeps DEF NewProxy, Only
  <2>2. CASE ReleaseProxy(x)
    <3> DEFINE z == [app EXCEPT !.proxies[x] = "releasing"]
    <3>1. Kept(app, z) /\ Shape(z) /\ app' = Post(z, <<"proxy", x>>) /\ checked' = checked
      BY <2>2, FieldsKept DEF ReleaseProxy, Only, Kept
    <3>2. <<"proxy", x>>[1] \notin StartTasks
      BY DEF StartTasks
    <3> HIDE DEF z
    <3>3. Kept(z, Post(z, <<"proxy", x>>))
      BY <3>1, <3>2, PostKept, TasksAre
    <3> QED
      BY <3>1, <3>3, KeptAgain, OnlyKeeps
  <2> QED
    BY <1>11, <2>1, <2>2
<1> QED
  BY <1>1, <1>2, <1>3, <1>4, <1>5, <1>6, <1>7, <1>8, <1>9, <1>10, <1>11 DEF Next, AppThread

\* Whatever thread closes the app in whatever state, and whenever proxies are
\* given back: the close is lost only to a write of the start to app->state that
\* was on its way before (ten_app_on_configure, ten_app_on_init after the addons
\* or the endpoint, and the unlocked writes of on_configure_done and on_init_done
\* behind their checks); from then on the app stays closing for ever.
THEOREM CloseIsLostOnlyToStart == Spec => CloseHolds
<1>1. Init => Shape(app)
  <2> SUFFICES ASSUME Init PROVE Shape(app)
    OBVIOUS
  <2>1. << <<"metadata">> >> \in Seq(Tasks)
    BY DEF Tasks
  <2> QED
    BY <2>1 DEF Init, Shape
<1>2. Shape(app) /\ [Next]_vars => Shape(app)'
  <2>1. ASSUME Shape(app), Next PROVE Shape(app)'
    <3>1. Shape(app')
      BY <2>1, NextKeeps DEF StepKeeps
    <3> QED
      BY <3>1 DEF Shape
  <2>2. ASSUME Shape(app), UNCHANGED vars PROVE Shape(app)'
    BY <2>2 DEF vars, Shape
  <2> QED
    BY <2>1, <2>2
<1>3. Shape(app) /\ Shape(app)' /\ [Next]_vars =>
        [ten_app_is_closing(app) /\ ~StartWrites
           => (ten_app_is_closing(app) /\ ~StartWrites)']_vars
  <2> SUFFICES ASSUME Shape(app), Shape(app)', Next, ten_app_is_closing(app), ~StartWrites
               PROVE  (ten_app_is_closing(app) /\ ~StartWrites)'
    OBVIOUS
  <2>1. /\ app.queue \in Seq(Tasks) /\ app'.queue \in Seq(Tasks)
    BY DEF Shape
  <2>2. DOMAIN app.queue = 1..Len(app.queue) /\ DOMAIN app'.queue = 1..Len(app'.queue)
    BY <2>1
  <2>3. Held(app) /\ checked = "no"
    BY <2>2 DEF Held, StartWrites, StartTasks
  <2>4. Held(app') /\ checked' = "no"
    BY <2>3, NextKeeps DEF StepKeeps
  <2> QED
    BY <2>2, <2>4 DEF Held, StartWrites, StartTasks, ten_app_is_closing
<1> QED
  BY <1>1, <1>2, <1>3, PTL DEF Spec, CloseHolds
=============================================================================
