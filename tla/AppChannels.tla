---------------------------- MODULE AppChannels ----------------------------
(***************************************************************************)
(* How a start_graph command spreads over the apps of a graph, and how two *)
(* apps that connect to each other at the same time end up with one        *)
(* channel.  Every app has one engine for the graph; its thread handles    *)
(* one start_graph, one result or one callback at a time.                  *)
(*                                                                         *)
(*   engine/msg_interface/{start_graph,cmd_result,common}.c,               *)
(*   engine/internal/remote_interface.c, extension_interface.c,            *)
(*   app/msg_interface/start_graph.c, connection/connection.c              *)
(*                                                                         *)
(* No connection fails here and no engine closes (RemoteConnect has both). *)
(* A failed TEN_ASSERT ends the app, as it does in every build that is not *)
(* TEN_PRODUCTION.                                                         *)
(***************************************************************************)
EXTENDS Naturals, Sequences

CONSTANTS
  Apps,    \* the apps of the graph: numbers, ordered as their URIs are
  Links,   \* the pairs {a, b} of apps with a connection between extensions
  Roots    \* the apps a client may send the start_graph command to

ASSUME AppsAssumption ==
  /\ Apps \subseteq Nat \ {0}
  /\ Roots \subseteq Apps
  /\ \A l \in Links : \E a, b \in Apps : a # b /\ l = {a, b}

Client == 0

\* ten_cmd_start_graph_collect_all_immediate_connectable_apps
Neighbors(a) == {b \in Apps : {a, b} \in Links}

Pairs == {p \in Apps \X Apps : {p[1], p[2]} \in Links}

(***************************************************************************)
(* The connection app p[1] makes to app p[2]:                              *)
(*   creating    its protocol is being created                             *)
(*   refused     given up: a channel appeared while it was created         *)
(*   connecting  a weak remote of p[1]                                     *)
(*   sent        the start_graph command is under way                      *)
(*   queued      an orphan connection of p[2]'s engine, command in in_msgs *)
(*   linked      a strong remote of p[2]                                   *)
(*   ok, dup     the result is under way                                   *)
(*   kept        a strong remote on both sides                             *)
(*   closing     p[1] has closed its end                                   *)
(*   dropped     both ends are closed                                      *)
(***************************************************************************)
ConnStates ==
  {"none", "creating", "refused", "connecting", "sent", "queued", "linked",
   "ok", "dup", "kept", "closing", "dropped"}

VARIABLES
  conn,       \* the connection of every ordered pair of neighbours
  in_msgs,    \* per app: sources of the start_graph commands to handle
  original,   \* per app: {source of original_start_graph_cmd_of_enabling_engine}
  waiting,    \* per app: neighbours whose result is awaited
  ext,        \* per app: the extension system
  answered,   \* the client has the result
  aborted     \* apps that failed an assertion

vars == <<conn, in_msgs, original, waiting, ext, answered, aborted>>

TypeOK ==
  /\ conn \in [Pairs -> ConnStates]
  /\ in_msgs \in [Apps -> Seq(Apps \cup {Client})]
  /\ original \in [Apps -> {{}} \cup {{src} : src \in Apps \cup {Client}}]
  /\ waiting \in [Apps -> SUBSET Apps]
  /\ ext \in [Apps -> {"off", "starting", "on"}]
  /\ answered \in BOOLEAN
  /\ aborted \subseteq Apps

Init ==
  /\ conn = [p \in Pairs |-> "none"]
  /\ \E root \in Roots :
       in_msgs = [a \in Apps |-> IF a = root THEN <<Client>> ELSE <<>>]
  /\ original = [a \in Apps |-> {}]
  /\ waiting = [a \in Apps |-> {}]
  /\ ext = [a \in Apps |-> "off"]
  /\ answered = FALSE
  /\ aborted = {}

-----------------------------------------------------------------------------
(* The tables of remotes of app a, read off the connections c.             *)

Weak(c, a, u) ==
  c[<<a, u>>] \in {"connecting", "sent", "queued", "linked", "ok", "dup"}

Strong(c, a, u) ==
  c[<<a, u>>] = "kept" \/ c[<<u, a>>] \in {"linked", "ok", "kept"}

ten_engine_check_remote_is_existed(c, a, u) == Strong(c, a, u) \/ Weak(c, a, u)

\* Mutant: the URIs are not compared, the later connection is always kept.
DuplicatedNever(c, a, u) == FALSE

\* The connection of a smaller URI is the duplicate.
ten_engine_check_remote_is_duplicated(c, a, u) ==
  ten_engine_check_remote_is_existed(c, a, u) /\ u <= a

-----------------------------------------------------------------------------
(* Results.                                                                *)

\* Connections after app a has answered src with OK.
ReturnOk(c, a, src) == IF src = Client THEN c ELSE [c EXCEPT ![<<src, a>>] = "ok"]

Abort(a) ==
  /\ aborted' = aborted \cup {a}
  /\ UNCHANGED <<conn, original, waiting, ext, answered>>

\* ten_engine_enable_extension_system for the command of src: start the
\* extension threads, or answer at once when they run.
EnableExtensionSystem(a, c, src) ==
  /\ IF ext[a] = "off"
     THEN /\ ext' = [ext EXCEPT ![a] = "starting"]
          /\ original' = [original EXCEPT ![a] = {src}]
          /\ conn' = c
          /\ UNCHANGED answered
     ELSE /\ conn' = ReturnOk(c, a, src)
          /\ original' = [original EXCEPT ![a] = {}]
          /\ answered' = (answered \/ src = Client)
          /\ UNCHANGED ext
  /\ UNCHANGED aborted

\* Mutant: any OK enables the extension system.
ResultOkDoesNotWait(a, c, u) ==
  /\ u \in waiting[a]
  /\ waiting' = [waiting EXCEPT ![a] = {}]
  /\ \E src \in original[a] : EnableExtensionSystem(a, c, src)

\* An OK for the command sent to u; the last one enables the extension system.
ResultOk(a, c, u) ==
  LET left == waiting[a] \ {u} IN
  /\ waiting' = [waiting EXCEPT ![a] = left]
  /\ IF u \in waiting[a] /\ left = {}
     THEN \E src \in original[a] : EnableExtensionSystem(a, c, src)
     ELSE conn' = c /\ UNCHANGED <<original, ext, answered, aborted>>

-----------------------------------------------------------------------------
(* start_graph in the engine of app a.                                     *)

\* Mutant: neighbours are asked only by the root.
HandleStartGraphLocally(a, c, src) ==
  /\ UNCHANGED waiting
  /\ EnableExtensionSystem(a, c, src)

\* Neighbours without a remote are connected to, and the command waits for
\* them; without any, it is answered at once if the graph is being started
\* here already, and starts the extension system otherwise.
HandleStartGraph(a, c, src) ==
  LET new == {u \in Neighbors(a) : ~ten_engine_check_remote_is_existed(c, a, u)} IN
  CASE new # {} /\ original[a] # {} -> Abort(a)
    [] new # {} /\ original[a] = {} ->
         /\ original' = [original EXCEPT ![a] = {src}]
         /\ waiting' = [waiting EXCEPT ![a] = new]
         /\ conn' = [p \in Pairs |-> IF p[1] = a /\ p[2] \in new THEN "creating" ELSE c[p]]
         /\ UNCHANGED <<ext, answered, aborted>>
    [] new = {} /\ original[a] # {} ->
         /\ conn' = ReturnOk(c, a, src)
         /\ answered' = (answered \/ src = Client)
         /\ UNCHANGED <<original, waiting, ext, aborted>>
    [] OTHER -> UNCHANGED waiting /\ EnableExtensionSystem(a, c, src)

\* The command came over an orphan connection: a duplicate is told so and not
\* handled, another one becomes a strong remote first.
ten_engine_handle_in_msgs_sync(a) ==
  LET src == Head(in_msgs[a]) IN
  /\ a \notin aborted /\ in_msgs[a] # <<>>
  /\ in_msgs' = [in_msgs EXCEPT ![a] = Tail(@)]
  /\ CASE src = Client -> HandleStartGraph(a, conn, src)
       [] src # Client /\ ten_engine_check_remote_is_duplicated(conn, a, src) ->
            /\ conn' = [conn EXCEPT ![<<src, a>>] = "dup"]
            /\ UNCHANGED <<original, waiting, ext, answered, aborted>>
       [] src # Client /\ ~ten_engine_check_remote_is_duplicated(conn, a, src) ->
            IF Strong(conn, a, src) THEN Abort(a)
            ELSE HandleStartGraph(a, [conn EXCEPT ![<<src, a>>] = "linked"], src)

-----------------------------------------------------------------------------
(* A connection from a to u.                                               *)

\* The protocol is there.  If the channel exists by now nothing is sent and
\* the command counts as answered; otherwise the weak remote connects.
RemoteCreated(a, u) ==
  /\ a \notin aborted /\ conn[<<a, u>>] = "creating"
  /\ CASE original[a] = {} -> Abort(a)
       [] original[a] # {} /\ ten_engine_check_remote_is_duplicated(conn, a, u) ->
            ResultOk(a, [conn EXCEPT ![<<a, u>>] = "refused"], u)
       [] OTHER ->
            /\ conn' = [conn EXCEPT ![<<a, u>>] = "connecting"]
            /\ UNCHANGED <<original, waiting, ext, answered, aborted>>
  /\ UNCHANGED in_msgs

\* Connected: the start_graph command goes out.
RemoteConnected(a, u) ==
  /\ a \notin aborted /\ conn[<<a, u>>] = "connecting"
  /\ conn' = [conn EXCEPT ![<<a, u>>] = "sent"]
  /\ UNCHANGED <<in_msgs, original, waiting, ext, answered, aborted>>

\* The app of u finds or creates the engine, the connection migrates to it
\* and the command is put in its queue.
ten_app_handle_start_graph_cmd(a, u) ==
  /\ u \notin aborted /\ conn[<<a, u>>] = "sent"
  /\ conn' = [conn EXCEPT ![<<a, u>>] = "queued"]
  /\ in_msgs' = [in_msgs EXCEPT ![u] = Append(@, a)]
  /\ UNCHANGED <<original, waiting, ext, answered, aborted>>

\* Mutant: 'duplicate' is taken for an ordinary OK.
ResultKeepsDuplicate(a, u) ==
  /\ a \notin aborted /\ conn[<<a, u>>] \in {"ok", "dup"}
  /\ ResultOk(a, [conn EXCEPT ![<<a, u>>] = "kept"], u)
  /\ UNCHANGED in_msgs

\* The result of u: the weak remote becomes a normal one, or is closed when
\* the connection is a duplicate.
ten_engine_handle_cmd_result_for_cmd_start_graph(a, u) ==
  /\ a \notin aborted /\ conn[<<a, u>>] \in {"ok", "dup"}
  /\ ResultOk(a, [conn EXCEPT ![<<a, u>>] = IF @ = "ok" THEN "kept" ELSE "closing"], u)
  /\ UNCHANGED in_msgs

\* The orphan connection of u sees the end of the stream.
ten_engine_on_orphan_connection_closed(a, u) ==
  /\ u \notin aborted /\ conn[<<a, u>>] = "closing"
  /\ conn' = [conn EXCEPT ![<<a, u>>] = "dropped"]
  /\ UNCHANGED <<in_msgs, original, waiting, ext, answered, aborted>>

\* All extension threads of app a are ready: the command that started the
\* graph here is answered.
ExtensionThreadsReady(a) ==
  /\ a \notin aborted /\ ext[a] = "starting"
  /\ ext' = [ext EXCEPT ![a] = "on"]
  /\ \E src \in original[a] : /\ conn' = ReturnOk(conn, a, src)
                              /\ answered' = (answered \/ src = Client)
  /\ original' = [original EXCEPT ![a] = {}]
  /\ UNCHANGED <<in_msgs, waiting, aborted>>

-----------------------------------------------------------------------------
ConnMoves(a, u) ==
  \/ RemoteCreated(a, u)
  \/ RemoteConnected(a, u)
  \/ ten_app_handle_start_graph_cmd(a, u)
  \/ ten_engine_handle_cmd_result_for_cmd_start_graph(a, u)
  \/ ten_engine_on_orphan_connection_closed(a, u)

Next ==
  \/ \E a \in Apps : ten_engine_handle_in_msgs_sync(a) \/ ExtensionThreadsReady(a)
  \/ \E p \in Pairs : ConnMoves(p[1], p[2])

Spec == Init /\ [][Next]_vars

\* Every engine's runloop runs, every connect succeeds and every message
\* arrives.
FairSpec == Spec /\ WF_vars(Next)

-----------------------------------------------------------------------------
(* Properties.                                                             *)

\* A second start_graph command comes to app a while it keeps the first, and
\* there is a neighbour that it has no remote for.
SecondCommandFinds(a) ==
  /\ original[a] # {}
  /\ \E u \in Neighbors(a) : /\ u # Head(in_msgs[a])
                             /\ ~ten_engine_check_remote_is_existed(conn, a, u)

\* Such a command, for which TEN_ASSERT in ten_engine_handle_cmd_start_graph
\* says that it "Should not happen.", is all that fails an assertion of these
\* handlers.  Apps that connect to each other at the same time never link a
\* second strong remote to a URI (remote_interface.c), and the command for which
\* a remote was created is kept until the remote is there (start_graph.c).
OnlySecondCommandFails ==
  [][\/ aborted' = aborted
     \/ \E a \in Apps : /\ ten_engine_handle_in_msgs_sync(a)
                        /\ SecondCommandFinds(a)
                        /\ aborted' = aborted \cup {a}]_vars

\* Two neighbours never share two channels: a connection kept on both sides
\* excludes one in the other direction that is a strong remote anywhere.  Nor
\* do they end without one: a connection is only given up for another one, for
\* which its app has a strong remote or which the neighbour is building.
OneChannel ==
  TypeOK /\ \A p \in Pairs :
    LET back == conn[<<p[2], p[1]>>] IN
    /\ conn[p] = "kept" => back \notin {"linked", "ok", "kept"}
    /\ conn[p] \in {"refused", "closing", "dropped"} =>
         back \notin {"none", "creating", "refused", "dup", "closing", "dropped"}

\* The OK the client gets means that the extension system runs in every app,
\* although apps that are asked twice answer before they have started.
StartedEverywhere == answered => \A a \in Apps : ext[a] = "on"

\* The apps that wait for each other's results in a loop still answer the
\* client, and in the end exactly one connection is left between any two
\* neighbours, unless an app has ended with its assertion.
Settles ==
  \/ <>(aborted # {})
  \/ /\ <>answered
     /\ <>[](\A p \in Pairs : {conn[p], conn[<<p[2], p[1]>>]}
               \in {{"kept", "none"}, {"kept", "refused"}, {"kept", "dropped"}})
=============================================================================
