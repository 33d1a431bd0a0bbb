------------------------- MODULE AppChannelsProofs -------------------------
(***************************************************************************)
(* Theorems about AppChannels, for any number of apps and whatever links   *)
(* there are between them.                                                 *)
(***************************************************************************)
EXTENDS AppChannels, TLAPS, WellFoundedInduction

-----------------------------------------------------------------------------
(* The inductive invariant.                                                *)

Established == {"linked", "ok", "kept"}

\* The connections between two apps: x is that of the smaller URI to the
\* larger one, y the one back.  The app with the larger URI is told that its
\* connection is not needed only before it has connected ("refused"), that
\* with the smaller one only afterwards ("dup"), and each only if the other
\* connection is there or on its way.
PairOK(x, y) ==
  /\ x # "refused"
  /\ y \notin {"dup", "closing", "dropped"}
  /\ x \in Established => y \in {"none", "creating", "refused"}
  /\ y = "refused" => x \in Established
  /\ x \in {"dup", "closing", "dropped"} =>
       y \in {"connecting", "sent", "queued"} \cup Established

ConnOK(c) ==
  /\ c \in [Pairs -> ConnStates]
  /\ \A a, u \in Apps :
       <<a, u>> \in Pairs /\ a < u => PairOK(c[<<a, u>>], c[<<u, a>>])

\* A start_graph command in a queue came over a connection that nobody has
\* looked at since, and is there once.
QueuesOK(c) ==
  \A a \in Apps : \A i \in DOMAIN in_msgs[a] :
    in_msgs[a][i] # Client =>
      /\ <<in_msgs[a][i], a>> \in Pairs
      /\ c[<<in_msgs[a][i], a>>] = "queued"
      /\ \A j \in DOMAIN in_msgs[a] : in_msgs[a][j] = in_msgs[a][i] => j = i

\* The command an app keeps has not been answered, an app that waits for
\* others keeps one, and it waits for every connection it is creating.
AppOK(c, a) ==
  /\ \A src \in original[a] :
       src # Client => <<src, a>> \in Pairs /\ c[<<src, a>>] = "linked"
  /\ \A u \in Apps :
       <<a, u>> \in Pairs /\ c[<<a, u>>] = "creating" => u \in waiting[a]
  /\ waiting[a] # {} => original[a] # {}
  /\ ext[a] = "starting" => waiting[a] = {} /\ original[a] # {}

IInv ==
  /\ TypeOK
  /\ ConnOK(conn)
  /\ QueuesOK(conn)
  /\ \A a \in Apps : AppOK(conn, a)

-----------------------------------------------------------------------------
(* Connections.                                                            *)

\* A pair of neighbours is two different apps, and a pair both ways.
LEMMA PairFacts ==
  ASSUME NEW a, NEW u, <<a, u>> \in Pairs
  PROVE  /\ a \in Apps /\ u \in Apps
         /\ a \in Nat /\ u \in Nat /\ a # u /\ a # Client
         /\ <<u, a>> \in Pairs
<1>1. a \in Apps /\ u \in Apps /\ {a, u} \in Links
  BY DEF Pairs
<1>2. a # u
  BY <1>1, AppsAssumption
<1>3. {u, a} = {a, u}
  OBVIOUS
<1>4. <<u, a>> \in Pairs
  BY <1>1, <1>3 DEF Pairs
<1> QED
  BY <1>1, <1>2, <1>4, AppsAssumption DEF Client

\* Every pair is written <<a, u>>.
LEMMA PairForm ==
  ASSUME NEW p \in Pairs
  PROVE  p = <<p[1], p[2]>> /\ p[1] \in Apps /\ p[2] \in Apps /\ p[2] \in Neighbors(p[1])
BY DEF Pairs, Neighbors

\* One connection changes.
LEMMA Edit ==
  ASSUME NEW c \in [Pairs -> ConnStates], NEW a, NEW u, <<a, u>> \in Pairs,
         NEW s \in ConnStates, NEW d, d = [c EXCEPT ![<<a, u>>] = s]
  PROVE  /\ d \in [Pairs -> ConnStates]
         /\ d[<<a, u>>] = s
         /\ \A b, v : <<b, v>> \in Pairs /\ (b # a \/ v # u) => d[<<b, v>>] = c[<<b, v>>]
         /\ \A q \in Pairs : q # <<a, u>> => d[q] = c[q]
<1>1. d \in [Pairs -> ConnStates] /\ d[<<a, u>>] = s
  OBVIOUS
<1>2. \A q \in Pairs : q # <<a, u>> => d[q] = c[q]
  OBVIOUS
<1>3. \A b, v : <<b, v>> \in Pairs /\ (b # a \/ v # u) => d[<<b, v>>] = c[<<b, v>>]
  <2> SUFFICES ASSUME NEW b, NEW v, <<b, v>> \in Pairs, b # a \/ v # u
               PROVE  d[<<b, v>>] = c[<<b, v>>]
    OBVIOUS
  <2>1. <<b, v>> # <<a, u>>
    OBVIOUS
  <2> QED BY <2>1, <1>2
<1> QED BY <1>1, <1>2, <1>3

\* A change of one connection that is right for its pair is right.
LEMMA EditOK ==
  ASSUME NEW c, ConnOK(c), NEW a, NEW u, <<a, u>> \in Pairs, NEW s \in ConnStates,
         NEW d, d = [c EXCEPT ![<<a, u>>] = s],
         a < u => PairOK(s, c[<<u, a>>]),
         u < a => PairOK(c[<<u, a>>], s)
  PROVE  ConnOK(d)
<1>1. c \in [Pairs -> ConnStates]
  BY DEF ConnOK
<1>2. /\ d \in [Pairs -> ConnStates]
      /\ d[<<a, u>>] = s
      /\ \A b, v : <<b, v>> \in Pairs /\ (b # a \/ v # u) => d[<<b, v>>] = c[<<b, v>>]
  BY <1>1, Edit, Zenon
<1>3. a \in Apps /\ u \in Apps /\ a \in Nat /\ u \in Nat /\ a # u /\ <<u, a>> \in Pairs
  BY PairFacts
<1>4. ASSUME NEW b \in Apps, NEW v \in Apps, <<b, v>> \in Pairs, b < v
      PROVE  PairOK(d[<<b, v>>], d[<<v, b>>])
  <2>1. PairOK(c[<<b, v>>], c[<<v, b>>])
    BY <1>4 DEF ConnOK
  <2>2. b \in Nat /\ v \in Nat /\ <<v, b>> \in Pairs /\ b # v
    BY <1>4, PairFacts
  <2>3. CASE b = a /\ v = u
    <3>1. d[<<b, v>>] = s /\ d[<<v, b>>] = c[<<u, a>>]
      BY <1>2, <1>3, <2>3
    <3> QED BY <3>1, <2>3, <1>4
  <2>4. CASE b = u /\ v = a
    <3>1. d[<<v, b>>] = s /\ d[<<b, v>>] = c[<<u, a>>]
      BY <1>2, <1>3, <2>4
    <3> QED BY <3>1, <2>4, <1>4
  <2>5. CASE ~(b = a /\ v = u) /\ ~(b = u /\ v = a)
    <3>1. d[<<b, v>>] = c[<<b, v>>]
      BY <1>2, <1>4, <2>5
    <3>2. d[<<v, b>>] = c[<<v, b>>]
      BY <1>2, <2>2, <2>5
    <3> QED BY <3>1, <3>2, <2>1
  <2> QED BY <2>3, <2>4, <2>5
<1> QED BY <1>2, <1>4 DEF ConnOK

\* What is known of the two connections of a pair, in both directions.
LEMMA PairCases ==
  ASSUME NEW c, ConnOK(c), NEW a, NEW u, <<a, u>> \in Pairs
  PROVE  /\ a < u => PairOK(c[<<a, u>>], c[<<u, a>>])
         /\ u < a => PairOK(c[<<u, a>>], c[<<a, u>>])
         /\ a < u \/ u < a
         /\ c[<<a, u>>] \in ConnStates /\ c[<<u, a>>] \in ConnStates
<1>1. /\ a \in Apps /\ u \in Apps /\ a \in Nat /\ u \in Nat /\ a # u
      /\ <<u, a>> \in Pairs
  BY PairFacts
<1>2. c[<<a, u>>] \in ConnStates /\ c[<<u, a>>] \in ConnStates
  BY <1>1 DEF ConnOK
<1>3. a < u \/ u < a
  BY <1>1
<1> QED BY <1>1, <1>2, <1>3 DEF ConnOK

-----------------------------------------------------------------------------
(* The changes of a connection that the handlers make.                     *)

\* A connection that is not a duplicate becomes a strong remote.
LEMMA LinkOK ==
  ASSUME NEW c, ConnOK(c), NEW a, NEW src, <<src, a>> \in Pairs,
         c[<<src, a>>] = "queued",
         ~ten_engine_check_remote_is_duplicated(c, a, src)
  PROVE  /\ ~Strong(c, a, src)
         /\ ConnOK([c EXCEPT ![<<src, a>>] = "linked"])
<1>0. PICK x, y : x = c[<<a, src>>] /\ y = c[<<src, a>>]
  OBVIOUS
<1>1. /\ a < src => PairOK(x, y)
      /\ src < a => PairOK(y, x)
      /\ a < src \/ src < a
      /\ x \in ConnStates /\ y = "queued"
  BY <1>0, PairFacts, PairCases, Zenon
<1>2. a \in Nat /\ src \in Nat
  BY PairFacts
<1>3. src < a => x \notin {"connecting", "sent", "queued", "linked", "ok", "dup", "kept"}
  BY <1>0, <1>2
     DEF ten_engine_check_remote_is_duplicated, ten_engine_check_remote_is_existed, Strong,
         Weak
<1>4. x # "kept"
  BY <1>1, <1>3 DEF PairOK, Established
<1>5. ~Strong(c, a, src)
  BY <1>0, <1>1, <1>4 DEF Strong
<1>6. src < a => PairOK("linked", x)
  BY <1>1, <1>3 DEF PairOK, Established, ConnStates
<1>7. a < src => PairOK(x, "linked")
  BY <1>1 DEF PairOK, Established, ConnStates
<1>8. "linked" \in ConnStates
  BY DEF ConnStates
<1> QED BY <1>0, <1>5, <1>6, <1>7, <1>8, EditOK

\* A connection that goes its way.
LEMMA MoveOK ==
  ASSUME NEW c, ConnOK(c), NEW a, NEW u, <<a, u>> \in Pairs, NEW s,
         \/ c[<<a, u>>] = "linked" /\ s = "ok"
         \/ c[<<a, u>>] = "connecting" /\ s = "sent"
         \/ c[<<a, u>>] = "sent" /\ s = "queued"
         \/ c[<<a, u>>] = "ok" /\ s = "kept"
         \/ c[<<a, u>>] = "dup" /\ s = "closing"
         \/ c[<<a, u>>] = "closing" /\ s = "dropped"
  PROVE  ConnOK([c EXCEPT ![<<a, u>>] = s])
<1>0. PICK x, y : x = c[<<a, u>>] /\ y = c[<<u, a>>]
  OBVIOUS
<1>1. /\ a < u => PairOK(x, y)
      /\ u < a => PairOK(y, x)
  BY <1>0, PairCases, Zenon
<1>2. a < u => PairOK(s, y)
  BY <1>0, <1>1 DEF PairOK, Established
<1>3. u < a => PairOK(y, s)
  BY <1>0, <1>1 DEF PairOK, Established
<1>4. s \in ConnStates
  BY DEF ConnStates
<1> QED BY <1>0, <1>2, <1>3, <1>4, EditOK

\* The smaller URI is told that its connection is a duplicate.
LEMMA DuplicateOK ==
  ASSUME NEW c, ConnOK(c), NEW a, NEW src, <<src, a>> \in Pairs,
         c[<<src, a>>] = "queued",
         ten_engine_check_remote_is_duplicated(c, a, src)
  PROVE  ConnOK([c EXCEPT ![<<src, a>>] = "dup"])
<1>0. PICK x, y : x = c[<<src, a>>] /\ y = c[<<a, src>>]
  OBVIOUS
<1>1. (src < a => PairOK(x, y)) /\ x = "queued"
  BY <1>0, PairCases, Zenon
<1>2. a \in Nat /\ src \in Nat /\ a # src
  BY PairFacts
<1>3. src < a /\ y \in {"connecting", "sent", "queued", "linked", "ok", "dup", "kept"}
  BY <1>0, <1>1, <1>2
     DEF ten_engine_check_remote_is_duplicated, ten_engine_check_remote_is_existed, Strong,
         Weak
<1>4. PairOK("dup", y)
  BY <1>1, <1>3 DEF PairOK, Established
<1>5. ~(a < src)
  BY <1>2, <1>3
<1>6. "dup" \in ConnStates
  BY DEF ConnStates
<1> QED BY <1>0, <1>4, <1>5, <1>6, EditOK

\* The larger URI gives up the connection it was creating.
LEMMA RefuseOK ==
  ASSUME NEW c, ConnOK(c), NEW a, NEW u, <<a, u>> \in Pairs,
         c[<<a, u>>] = "creating",
         ten_engine_check_remote_is_duplicated(c, a, u)
  PROVE  ConnOK([c EXCEPT ![<<a, u>>] = "refused"])
<1>0. PICK x, y : x = c[<<u, a>>] /\ y = c[<<a, u>>]
  OBVIOUS
<1>1. (u < a => PairOK(x, y)) /\ y = "creating"
  BY <1>0, PairCases, Zenon
<1>2. a \in Nat /\ u \in Nat /\ a # u
  BY PairFacts
<1>3. u < a /\ x \in Established
  BY <1>0, <1>1, <1>2
     DEF ten_engine_check_remote_is_duplicated, ten_engine_check_remote_is_existed, Strong,
         Weak, Established
<1>4. PairOK(x, "refused")
  BY <1>1, <1>3 DEF PairOK, Established
<1>5. ~(a < u)
  BY <1>2, <1>3
<1>6. "refused" \in ConnStates
  BY DEF ConnStates
<1> QED BY <1>0, <1>4, <1>5, <1>6, EditOK

\* The connection that was created becomes a weak remote.
LEMMA ConnectOK ==
  ASSUME NEW c, ConnOK(c), NEW a, NEW u, <<a, u>> \in Pairs,
         c[<<a, u>>] = "creating",
         ~ten_engine_check_remote_is_duplicated(c, a, u)
  PROVE  ConnOK([c EXCEPT ![<<a, u>>] = "connecting"])
<1>0. PICK x, y : x = c[<<u, a>>] /\ y = c[<<a, u>>]
  OBVIOUS
<1>1. /\ u < a => PairOK(x, y)
      /\ a < u => PairOK(y, x)
      /\ y = "creating"
  BY <1>0, PairCases, Zenon
<1>2. a \in Nat /\ u \in Nat /\ a # u
  BY PairFacts
<1>3. u < a => x \notin Established
  BY <1>0, <1>2
     DEF ten_engine_check_remote_is_duplicated, ten_engine_check_remote_is_existed, Strong,
         Weak, Established
<1>4. u < a => PairOK(x, "connecting")
  BY <1>1, <1>3 DEF PairOK, Established
<1>5. a < u => PairOK("connecting", x)
  BY <1>1 DEF PairOK, Established
<1>6. "connecting" \in ConnStates
  BY DEF ConnStates
<1> QED BY <1>0, <1>4, <1>5, <1>6, EditOK

\* Connections to neighbours without a remote are begun.
LEMMA NewOK ==
  ASSUME NEW c, ConnOK(c), NEW a, NEW new,
         \A u \in new : ~ten_engine_check_remote_is_existed(c, a, u),
         NEW d \in [Pairs -> ConnStates],
         \A b, v : <<b, v>> \in Pairs =>
           /\ b # a \/ v \notin new => d[<<b, v>>] = c[<<b, v>>]
           /\ b = a /\ v \in new => d[<<b, v>>] = "creating"
  PROVE  /\ ConnOK(d)
         /\ \A v \in new : c[<<a, v>>] \notin {"queued", "linked"}
<1>1. ASSUME NEW b, NEW v, <<b, v>> \in Pairs
      PROVE  /\ b # a \/ v \notin new => d[<<b, v>>] = c[<<b, v>>]
             /\ b = a /\ v \in new => d[<<b, v>>] = "creating"
  BY <1>1
<1>2. ASSUME NEW v \in new
      PROVE  /\ c[<<a, v>>] \notin {"connecting", "sent", "queued", "linked", "ok", "dup",
                                    "kept"}
             /\ c[<<v, a>>] \notin Established
  BY <1>2 DEF ten_engine_check_remote_is_existed, Strong, Weak, Established
<1>3. ASSUME NEW b \in Apps, NEW v \in Apps, <<b, v>> \in Pairs, b < v
      PROVE  PairOK(d[<<b, v>>], d[<<v, b>>])
  <2>0. PICK x, y : x = c[<<b, v>>] /\ y = c[<<v, b>>]
    OBVIOUS
  <2>1. PairOK(x, y)
    BY <2>0, <1>3 DEF ConnOK
  <2>2. <<v, b>> \in Pairs /\ b # v
    BY <1>3, PairFacts
  <2>3. CASE b = a /\ v \in new
    <3>1. d[<<b, v>>] = "creating" /\ d[<<v, b>>] = y
      BY <1>1, <1>3, <2>0, <2>2, <2>3
    <3>2. x \notin Established
      BY <1>2, <2>0, <2>3 DEF Established
    <3> QED BY <3>1, <3>2, <2>1 DEF PairOK, Established
  <2>4. CASE v = a /\ b \in new
    <3>1. d[<<v, b>>] = "creating" /\ d[<<b, v>>] = x
      BY <1>1, <1>3, <2>0, <2>2, <2>4
    <3>2. /\ x \notin Established
          /\ y \notin {"connecting", "sent", "queued", "linked", "ok", "dup", "kept"}
      BY <1>2, <2>0, <2>4
    <3> QED BY <3>1, <3>2, <2>1 DEF PairOK, Established
  <2>5. CASE ~(b = a /\ v \in new) /\ ~(v = a /\ b \in new)
    <3>1. d[<<b, v>>] = x /\ d[<<v, b>>] = y
      BY <1>1, <1>3, <2>0, <2>2, <2>5
    <3> QED BY <3>1, <2>1
  <2> QED BY <2>3, <2>4, <2>5
<1> QED BY <1>2, <1>3 DEF ConnOK

-----------------------------------------------------------------------------
(* Commands and results.                                                   *)

\* Everything TypeOK says except of the connections and the queues.
AppTypes ==
  /\ original \in [Apps -> {{}} \cup {{src} : src \in Apps \cup {Client}}]
  /\ waiting \in [Apps -> SUBSET Apps]
  /\ ext \in [Apps -> {"off", "starting", "on"}]
  /\ answered \in BOOLEAN
  /\ aborted \subseteq Apps

\* A step that leaves the connections as c shows them, and those of c that
\* wait in a queue, in order.
Keeps(c) ==
  /\ AppTypes'
  /\ ConnOK(conn')
  /\ \A b \in Apps : AppOK(conn, b)'
  /\ \A q \in Pairs : c[q] = "queued" => conn'[q] = "queued"

\* The answer to a command.
LEMMA AnswerOK ==
  ASSUME NEW c, ConnOK(c), NEW a \in Apps, NEW src,
         src = Client \/ (<<src, a>> \in Pairs /\ c[<<src, a>>] = "linked")
  PROVE  /\ ConnOK(ReturnOk(c, a, src))
         /\ \A b, v : <<b, v>> \in Pairs =>
              /\ v # a \/ b # src => ReturnOk(c, a, src)[<<b, v>>] = c[<<b, v>>]
              /\ v = a /\ b = src => ReturnOk(c, a, src)[<<b, v>>] = "ok"
                                     /\ c[<<b, v>>] = "linked"
<1>1. CASE src = Client
  <2>1. ReturnOk(c, a, src) = c
    BY <1>1 DEF ReturnOk
  <2>2. \A b, v : <<b, v>> \in Pairs => b # src
    BY <1>1, PairFacts, Zenon
  <2> QED BY <2>1, <2>2
<1>2. CASE src # Client
  <2>1. ReturnOk(c, a, src) = [c EXCEPT ![<<src, a>>] = "ok"]
    BY <1>2 DEF ReturnOk
  <2>2. <<src, a>> \in Pairs /\ c[<<src, a>>] = "linked"
    BY <1>2
  <2>3. ConnOK(ReturnOk(c, a, src))
    <3>1. ConnOK([c EXCEPT ![<<src, a>>] = "ok"])
      BY <2>2, MoveOK, Zenon
    <3> QED BY <2>1, <3>1
  <2>4. c \in [Pairs -> ConnStates] /\ "ok" \in ConnStates
    BY DEF ConnOK, ConnStates
  <2>5. /\ ReturnOk(c, a, src)[<<src, a>>] = "ok"
        /\ \A b, v : <<b, v>> \in Pairs /\ (b # src \/ v # a) =>
             ReturnOk(c, a, src)[<<b, v>>] = c[<<b, v>>]
    BY <2>1, <2>2, <2>4, Edit, ZenonT(60)
  <2> QED BY <2>2, <2>3, <2>5
<1> QED BY <1>1, <1>2

\* Starting the extension system, or answering because it runs: the app
\* waits for nobody then.
LEMMA EnableOK ==
  ASSUME AppTypes, NEW c, ConnOK(c), NEW a \in Apps, NEW src \in Apps \cup {Client},
         src = Client \/ (<<src, a>> \in Pairs /\ c[<<src, a>>] = "linked"),
         waiting' \in [Apps -> SUBSET Apps],
         waiting'[a] = {},
         ext[a] # "starting",
         \A u \in Apps : <<a, u>> \in Pairs => c[<<a, u>>] # "creating",
         \A b \in Apps \ {a} : AppOK(c, b) /\ waiting'[b] = waiting[b],
         EnableExtensionSystem(a, c, src)
  PROVE  Keeps(c)
<1>1. CASE ext[a] = "off"
  <2>1. /\ ext' = [ext EXCEPT ![a] = "starting"]
        /\ original' = [original EXCEPT ![a] = {src}]
        /\ conn' = c /\ answered' = answered /\ aborted' = aborted
    BY <1>1 DEF EnableExtensionSystem
  <2>2. original' \in [Apps -> {{}} \cup {{s} : s \in Apps \cup {Client}}]
    BY <2>1 DEF AppTypes
  <2>3. AppTypes'
    BY <2>1, <2>2 DEF AppTypes
  <2>4. ASSUME NEW b \in Apps
        PROVE  AppOK(conn, b)'
    <3>1. CASE b = a
      <4>1. original'[a] = {src} /\ ext'[a] = "starting"
        BY <2>1 DEF AppTypes
      <4> QED BY <3>1, <4>1, <2>1 DEF AppOK
    <3>2. CASE b # a
      <4>1. original'[b] = original[b] /\ ext'[b] = ext[b] /\ waiting'[b] = waiting[b]
        BY <2>1, <3>2 DEF AppTypes
      <4>2. AppOK(c, b)
        BY <3>2
      <4> QED BY <4>1, <4>2, <2>1 DEF AppOK
    <3> QED BY <3>1, <3>2
  <2> QED BY <2>1, <2>3, <2>4 DEF Keeps
<1>2. CASE ext[a] # "off"
  <2>1. /\ conn' = ReturnOk(c, a, src)
        /\ original' = [original EXCEPT ![a] = {}]
        /\ answered' = (answered \/ src = Client)
        /\ ext' = ext /\ aborted' = aborted
    BY <1>2 DEF EnableExtensionSystem
  <2>2. original' \in [Apps -> {{}} \cup {{s} : s \in Apps \cup {Client}}]
    BY <2>1 DEF AppTypes
  <2>3. answered' \in BOOLEAN
    BY <2>1, Zenon
  <2>4. AppTypes'
    BY <2>1, <2>2, <2>3 DEF AppTypes
  <2>5. /\ ConnOK(conn')
        /\ \A b, v : <<b, v>> \in Pairs =>
             /\ v # a \/ b # src => conn'[<<b, v>>] = c[<<b, v>>]
             /\ v = a /\ b = src => conn'[<<b, v>>] = "ok" /\ c[<<b, v>>] = "linked"
    <3>1. /\ ConnOK(ReturnOk(c, a, src))
          /\ \A b, v : <<b, v>> \in Pairs =>
               /\ v # a \/ b # src => ReturnOk(c, a, src)[<<b, v>>] = c[<<b, v>>]
               /\ v = a /\ b = src => ReturnOk(c, a, src)[<<b, v>>] = "ok"
                                      /\ c[<<b, v>>] = "linked"
      BY AnswerOK
    <3> QED BY <2>1, <3>1, Zenon
  <2>6. ASSUME NEW b \in Apps
        PROVE  AppOK(conn, b)'
    <3>0. \A u : <<b, u>> \in Pairs /\ conn'[<<b, u>>] = "creating" =>
             c[<<b, u>>] = "creating"
      BY <2>5
    <3>1. CASE b = a
      <4>1. original'[a] = {} /\ ext'[a] = ext[a]
        BY <2>1 DEF AppTypes
      <4> QED BY <3>0, <3>1, <4>1 DEF AppOK
    <3>2. CASE b # a
      <4>1. original'[b] = original[b] /\ ext'[b] = ext[b] /\ waiting'[b] = waiting[b]
        BY <2>1, <3>2 DEF AppTypes
      <4>2. AppOK(c, b)
        BY <3>2
      <4>3. \A s : <<s, b>> \in Pairs => conn'[<<s, b>>] = c[<<s, b>>]
        BY <2>5, <3>2
      <4> QED BY <3>0, <4>1, <4>2, <4>3 DEF AppOK
    <3> QED BY <3>1, <3>2
  <2>7. ASSUME NEW q \in Pairs, c[q] = "queued"
        PROVE  conn'[q] = "queued"
    <3>1. q = <<q[1], q[2]>>
      BY PairForm
    <3> QED BY <2>5, <2>7, <3>1
  <2> QED BY <2>4, <2>5, <2>6, <2>7 DEF Keeps
<1> QED BY <1>1, <1>2

\* The cases of a start_graph command.
LEMMA StartGraphCases ==
  ASSUME NEW a, NEW c, NEW src, HandleStartGraph(a, c, src), NEW new,
         new = {u \in Neighbors(a) : ~ten_engine_check_remote_is_existed(c, a, u)}
  PROVE  \/ new # {} /\ original[a] # {} /\ Abort(a)
         \/ /\ new # {} /\ original[a] = {}
            /\ original' = [original EXCEPT ![a] = {src}]
            /\ waiting' = [waiting EXCEPT ![a] = new]
            /\ conn' = [p \in Pairs |-> IF p[1] = a /\ p[2] \in new THEN "creating"
                                        ELSE c[p]]
            /\ UNCHANGED <<ext, answered, aborted>>
         \/ /\ new = {} /\ original[a] # {}
            /\ conn' = ReturnOk(c, a, src)
            /\ answered' = (answered \/ src = Client)
            /\ UNCHANGED <<original, waiting, ext, aborted>>
         \/ /\ new = {} /\ original[a] = {}
            /\ UNCHANGED waiting /\ EnableExtensionSystem(a, c, src)
<1>1. CASE new # {} /\ original[a] # {}
  BY <1>1, Zenon DEF HandleStartGraph
<1>2. CASE new # {} /\ original[a] = {}
  BY <1>2, Zenon DEF HandleStartGraph
<1>3. CASE new = {} /\ original[a] # {}
  BY <1>3, Zenon DEF HandleStartGraph
<1>4. CASE new = {} /\ original[a] = {}
  BY <1>4, Zenon DEF HandleStartGraph
<1> QED BY <1>1, <1>2, <1>3, <1>4

\* A start_graph command is handled in order, unless a second one finds a
\* neighbour without a remote while the first one is kept.
LEMMA StartGraphOK ==
  ASSUME AppTypes, NEW c, ConnOK(c), NEW a \in Apps, NEW src \in Apps \cup {Client},
         src = Client \/ (/\ <<src, a>> \in Pairs /\ c[<<src, a>>] = "linked"
                          /\ src \notin original[a]),
         \A b \in Apps : AppOK(c, b),
         HandleStartGraph(a, c, src)
  PROVE  \/ /\ Abort(a) /\ original[a] # {}
            /\ \E u \in Neighbors(a) : ~ten_engine_check_remote_is_existed(c, a, u)
         \/ Keeps(c) /\ aborted' = aborted
<1> DEFINE new == {u \in Neighbors(a) : ~ten_engine_check_remote_is_existed(c, a, u)}
<1>0. /\ new \subseteq Apps
      /\ \A u \in new : ~ten_engine_check_remote_is_existed(c, a, u)
      /\ new # {} => \E u \in Neighbors(a) : ~ten_engine_check_remote_is_existed(c, a, u)
  BY DEF Neighbors
<1>cases. \/ new # {} /\ original[a] # {} /\ Abort(a)
          \/ /\ new # {} /\ original[a] = {}
             /\ original' = [original EXCEPT ![a] = {src}]
             /\ waiting' = [waiting EXCEPT ![a] = new]
             /\ conn' = [p \in Pairs |-> IF p[1] = a /\ p[2] \in new THEN "creating"
                                         ELSE c[p]]
             /\ UNCHANGED <<ext, answered, aborted>>
          \/ /\ new = {} /\ original[a] # {}
             /\ conn' = ReturnOk(c, a, src)
             /\ answered' = (answered \/ src = Client)
             /\ UNCHANGED <<original, waiting, ext, aborted>>
          \/ /\ new = {} /\ original[a] = {}
             /\ UNCHANGED waiting /\ EnableExtensionSystem(a, c, src)
  BY StartGraphCases, Zenon
<1> HIDE DEF new
<1>1. CASE new # {} /\ original[a] # {} /\ Abort(a)
  BY <1>0, <1>1
<1>2. CASE /\ new # {} /\ original[a] = {}
           /\ original' = [original EXCEPT ![a] = {src}]
           /\ waiting' = [waiting EXCEPT ![a] = new]
           /\ conn' = [p \in Pairs |-> IF p[1] = a /\ p[2] \in new THEN "creating"
                                       ELSE c[p]]
           /\ UNCHANGED <<ext, answered, aborted>>
  <2>1. original' \in [Apps -> {{}} \cup {{s} : s \in Apps \cup {Client}}]
    BY <1>2 DEF AppTypes
  <2>2. AppTypes'
    BY <1>0, <1>2, <2>1 DEF AppTypes
  <2>0. \A b, v : <<b, v>> \in Pairs =>
          /\ b # a \/ v \notin new => conn'[<<b, v>>] = c[<<b, v>>]
          /\ b = a /\ v \in new => conn'[<<b, v>>] = "creating"
    BY <1>2
  <2>3. /\ ConnOK(conn')
        /\ \A v \in new : c[<<a, v>>] \notin {"queued", "linked"}
    <3>1. conn' \in [Pairs -> ConnStates]
      BY <1>2 DEF ConnOK, ConnStates
    <3> QED BY <1>0, <2>0, <3>1, NewOK, Zenon
  <2>4. \A b, v : <<b, v>> \in Pairs /\ c[<<b, v>>] \in {"linked", "queued"} =>
          conn'[<<b, v>>] = c[<<b, v>>]
    BY <2>0, <2>3
  <2>5. ASSUME NEW b \in Apps
        PROVE  AppOK(conn, b)'
    <3>0. AppOK(c, b)
      OBVIOUS
    <3>1. CASE b = a
      <4>1. original'[a] = {src} /\ waiting'[a] = new /\ ext'[a] = ext[a]
        BY <1>2 DEF AppTypes
      <4>2. ext[a] # "starting" /\ waiting[a] = {}
        BY <1>2, <3>0, <3>1 DEF AppOK
      <4>3. \A u \in Apps : <<a, u>> \in Pairs /\ conn'[<<a, u>>] = "creating" => u \in new
        BY <2>0, <3>0, <3>1, <4>2 DEF AppOK
      <4>4. src # Client => <<src, a>> \in Pairs /\ conn'[<<src, a>>] = "linked"
        BY <2>4
      <4> QED BY <3>1, <4>1, <4>2, <4>3, <4>4 DEF AppOK
    <3>2. CASE b # a
      <4>1. original'[b] = original[b] /\ waiting'[b] = waiting[b] /\ ext'[b] = ext[b]
        BY <1>2, <3>2 DEF AppTypes
      <4>2. \A u : <<b, u>> \in Pairs => conn'[<<b, u>>] = c[<<b, u>>]
        BY <2>0, <3>2
      <4> QED BY <2>4, <3>0, <4>1, <4>2 DEF AppOK
    <3> QED BY <3>1, <3>2
  <2>6. ASSUME NEW q \in Pairs, c[q] = "queued"
        PROVE  conn'[q] = "queued"
    <3>1. q = <<q[1], q[2]>>
      BY PairForm
    <3> QED BY <2>4, <2>6, <3>1
  <2> QED BY <1>2, <2>2, <2>3, <2>5, <2>6 DEF Keeps
<1>3. CASE /\ new = {} /\ original[a] # {}
           /\ conn' = ReturnOk(c, a, src)
           /\ answered' = (answered \/ src = Client)
           /\ UNCHANGED <<original, waiting, ext, aborted>>
  <2>1. answered' \in BOOLEAN
    BY <1>3, Zenon
  <2>2. AppTypes'
    BY <1>3, <2>1 DEF AppTypes
  <2>3. /\ ConnOK(conn')
        /\ \A b, v : <<b, v>> \in Pairs =>
             /\ v # a \/ b # src => conn'[<<b, v>>] = c[<<b, v>>]
             /\ v = a /\ b = src => conn'[<<b, v>>] = "ok" /\ c[<<b, v>>] = "linked"
    <3>1. /\ ConnOK(ReturnOk(c, a, src))
          /\ \A b, v : <<b, v>> \in Pairs =>
               /\ v # a \/ b # src => ReturnOk(c, a, src)[<<b, v>>] = c[<<b, v>>]
               /\ v = a /\ b = src => ReturnOk(c, a, src)[<<b, v>>] = "ok"
                                      /\ c[<<b, v>>] = "linked"
      BY AnswerOK
    <3> QED BY <1>3, <3>1, Zenon
  <2>4. ASSUME NEW b \in Apps
        PROVE  AppOK(conn, b)'
    <3>0. AppOK(c, b)
      OBVIOUS
    <3>1. original'[b] = original[b] /\ waiting'[b] = waiting[b] /\ ext'[b] = ext[b]
      BY <1>3
    <3>2. \A u : <<b, u>> \in Pairs /\ conn'[<<b, u>>] = "creating" =>
            c[<<b, u>>] = "creating"
      BY <2>3
    <3>3. ASSUME NEW s \in original[b], s # Client
          PROVE  <<s, b>> \in Pairs /\ conn'[<<s, b>>] = "linked"
      <4>1. <<s, b>> \in Pairs /\ c[<<s, b>>] = "linked"
        BY <3>0, <3>3 DEF AppOK
      <4>2. b # a \/ s # src
        BY <3>3
      <4> QED BY <2>3, <4>1, <4>2
    <3> QED BY <3>0, <3>1, <3>2, <3>3 DEF AppOK
  <2>5. ASSUME NEW q \in Pairs, c[q] = "queued"
        PROVE  conn'[q] = "queued"
    <3>1. q = <<q[1], q[2]>>
      BY PairForm
    <3> QED BY <2>3, <2>5, <3>1
  <2> QED BY <1>3, <2>2, <2>3, <2>4, <2>5 DEF Keeps
<1>4. CASE /\ new = {} /\ original[a] = {}
           /\ UNCHANGED waiting /\ EnableExtensionSystem(a, c, src)
  <2>1. AppOK(c, a)
    OBVIOUS
  <2>2. waiting[a] = {} /\ ext[a] # "starting"
    BY <1>4, <2>1 DEF AppOK
  <2>3. \A u \in Apps : <<a, u>> \in Pairs => c[<<a, u>>] # "creating"
    BY <2>1, <2>2 DEF AppOK
  <2>4. waiting' \in [Apps -> SUBSET Apps] /\ waiting'[a] = {}
    BY <1>4, <2>2 DEF AppTypes
  <2>5. \A b \in Apps \ {a} : AppOK(c, b) /\ waiting'[b] = waiting[b]
    BY <1>4
  <2>6. Keeps(c)
    BY <1>4, <2>2, <2>3, <2>4, <2>5, EnableOK
  <2>7. aborted' = aborted
    BY <1>4 DEF EnableExtensionSystem
  <2> QED BY <2>6, <2>7
<1> QED BY <1>cases, <1>1, <1>2, <1>3, <1>4

\* A result: app a hears of its connection to u, which is not being created
\* any more.
LEMMA ResultOkOK ==
  ASSUME AppTypes, NEW c, ConnOK(c), NEW a \in Apps, NEW u \in Apps,
         <<a, u>> \in Pairs, c[<<a, u>>] # "creating",
         \A b \in Apps : AppOK(c, b),
         ResultOk(a, c, u)
  PROVE  Keeps(c) /\ aborted' = aborted
<1>1. waiting' = [waiting EXCEPT ![a] = waiting[a] \ {u}]
  BY DEF ResultOk
<1>2. /\ waiting' \in [Apps -> SUBSET Apps]
      /\ waiting'[a] = waiting[a] \ {u}
      /\ \A b \in Apps \ {a} : waiting'[b] = waiting[b]
  BY <1>1 DEF AppTypes
<1>3. AppOK(c, a)
  OBVIOUS
<1>4. CASE u \in waiting[a] /\ waiting[a] \ {u} = {}
  <2>1. PICK src \in original[a] : EnableExtensionSystem(a, c, src)
    BY <1>4 DEF ResultOk
  <2>2. src \in Apps \cup {Client}
    <3>1. original[a] \in {{}} \cup {{s} : s \in Apps \cup {Client}}
      BY DEF AppTypes
    <3> QED BY <3>1
  <2>3. src = Client \/ (<<src, a>> \in Pairs /\ c[<<src, a>>] = "linked")
    BY <1>3 DEF AppOK
  <2>4. ext[a] # "starting"
    BY <1>3, <1>4 DEF AppOK
  <2>5. \A v \in Apps : <<a, v>> \in Pairs => c[<<a, v>>] # "creating"
    BY <1>3, <1>4 DEF AppOK
  <2>6. waiting'[a] = {}
    BY <1>2, <1>4
  <2>7. Keeps(c)
    BY <1>2, <2>1, <2>2, <2>3, <2>4, <2>5, <2>6, EnableOK
  <2>8. aborted' = aborted
    BY <2>1 DEF EnableExtensionSystem
  <2> QED BY <2>7, <2>8
<1>5. CASE ~(u \in waiting[a] /\ waiting[a] \ {u} = {})
  <2>1. conn' = c /\ UNCHANGED <<original, ext, answered, aborted>>
    BY <1>5 DEF ResultOk
  <2>2. AppTypes'
    BY <1>2, <2>1 DEF AppTypes
  <2>3. ASSUME NEW b \in Apps
        PROVE  AppOK(conn, b)'
    <3>0. AppOK(c, b)
      OBVIOUS
    <3>1. CASE b = a
      BY <1>2, <1>5, <2>1, <3>0, <3>1 DEF AppOK
    <3>2. CASE b # a
      BY <1>2, <2>1, <3>0, <3>2 DEF AppOK
    <3> QED BY <3>1, <3>2
  <2> QED BY <2>1, <2>2, <2>3 DEF Keeps
<1> QED BY <1>4, <1>5

-----------------------------------------------------------------------------
(* The queues.                                                             *)

\* TypeOK is what is said of the connections, the queues and the rest.
LEMMA TypeParts ==
  TypeOK <=> /\ conn \in [Pairs -> ConnStates]
             /\ in_msgs \in [Apps -> Seq(Apps \cup {Client})]
             /\ AppTypes
BY DEF TypeOK, AppTypes

\* The first command leaves the queue of app a, and its connection is the only
\* one that is not "queued" any more.
LEMMA QueueTail ==
  ASSUME in_msgs \in [Apps -> Seq(Apps \cup {Client})], NEW a \in Apps,
         in_msgs[a] # <<>>, in_msgs' = [in_msgs EXCEPT ![a] = Tail(@)],
         QueuesOK(conn),
         \A q \in Pairs : conn[q] = "queued" /\ q # <<Head(in_msgs[a]), a>> =>
                            conn'[q] = "queued"
  PROVE  in_msgs' \in [Apps -> Seq(Apps \cup {Client})] /\ QueuesOK(conn)'
<1> DEFINE s == in_msgs[a]
<1>1. /\ s \in Seq(Apps \cup {Client}) /\ s # <<>>
      /\ Tail(s) \in Seq(Apps \cup {Client})
      /\ Head(s) = s[1] /\ 1 \in DOMAIN s
      /\ \A i \in DOMAIN Tail(s) : i + 1 \in DOMAIN s /\ Tail(s)[i] = s[i + 1]
                                   /\ i \in Nat /\ i # 0
  OBVIOUS
<1>2. /\ in_msgs' \in [Apps -> Seq(Apps \cup {Client})]
      /\ in_msgs'[a] = Tail(s)
      /\ \A b \in Apps \ {a} : in_msgs'[b] = in_msgs[b]
  BY <1>1
<1>3. ASSUME NEW b \in Apps, NEW i \in DOMAIN in_msgs'[b], in_msgs'[b][i] # Client
      PROVE  /\ <<in_msgs'[b][i], b>> \in Pairs
             /\ conn'[<<in_msgs'[b][i], b>>] = "queued"
             /\ \A j \in DOMAIN in_msgs'[b] : in_msgs'[b][j] = in_msgs'[b][i] => j = i
  <2>1. CASE b # a
    <3>1. in_msgs'[b] = in_msgs[b]
      BY <1>2, <2>1
    <3>2. /\ <<in_msgs[b][i], b>> \in Pairs
          /\ conn[<<in_msgs[b][i], b>>] = "queued"
          /\ \A j \in DOMAIN in_msgs[b] : in_msgs[b][j] = in_msgs[b][i] => j = i
      BY <1>3, <3>1 DEF QueuesOK
    <3>3. <<in_msgs[b][i], b>> # <<Head(in_msgs[a]), a>>
      BY <2>1
    <3> QED BY <3>1, <3>2, <3>3
  <2>2. CASE b = a
    <3>1. i \in DOMAIN Tail(s) /\ in_msgs'[b] = Tail(s)
      BY <1>2, <2>2
    <3>2. i + 1 \in DOMAIN s /\ Tail(s)[i] = s[i + 1] /\ i + 1 # 1 /\ i \in Nat
      BY <1>1, <3>1
    <3>3. /\ <<s[i + 1], a>> \in Pairs
          /\ conn[<<s[i + 1], a>>] = "queued"
          /\ \A j \in DOMAIN s : s[j] = s[i + 1] => j = i + 1
      BY <1>3, <2>2, <3>1, <3>2 DEF QueuesOK
    <3>4. s[1] # s[i + 1]
      BY <1>1, <3>2, <3>3
    <3>5. <<s[i + 1], a>> # <<Head(s), a>>
      BY <1>1, <3>4
    <3>6. ASSUME NEW j \in DOMAIN Tail(s), Tail(s)[j] = Tail(s)[i]
          PROVE  j = i
      <4>1. j + 1 \in DOMAIN s /\ s[j + 1] = s[i + 1] /\ j \in Nat
        BY <1>1, <3>2, <3>6
      <4>2. j + 1 = i + 1
        BY <3>3, <4>1
      <4> QED BY <3>2, <4>1, <4>2
    <3> QED BY <2>2, <3>1, <3>2, <3>3, <3>5, <3>6
  <2> QED BY <2>1, <2>2
<1>4. QueuesOK(conn)'
  BY <1>3 DEF QueuesOK
<1> QED BY <1>2, <1>4

\* A command of app a is put into the queue of app u: none of its was there.
LEMMA QueueAppend ==
  ASSUME in_msgs \in [Apps -> Seq(Apps \cup {Client})], NEW a, NEW u,
         <<a, u>> \in Pairs, conn \in [Pairs -> ConnStates],
         in_msgs' = [in_msgs EXCEPT ![u] = Append(@, a)],
         QueuesOK(conn), conn[<<a, u>>] # "queued", conn'[<<a, u>>] = "queued",
         \A q \in Pairs : conn[q] = "queued" => conn'[q] = "queued"
  PROVE  in_msgs' \in [Apps -> Seq(Apps \cup {Client})] /\ QueuesOK(conn)'
<1> DEFINE s == in_msgs[u]
<1>0. a \in Apps /\ u \in Apps /\ a # Client
  BY PairFacts
<1>1. /\ s \in Seq(Apps \cup {Client})
      /\ Append(s, a) \in Seq(Apps \cup {Client})
      /\ \A i \in DOMAIN Append(s, a) :
           \/ i \in DOMAIN s /\ Append(s, a)[i] = s[i]
           \/ i = Len(s) + 1 /\ Append(s, a)[i] = a
  BY <1>0
<1>2. /\ in_msgs' \in [Apps -> Seq(Apps \cup {Client})]
      /\ in_msgs'[u] = Append(s, a)
      /\ \A b \in Apps \ {u} : in_msgs'[b] = in_msgs[b]
  BY <1>0, <1>1
<1>3. \A i \in DOMAIN s : s[i] # a
  BY <1>0 DEF QueuesOK
<1>4. ASSUME NEW b \in Apps, NEW i \in DOMAIN in_msgs'[b], in_msgs'[b][i] # Client
      PROVE  /\ <<in_msgs'[b][i], b>> \in Pairs
             /\ conn'[<<in_msgs'[b][i], b>>] = "queued"
             /\ \A j \in DOMAIN in_msgs'[b] : in_msgs'[b][j] = in_msgs'[b][i] => j = i
  <2>1. CASE b # u
    <3>1. in_msgs'[b] = in_msgs[b]
      BY <1>2, <2>1
    <3>2. /\ <<in_msgs[b][i], b>> \in Pairs
          /\ conn[<<in_msgs[b][i], b>>] = "queued"
          /\ \A j \in DOMAIN in_msgs[b] : in_msgs[b][j] = in_msgs[b][i] => j = i
      BY <1>4, <3>1 DEF QueuesOK
    <3> QED BY <3>1, <3>2
  <2>2. CASE b = u
    <3>0. in_msgs'[b] = Append(s, a)
      BY <1>2, <2>2
    <3>1. CASE i \in DOMAIN s /\ Append(s, a)[i] = s[i]
      <4>1. /\ <<s[i], u>> \in Pairs
            /\ conn[<<s[i], u>>] = "queued"
            /\ \A j \in DOMAIN s : s[j] = s[i] => j = i
        BY <1>0, <1>4, <2>2, <3>0, <3>1 DEF QueuesOK
      <4>2. \A j \in DOMAIN Append(s, a) : Append(s, a)[j] = s[i] => j = i
        BY <1>1, <1>3, <3>1, <4>1
      <4> QED BY <2>2, <3>0, <3>1, <4>1, <4>2
    <3>2. CASE i = Len(s) + 1 /\ Append(s, a)[i] = a
      <4>1. \A j \in DOMAIN Append(s, a) : Append(s, a)[j] = a => j = i
        BY <1>1, <1>3, <3>2
      <4> QED BY <2>2, <3>0, <3>2, <4>1
    <3> QED BY <1>1, <1>4, <3>0, <3>1, <3>2
  <2> QED BY <2>1, <2>2
<1>5. QueuesOK(conn)'
  BY <1>4 DEF QueuesOK
<1> QED BY <1>2, <1>5

-----------------------------------------------------------------------------
(* The actions.                                                            *)

\* A connection changes that was not the one of a command an app keeps.
LEMMA EditApps ==
  ASSUME NEW c \in [Pairs -> ConnStates], \A b \in Apps : AppOK(c, b),
         NEW a, NEW u, <<a, u>> \in Pairs, c[<<a, u>>] # "linked",
         NEW s \in ConnStates, s # "creating",
         NEW d, d = [c EXCEPT ![<<a, u>>] = s]
  PROVE  \A b \in Apps : AppOK(d, b)
<1>1. /\ d[<<a, u>>] = s
      /\ \A b, v : <<b, v>> \in Pairs /\ (b # a \/ v # u) => d[<<b, v>>] = c[<<b, v>>]
  BY Edit, Zenon
<1>2. \A b, v : <<b, v>> \in Pairs =>
        /\ c[<<b, v>>] = "linked" => d[<<b, v>>] = "linked"
        /\ d[<<b, v>>] = "creating" => c[<<b, v>>] = "creating"
  BY <1>1
<1> SUFFICES ASSUME NEW b \in Apps
             PROVE  AppOK(d, b)
  OBVIOUS
<1>3. AppOK(c, b)
  OBVIOUS
<1> QED BY <1>2, <1>3 DEF AppOK

\* A step that keeps things in order and does not touch the queues.
LEMMA KeepsIInv ==
  ASSUME IInv, NEW c, Keeps(c), in_msgs' = in_msgs,
         \A q \in Pairs : conn[q] = "queued" => c[q] = "queued"
  PROVE  IInv'
<1>1. \A q \in Pairs : conn[q] = "queued" => conn'[q] = "queued"
  BY DEF Keeps
<1>2. QueuesOK(conn)'
  BY <1>1 DEF IInv, QueuesOK
<1>3. conn' \in [Pairs -> ConnStates]
  BY DEF Keeps, ConnOK
<1>4. TypeOK'
  BY <1>3 DEF Keeps, AppTypes, IInv, TypeOK
<1> QED BY <1>2, <1>4 DEF Keeps, IInv

\* A step of which only the connection <<a, u>> takes part.
LEMMA EditIInv ==
  ASSUME IInv, NEW a, NEW u, <<a, u>> \in Pairs, NEW s \in ConnStates,
         conn[<<a, u>>] # "linked", s # "creating", conn[<<a, u>>] # "queued",
         conn' = [conn EXCEPT ![<<a, u>>] = s], ConnOK(conn'),
         UNCHANGED <<in_msgs, original, waiting, ext, answered, aborted>>
  PROVE  IInv'
<1>1. conn \in [Pairs -> ConnStates] /\ \A b \in Apps : AppOK(conn, b)
  BY DEF IInv, TypeOK
<1>2. \A b \in Apps : AppOK(conn', b)
  BY <1>1, EditApps
<1>3. \A b \in Apps : AppOK(conn, b)'
  BY <1>2 DEF AppOK
<1>4. \A q \in Pairs : q # <<a, u>> => conn'[q] = conn[q]
  BY <1>1
<1>5. \A q \in Pairs : conn[q] = "queued" => conn'[q] = "queued"
  BY <1>4
<1>6. AppTypes'
  BY DEF IInv, TypeOK, AppTypes
<1>7. Keeps(conn)
  BY <1>3, <1>5, <1>6 DEF Keeps
<1> QED BY <1>7, KeepsIInv

\* An app that has failed an assertion and stops.
LEMMA AbortIInv ==
  ASSUME IInv, NEW a \in Apps, Abort(a),
         in_msgs' \in [Apps -> Seq(Apps \cup {Client})], QueuesOK(conn)'
  PROVE  IInv'
<1>1. /\ aborted' = aborted \cup {a}
      /\ UNCHANGED <<conn, original, waiting, ext, answered>>
  BY DEF Abort
<1>2. TypeOK'
  BY <1>1 DEF IInv, TypeOK
<1>3. ConnOK(conn)'
  BY <1>1 DEF IInv, ConnOK
<1>4. \A b \in Apps : AppOK(conn, b)'
  BY <1>1 DEF IInv, AppOK
<1> QED BY <1>2, <1>3, <1>4 DEF IInv

\* The first command in the queue of app a.
LEMMA HandleInMsgs ==
  ASSUME IInv, NEW a \in Apps, ten_engine_handle_in_msgs_sync(a)
  PROVE  /\ IInv'
         /\ \/ aborted' = aborted
            \/ /\ original[a] # {} /\ aborted' = aborted \cup {a}
               /\ \E u \in Neighbors(a) :
                    /\ u # Head(in_msgs[a])
                    /\ ~ten_engine_check_remote_is_existed(conn, a, u)
<1> DEFINE src == Head(in_msgs[a])
<1> DEFINE linked == [conn EXCEPT ![<<src, a>>] = "linked"]
<1>1. /\ in_msgs[a] # <<>>
      /\ in_msgs' = [in_msgs EXCEPT ![a] = Tail(@)]
      /\ \/ src = Client /\ HandleStartGraph(a, conn, src)
         \/ /\ src # Client /\ ten_engine_check_remote_is_duplicated(conn, a, src)
            /\ conn' = [conn EXCEPT ![<<src, a>>] = "dup"]
            /\ UNCHANGED <<original, waiting, ext, answered, aborted>>
         \/ /\ src # Client /\ ~ten_engine_check_remote_is_duplicated(conn, a, src)
            /\ Strong(conn, a, src) /\ Abort(a)
         \/ /\ src # Client /\ ~ten_engine_check_remote_is_duplicated(conn, a, src)
            /\ ~Strong(conn, a, src)
            /\ HandleStartGraph(a, linked, src)
  BY Zenon DEF ten_engine_handle_in_msgs_sync
<1>2. /\ in_msgs \in [Apps -> Seq(Apps \cup {Client})]
      /\ conn \in [Pairs -> ConnStates]
      /\ AppTypes /\ ConnOK(conn) /\ QueuesOK(conn)
      /\ \A b \in Apps : AppOK(conn, b)
  BY TypeParts DEF IInv
<1>3. 1 \in DOMAIN in_msgs[a] /\ src = in_msgs[a][1] /\ src \in Apps \cup {Client}
  BY <1>1, <1>2
<1>4. src # Client => <<src, a>> \in Pairs /\ conn[<<src, a>>] = "queued"
  BY <1>2, <1>3 DEF QueuesOK
<1>tail. ASSUME \A q \in Pairs : conn[q] = "queued" /\ q # <<src, a>> => conn'[q] = "queued"
         PROVE  in_msgs' \in [Apps -> Seq(Apps \cup {Client})] /\ QueuesOK(conn)'
  BY <1>1, <1>2, <1>tail, QueueTail
<1>keeps. ASSUME NEW c, Keeps(c),
                 \A q \in Pairs : conn[q] = "queued" /\ q # <<src, a>> => c[q] = "queued"
          PROVE  IInv'
  <2>1. \A q \in Pairs : conn[q] = "queued" /\ q # <<src, a>> => conn'[q] = "queued"
    BY <1>keeps DEF Keeps
  <2>2. conn' \in [Pairs -> ConnStates]
    BY <1>keeps DEF Keeps, ConnOK
  <2>3. TypeOK'
    BY <1>tail, <1>keeps, <2>1, <2>2 DEF Keeps, AppTypes, TypeOK
  <2> QED BY <1>tail, <1>keeps, <2>1, <2>3 DEF Keeps, IInv
<1>aborts. ASSUME Abort(a)
           PROVE  IInv'
  <2>1. conn' = conn
    BY <1>aborts DEF Abort
  <2> QED BY <1>tail, <1>aborts, <2>1, AbortIInv
<1> HIDE DEF src
<1>5. CASE src = Client /\ HandleStartGraph(a, conn, src)
  <2>1. \/ /\ Abort(a) /\ original[a] # {}
           /\ \E u \in Neighbors(a) : ~ten_engine_check_remote_is_existed(conn, a, u)
        \/ Keeps(conn) /\ aborted' = aborted
    BY <1>2, <1>3, <1>5, StartGraphOK
  <2>2. CASE Keeps(conn) /\ aborted' = aborted
    BY <1>keeps, <2>2
  <2>3. CASE /\ Abort(a) /\ original[a] # {}
             /\ \E u \in Neighbors(a) : ~ten_engine_check_remote_is_existed(conn, a, u)
    <3>1. \A u \in Neighbors(a) : u # src
      BY <1>5, AppsAssumption DEF Neighbors, Client
    <3> QED BY <1>aborts, <2>3, <3>1 DEF Abort, src
  <2> QED BY <2>1, <2>2, <2>3
<1>6. CASE /\ src # Client /\ ten_engine_check_remote_is_duplicated(conn, a, src)
           /\ conn' = [conn EXCEPT ![<<src, a>>] = "dup"]
           /\ UNCHANGED <<original, waiting, ext, answered, aborted>>
  <2>1. ConnOK(conn')
    BY <1>2, <1>4, <1>6, DuplicateOK
  <2>2. "dup" \in ConnStates
    BY DEF ConnStates
  <2>3. \A b \in Apps : AppOK(conn', b)
    BY <1>2, <1>4, <1>6, <2>2, EditApps
  <2>4. \A b \in Apps : AppOK(conn, b)'
    BY <1>6, <2>3 DEF AppOK
  <2>5. \A q \in Pairs : q # <<src, a>> => conn'[q] = conn[q]
    BY <1>2, <1>6
  <2>6. AppTypes'
    BY <1>2, <1>6 DEF AppTypes
  <2>7. Keeps(conn')
    BY <2>1, <2>4, <2>6 DEF Keeps
  <2> QED BY <1>6, <1>keeps, <2>5, <2>7
<1>7. CASE /\ src # Client /\ ~ten_engine_check_remote_is_duplicated(conn, a, src)
           /\ Strong(conn, a, src) /\ Abort(a)
  BY <1>2, <1>4, <1>7, LinkOK
<1>8. CASE /\ src # Client /\ ~ten_engine_check_remote_is_duplicated(conn, a, src)
           /\ ~Strong(conn, a, src)
           /\ HandleStartGraph(a, linked, src)
  <2>1. ConnOK(linked)
    BY <1>2, <1>4, <1>8, LinkOK
  <2>2. "linked" \in ConnStates /\ "linked" # "creating"
    BY DEF ConnStates
  <2>3. \A b \in Apps : AppOK(linked, b)
    BY <1>2, <1>4, <1>8, <2>2, EditApps
  <2>4. linked[<<src, a>>] = "linked" /\ \A q \in Pairs : q # <<src, a>> => linked[q] = conn[q]
    BY <1>2, <1>4, <1>8
  <2>5. src \notin original[a]
    BY <1>2, <1>4, <1>8 DEF AppOK
  <2>6. \/ /\ Abort(a) /\ original[a] # {}
           /\ \E u \in Neighbors(a) : ~ten_engine_check_remote_is_existed(linked, a, u)
        \/ Keeps(linked) /\ aborted' = aborted
    BY <1>2, <1>3, <1>4, <1>8, <2>1, <2>3, <2>4, <2>5, StartGraphOK
  <2>7. CASE Keeps(linked) /\ aborted' = aborted
    BY <1>keeps, <2>4, <2>7
  <2>8. CASE /\ Abort(a) /\ original[a] # {}
             /\ \E u \in Neighbors(a) : ~ten_engine_check_remote_is_existed(linked, a, u)
    <3>1. PICK u \in Neighbors(a) : ~ten_engine_check_remote_is_existed(linked, a, u)
      BY <2>8
    <3>2. u # src
      BY <2>4, <3>1 DEF ten_engine_check_remote_is_existed, Strong
    <3>3. <<a, u>> \in Pairs /\ <<u, a>> \in Pairs
      BY <3>1, PairFacts DEF Neighbors, Pairs
    <3>4. <<a, u>> # <<src, a>> /\ <<u, a>> # <<src, a>>
      BY <3>2, <3>3, PairFacts
    <3>5. linked[<<a, u>>] = conn[<<a, u>>] /\ linked[<<u, a>>] = conn[<<u, a>>]
      BY <2>4, <3>3, <3>4
    <3>6. ~ten_engine_check_remote_is_existed(conn, a, u)
      BY <3>1, <3>5 DEF ten_engine_check_remote_is_existed, Strong, Weak
    <3> QED BY <1>aborts, <2>8, <3>2, <3>6 DEF Abort, src
  <2> QED BY <2>6, <2>7, <2>8
<1> QED BY <1>1, <1>5, <1>6, <1>7, <1>8

\* The protocol of a connection is there: the app still keeps the command for
\* which it was created.
LEMMA CreatedStep ==
  ASSUME IInv, NEW a, NEW u, <<a, u>> \in Pairs, RemoteCreated(a, u)
  PROVE  IInv' /\ aborted' = aborted
<1>0. a \in Apps /\ u \in Apps
  BY PairFacts
<1>1. /\ conn \in [Pairs -> ConnStates]
      /\ AppTypes /\ ConnOK(conn)
      /\ \A b \in Apps : AppOK(conn, b)
  BY TypeParts DEF IInv
<1>2. conn[<<a, u>>] = "creating" /\ in_msgs' = in_msgs
  BY DEF RemoteCreated
<1>3. original[a] # {}
  BY <1>0, <1>1, <1>2 DEF AppOK
<1>4. CASE ten_engine_check_remote_is_duplicated(conn, a, u)
  <2> DEFINE c == [conn EXCEPT ![<<a, u>>] = "refused"]
  <2>1. ResultOk(a, c, u)
    BY <1>3, <1>4, Zenon DEF RemoteCreated
  <2>2. ConnOK(c)
    BY <1>1, <1>2, <1>4, RefuseOK
  <2>3. "refused" \in ConnStates /\ "refused" # "creating"
    BY DEF ConnStates
  <2>4. \A b \in Apps : AppOK(c, b)
    BY <1>1, <1>2, <2>3, EditApps
  <2>5. c[<<a, u>>] = "refused" /\ \A q \in Pairs : q # <<a, u>> => c[q] = conn[q]
    BY <1>1
  <2> HIDE DEF c
  <2>6. Keeps(c) /\ aborted' = aborted
    BY <1>0, <1>1, <2>1, <2>2, <2>4, <2>5, ResultOkOK
  <2>7. \A q \in Pairs : conn[q] = "queued" => c[q] = "queued"
    BY <1>2, <2>5
  <2> QED BY <1>2, <2>6, <2>7, KeepsIInv
<1>5. CASE ~ten_engine_check_remote_is_duplicated(conn, a, u)
  <2>1. /\ conn' = [conn EXCEPT ![<<a, u>>] = "connecting"]
        /\ UNCHANGED <<original, waiting, ext, answered, aborted>>
    BY <1>3, <1>5, Zenon DEF RemoteCreated
  <2>2. ConnOK(conn')
    BY <1>1, <1>2, <1>5, <2>1, ConnectOK
  <2>3. "connecting" \in ConnStates
    BY DEF ConnStates
  <2> QED BY <1>2, <2>1, <2>2, <2>3, EditIInv
<1> QED BY <1>4, <1>5

\* The command goes out over a connection.
LEMMA ConnectedStep ==
  ASSUME IInv, NEW a, NEW u, <<a, u>> \in Pairs, RemoteConnected(a, u)
  PROVE  IInv' /\ aborted' = aborted
<1>1. /\ conn[<<a, u>>] = "connecting"
      /\ conn' = [conn EXCEPT ![<<a, u>>] = "sent"]
      /\ UNCHANGED <<in_msgs, original, waiting, ext, answered, aborted>>
  BY DEF RemoteConnected
<1>2. ConnOK([conn EXCEPT ![<<a, u>>] = "sent"])
  BY <1>1, MoveOK, Zenon DEF IInv
<1>3. "sent" \in ConnStates
  BY DEF ConnStates
<1> QED BY <1>1, <1>2, <1>3, EditIInv

\* The command is put into the queue of the other app.
LEMMA AppHandlesStep ==
  ASSUME IInv, NEW a, NEW u, <<a, u>> \in Pairs, ten_app_handle_start_graph_cmd(a, u)
  PROVE  IInv' /\ aborted' = aborted
<1>1. /\ conn[<<a, u>>] = "sent"
      /\ conn' = [conn EXCEPT ![<<a, u>>] = "queued"]
      /\ in_msgs' = [in_msgs EXCEPT ![u] = Append(@, a)]
      /\ UNCHANGED <<original, waiting, ext, answered, aborted>>
  BY DEF ten_app_handle_start_graph_cmd
<1>2. ConnOK([conn EXCEPT ![<<a, u>>] = "queued"])
  BY <1>1, MoveOK, Zenon DEF IInv
<1>3. "queued" \in ConnStates /\ "queued" # "creating"
  BY DEF ConnStates
<1>4. /\ conn \in [Pairs -> ConnStates] /\ AppTypes
      /\ in_msgs \in [Apps -> Seq(Apps \cup {Client})]
      /\ QueuesOK(conn)
      /\ \A b \in Apps : AppOK(conn, b)
  BY TypeParts DEF IInv
<1>5. \A b \in Apps : AppOK(conn', b)
  BY <1>1, <1>3, <1>4, EditApps
<1>6. \A b \in Apps : AppOK(conn, b)'
  BY <1>1, <1>5 DEF AppOK
<1>7. conn'[<<a, u>>] = "queued" /\ \A q \in Pairs : q # <<a, u>> => conn'[q] = conn[q]
  BY <1>1, <1>4
<1>8. \A q \in Pairs : conn[q] = "queued" => conn'[q] = "queued"
  BY <1>7
<1>9. conn[<<a, u>>] # "queued"
  BY <1>1
<1>10. in_msgs' \in [Apps -> Seq(Apps \cup {Client})] /\ QueuesOK(conn)'
  BY <1>1, <1>4, <1>7, <1>8, <1>9, QueueAppend
<1>11. TypeOK'
  BY <1>1, <1>2, <1>4, <1>10 DEF AppTypes, ConnOK, TypeOK
<1>12. ConnOK(conn')
  BY <1>1, <1>2
<1> QED BY <1>1, <1>6, <1>10, <1>11, <1>12 DEF IInv

\* The result of the other app: the connection is kept or closed.
LEMMA ResultStep ==
  ASSUME IInv, NEW a, NEW u, <<a, u>> \in Pairs,
         ten_engine_handle_cmd_result_for_cmd_start_graph(a, u)
  PROVE  IInv' /\ aborted' = aborted
<1>0. a \in Apps /\ u \in Apps
  BY PairFacts
<1>1. /\ conn \in [Pairs -> ConnStates]
      /\ AppTypes /\ ConnOK(conn)
      /\ \A b \in Apps : AppOK(conn, b)
  BY TypeParts DEF IInv
<1> DEFINE s == IF conn[<<a, u>>] = "ok" THEN "kept" ELSE "closing"
           c == [conn EXCEPT ![<<a, u>>] = s]
<1>2. conn[<<a, u>>] \in {"ok", "dup"} /\ in_msgs' = in_msgs /\ ResultOk(a, c, u)
  BY DEF ten_engine_handle_cmd_result_for_cmd_start_graph
<1>3. s \in ConnStates /\ s # "creating"
  BY DEF ConnStates
<1>4. \/ conn[<<a, u>>] = "ok" /\ s = "kept"
      \/ conn[<<a, u>>] = "dup" /\ s = "closing"
  BY <1>2
<1> HIDE DEF s
<1>5. ConnOK(c)
  BY <1>1, <1>4, MoveOK
<1>6. \A b \in Apps : AppOK(c, b)
  BY <1>1, <1>2, <1>3, EditApps
<1>7. c[<<a, u>>] = s /\ \A q \in Pairs : q # <<a, u>> => c[q] = conn[q]
  BY <1>1
<1> HIDE DEF c
<1>8. Keeps(c) /\ aborted' = aborted
  BY <1>0, <1>1, <1>2, <1>3, <1>5, <1>6, <1>7, ResultOkOK
<1>9. \A q \in Pairs : conn[q] = "queued" => c[q] = "queued"
  BY <1>2, <1>7
<1> QED BY <1>2, <1>8, <1>9, KeepsIInv

\* The other end of a duplicate is closed.
LEMMA ClosedStep ==
  ASSUME IInv, NEW a, NEW u, <<a, u>> \in Pairs,
         ten_engine_on_orphan_connection_closed(a, u)
  PROVE  IInv' /\ aborted' = aborted
<1>1. /\ conn[<<a, u>>] = "closing"
      /\ conn' = [conn EXCEPT ![<<a, u>>] = "dropped"]
      /\ UNCHANGED <<in_msgs, original, waiting, ext, answered, aborted>>
  BY DEF ten_engine_on_orphan_connection_closed
<1>2. ConnOK([conn EXCEPT ![<<a, u>>] = "dropped"])
  BY <1>1, MoveOK, Zenon DEF IInv
<1>3. "dropped" \in ConnStates
  BY DEF ConnStates
<1> QED BY <1>1, <1>2, <1>3, EditIInv

\* The extension threads of an app are ready.
LEMMA ReadyStep ==
  ASSUME IInv, NEW a \in Apps, ExtensionThreadsReady(a)
  PROVE  IInv' /\ aborted' = aborted
<1>1. /\ conn \in [Pairs -> ConnStates]
      /\ AppTypes /\ ConnOK(conn)
      /\ \A b \in Apps : AppOK(conn, b)
  BY TypeParts DEF IInv
<1>2. PICK src \in original[a] : /\ conn' = ReturnOk(conn, a, src)
                                 /\ answered' = (answered \/ src = Client)
  BY DEF ExtensionThreadsReady
<1>3. /\ ext[a] = "starting" /\ ext' = [ext EXCEPT ![a] = "on"]
      /\ original' = [original EXCEPT ![a] = {}]
      /\ in_msgs' = in_msgs /\ waiting' = waiting /\ aborted' = aborted
  BY DEF ExtensionThreadsReady
<1>4. src = Client \/ (<<src, a>> \in Pairs /\ conn[<<src, a>>] = "linked")
  BY <1>1 DEF AppOK
<1>5. original' \in [Apps -> {{}} \cup {{s} : s \in Apps \cup {Client}}]
  BY <1>1, <1>3 DEF AppTypes
<1>6. answered' \in BOOLEAN
  BY <1>2, Zenon
<1>7. AppTypes'
  BY <1>1, <1>3, <1>5, <1>6 DEF AppTypes
<1>8. /\ ConnOK(conn')
      /\ \A b, v : <<b, v>> \in Pairs =>
           /\ v # a \/ b # src => conn'[<<b, v>>] = conn[<<b, v>>]
           /\ v = a /\ b = src => conn'[<<b, v>>] = "ok" /\ conn[<<b, v>>] = "linked"
  <2>1. /\ ConnOK(ReturnOk(conn, a, src))
        /\ \A b, v : <<b, v>> \in Pairs =>
             /\ v # a \/ b # src => ReturnOk(conn, a, src)[<<b, v>>] = conn[<<b, v>>]
             /\ v = a /\ b = src => ReturnOk(conn, a, src)[<<b, v>>] = "ok"
                                    /\ conn[<<b, v>>] = "linked"
    BY <1>1, <1>4, AnswerOK
  <2> QED BY <1>2, <2>1, Zenon
<1>9. ASSUME NEW b \in Apps
      PROVE  AppOK(conn, b)'
  <2>0. AppOK(conn, b) /\ waiting'[b] = waiting[b]
    BY <1>1, <1>3
  <2>1. \A u : <<b, u>> \in Pairs /\ conn'[<<b, u>>] = "creating" =>
          conn[<<b, u>>] = "creating"
    BY <1>8
  <2>2. CASE b = a
    <3>1. original'[a] = {} /\ ext'[a] = "on" /\ waiting[a] = {}
      BY <1>1, <1>3 DEF AppTypes, AppOK
    <3> QED BY <2>0, <2>1, <2>2, <3>1 DEF AppOK
  <2>3. CASE b # a
    <3>1. original'[b] = original[b] /\ ext'[b] = ext[b]
      BY <1>1, <1>3, <2>3 DEF AppTypes
    <3>2. \A s : <<s, b>> \in Pairs => conn'[<<s, b>>] = conn[<<s, b>>]
      BY <1>8, <2>3
    <3> QED BY <2>0, <2>1, <3>1, <3>2 DEF AppOK
  <2> QED BY <2>2, <2>3
<1>10. ASSUME NEW q \in Pairs, conn[q] = "queued"
       PROVE  conn'[q] = "queued"
  <2>1. q = <<q[1], q[2]>>
    BY PairForm
  <2> QED BY <1>8, <1>10, <2>1
<1>11. Keeps(conn)
  BY <1>7, <1>8, <1>9, <1>10 DEF Keeps
<1> QED BY <1>3, <1>11, KeepsIInv

-----------------------------------------------------------------------------
(* Theorems.                                                               *)

\* Every step keeps the invariant, and one kind of step only ends an app.
LEMMA NextStep ==
  ASSUME IInv, Next
  PROVE  /\ IInv'
         /\ \/ aborted' = aborted
            \/ \E a \in Apps : /\ ten_engine_handle_in_msgs_sync(a)
                               /\ SecondCommandFinds(a)
                               /\ aborted' = aborted \cup {a}
<1>1. ASSUME NEW a \in Apps, ten_engine_handle_in_msgs_sync(a)
      PROVE  /\ IInv'
             /\ \/ aborted' = aborted
                \/ SecondCommandFinds(a) /\ aborted' = aborted \cup {a}
  BY <1>1, HandleInMsgs DEF SecondCommandFinds
<1>2. ASSUME NEW a \in Apps, ExtensionThreadsReady(a)
      PROVE  IInv' /\ aborted' = aborted
  BY <1>2, ReadyStep
<1>3. ASSUME NEW p \in Pairs, ConnMoves(p[1], p[2])
      PROVE  IInv' /\ aborted' = aborted
  <2>1. <<p[1], p[2]>> \in Pairs
    BY PairForm
  <2>2. CASE RemoteCreated(p[1], p[2])
    BY <2>1, <2>2, CreatedStep
  <2>3. CASE RemoteConnected(p[1], p[2])
    BY <2>1, <2>3, ConnectedStep
  <2>4. CASE ten_app_handle_start_graph_cmd(p[1], p[2])
    BY <2>1, <2>4, AppHandlesStep
  <2>5. CASE ten_engine_handle_cmd_result_for_cmd_start_graph(p[1], p[2])
    BY <2>1, <2>5, ResultStep
  <2>6. CASE ten_engine_on_orphan_connection_closed(p[1], p[2])
    BY <2>1, <2>6, ClosedStep
  <2> QED BY <1>3, <2>2, <2>3, <2>4, <2>5, <2>6 DEF ConnMoves
<1> QED BY <1>1, <1>2, <1>3 DEF Next

\* Every reachable state of AppChannels satisfies IInv: the connections of a
\* pair fit together, a queue holds unanswered commands once, and an app
\* that waits keeps the command it waits for.
THEOREM Invariance == Spec => []IInv
<1>1. Init => IInv
  <2> SUFFICES ASSUME Init
               PROVE  IInv
    OBVIOUS
  <2>1. PICK root \in Roots :
          in_msgs = [a \in Apps |-> IF a = root THEN <<Client>> ELSE <<>>]
    BY DEF Init
  <2>2. in_msgs \in [Apps -> Seq(Apps \cup {Client})]
    <3>1. <<Client>> \in Seq(Apps \cup {Client}) /\ <<>> \in Seq(Apps \cup {Client})
      OBVIOUS
    <3> QED BY <2>1, <3>1
  <2>3. original = [a \in Apps |-> {}] /\ waiting = [a \in Apps |-> {}]
    BY DEF Init
  <2>4. original \in [Apps -> {{}} \cup {{src} : src \in Apps \cup {Client}}]
    BY <2>3
  <2>5. TypeOK
    BY <2>2, <2>3, <2>4 DEF Init, TypeOK, ConnStates
  <2>6. ConnOK(conn)
    <3>1. conn \in [Pairs -> ConnStates] /\ \A q \in Pairs : conn[q] = "none"
      BY DEF Init, ConnStates
    <3>2. ASSUME NEW a \in Apps, NEW u \in Apps, <<a, u>> \in Pairs
          PROVE  PairOK(conn[<<a, u>>], conn[<<u, a>>])
      <4>1. <<u, a>> \in Pairs
        BY <3>2, PairFacts
      <4> QED BY <3>1, <3>2, <4>1 DEF PairOK, Established
    <3> QED BY <3>1, <3>2 DEF ConnOK
  <2>7. QueuesOK(conn)
    BY <2>1 DEF QueuesOK
  <2>8. \A a \in Apps : AppOK(conn, a)
    BY <2>3 DEF Init, AppOK
  <2> QED BY <2>5, <2>6, <2>7, <2>8 DEF IInv
<1>2. IInv /\ [Next]_vars => IInv'
  <2>1. ASSUME IInv, Next
        PROVE  IInv'
    BY <2>1, NextStep
  <2>2. ASSUME IInv, UNCHANGED vars
        PROVE  IInv'
    BY <2>2 DEF vars, IInv, TypeOK, ConnOK, QueuesOK, AppOK
  <2> QED BY <2>1, <2>2
<1> QED BY <1>1, <1>2, PTL DEF Spec

\* However many apps connect to each other at the same time and whatever
\* graph they form, two of them never share two channels, and none gives up
\* its connection without another one in its place
\* (ten_engine_check_remote_is_duplicated).
THEOREM OneChannelAnyGraph == Spec => []OneChannel
<1>1. IInv => OneChannel
  <2> SUFFICES ASSUME IInv, NEW p \in Pairs
               PROVE  LET back == conn[<<p[2], p[1]>>] IN
                        /\ conn[p] = "kept" => back \notin {"linked", "ok", "kept"}
                        /\ conn[p] \in {"refused", "closing", "dropped"} =>
                             back \notin {"none", "creating", "refused", "dup", "closing",
                                          "dropped"}
    BY DEF OneChannel, IInv
  <2>1. PICK a, u : p = <<a, u>> /\ a = p[1] /\ u = p[2]
    BY PairForm
  <2>2. PICK x, y : x = conn[<<a, u>>] /\ y = conn[<<u, a>>]
    OBVIOUS
  <2>3. /\ a < u => PairOK(x, y)
        /\ u < a => PairOK(y, x)
        /\ a < u \/ u < a
    BY <2>1, <2>2, PairCases, Zenon DEF IInv
  <2>4. /\ x = "kept" => y \notin {"linked", "ok", "kept"}
        /\ x \in {"refused", "closing", "dropped"} =>
             y \notin {"none", "creating", "refused", "dup", "closing", "dropped"}
    BY <2>3 DEF PairOK, Established
  <2> QED BY <2>1, <2>2, <2>4
<1> QED BY <1>1, Invariance, PTL

\* Of the three assertions on the way of a start_graph command two hold in any
\* graph, for any interleaving: no second strong remote is linked to a URI
\* (remote_interface.c), and the command for which a remote was created is
\* still kept when it is there.  An app can only fail the third one
\* (start_graph.c): a second command finds a neighbour without a remote.
THEOREM OnlySecondCommandAborts == Spec => OnlySecondCommandFails
<1>1. IInv /\ [Next]_vars =>
        [\/ aborted' = aborted
         \/ \E a \in Apps : /\ ten_engine_handle_in_msgs_sync(a)
                            /\ SecondCommandFinds(a)
                            /\ aborted' = aborted \cup {a}]_vars
  BY NextStep
<1> QED BY <1>1, Invariance, PTL DEF Spec, OnlySecondCommandFails

-----------------------------------------------------------------------------
(* Trees of apps.  The app the client talks to is the root: it has the     *)
(* parent Client, every other app a parent that is nearer to the root, and *)
(* there are no links but those between an app and its parent.             *)

Rooted(root, parent, depth) ==
  /\ root \in Apps
  /\ parent[root] = Client
  /\ \A a \in Apps \ {root} :
       {parent[a], a} \in Links /\ parent[a] \in Apps /\ depth[parent[a]] < depth[a]
  /\ \A p \in Pairs : p[1] = parent[p[2]] \/ p[2] = parent[p[1]]

Trees(root) ==
  {t \in [Apps -> Apps \cup {Client}] \X [Apps -> Nat] : Rooted(root, t[1], t[2])}

\* The app has not handled a start_graph command yet.
Fresh(a) ==
  /\ original[a] = {} /\ ext[a] = "off"
  /\ \A u \in Apps : <<a, u>> \in Pairs => conn[<<a, u>>] = "none"

\* Only parents connect, an app has handled the command of its parent once the
\* connection of the parent is linked, and it has started, with all that is
\* below it, when it has answered.
TreeApp(root, parent, a) ==
  /\ \A u \in Apps : <<u, a>> \in Pairs /\ u # parent[a] => conn[<<u, a>>] = "none"
  /\ original[a] \subseteq {parent[a]}
  /\ ext[a] # "off" => waiting[a] = {}
  /\ \A u \in Apps :
       <<a, u>> \in Pairs /\ u # parent[a] /\ ~Fresh(a) /\ u \notin waiting[a] =>
         conn[<<a, u>>] = "kept"
  /\ a # root =>
       /\ \A i \in DOMAIN in_msgs[a] : in_msgs[a][i] # Client
       /\ conn[<<parent[a], a>>] \in {"none", "creating", "connecting", "sent", "queued"} =>
            Fresh(a)
       /\ conn[<<parent[a], a>>] \in {"ok", "kept"} => ext[a] = "on"
  /\ a = root =>
       /\ in_msgs[a] = <<>> \/ (in_msgs[a] = <<Client>> /\ Fresh(a))
       /\ answered => ext[a] = "on"

TreeInv(root, parent) == aborted = {} /\ \A a \in Apps : TreeApp(root, parent, a)

\* One of two neighbours is the parent of the other.
LEMMA TreePair ==
  ASSUME NEW root, NEW parent \in [Apps -> Apps \cup {Client}], NEW depth \in [Apps -> Nat],
         Rooted(root, parent, depth), NEW a, NEW u, <<a, u>> \in Pairs
  PROVE  \/ a = parent[u] /\ u # root /\ u # parent[a]
         \/ u = parent[a] /\ a # root /\ a # parent[u]
<1>1. a \in Apps /\ u \in Apps /\ a # Client /\ u # Client /\ <<u, a>> \in Pairs
  BY PairFacts
<1>2. a = parent[u] \/ u = parent[a]
  BY DEF Rooted
<1>3. (a = parent[u] => u # root) /\ (u = parent[a] => a # root)
  BY <1>1 DEF Rooted
<1>4. /\ u # root => depth[parent[u]] < depth[u]
      /\ a # root => depth[parent[a]] < depth[a]
  BY <1>1 DEF Rooted
<1>5. depth[a] \in Nat /\ depth[u] \in Nat
  BY <1>1
<1>6. ~(a = parent[u] /\ u = parent[a])
  BY <1>3, <1>4, <1>5
<1> QED BY <1>2, <1>3, <1>6

\* A connection that exists is one of a parent, and is not given up.
LEMMA TreeConn ==
  ASSUME NEW root, NEW parent \in [Apps -> Apps \cup {Client}], NEW depth \in [Apps -> Nat],
         Rooted(root, parent, depth), ConnOK(conn), TreeInv(root, parent),
         NEW a, NEW u, <<a, u>> \in Pairs, conn[<<a, u>>] # "none"
  PROVE  /\ a \in Apps /\ u \in Apps /\ a # u
         /\ a = parent[u] /\ u # root /\ u # parent[a]
         /\ conn[<<u, a>>] = "none" /\ ~Fresh(a)
         /\ conn[<<a, u>>] \notin {"refused", "dup", "closing", "dropped"}
<1>1. a \in Apps /\ u \in Apps /\ a # u /\ <<u, a>> \in Pairs
  BY PairFacts
<1>2. TreeApp(root, parent, u) /\ TreeApp(root, parent, a)
  BY <1>1 DEF TreeInv
<1>3. a = parent[u]
  BY <1>1, <1>2 DEF TreeApp
<1>4. u # root /\ u # parent[a]
  BY <1>3, TreePair
<1>5. conn[<<u, a>>] = "none"
  BY <1>1, <1>2, <1>4 DEF TreeApp
<1>6. ~Fresh(a)
  BY <1>1 DEF Fresh
<1>7. conn[<<a, u>>] \notin {"refused", "dup", "closing", "dropped"}
  <2>0. PICK x : x = conn[<<a, u>>]
    OBVIOUS
  <2>1. /\ a < u => PairOK(x, "none")
        /\ u < a => PairOK("none", x)
        /\ a < u \/ u < a
    BY <1>5, <2>0, PairCases, Zenon
  <2>2. x \notin {"refused", "dup", "closing", "dropped"}
    BY <2>1 DEF PairOK, Established
  <2> QED BY <2>0, <2>2
<1> QED BY <1>1, <1>3, <1>4, <1>5, <1>6, <1>7

\* What does not concern app b leaves its part of the invariant alone.
LEMMA TreeFrame ==
  ASSUME NEW root, NEW parent \in [Apps -> Apps \cup {Client}], NEW depth \in [Apps -> Nat],
         Rooted(root, parent, depth), NEW b \in Apps, TreeApp(root, parent, b),
         original'[b] = original[b], waiting'[b] = waiting[b], ext'[b] = ext[b],
         in_msgs'[b] = in_msgs[b], b = root => answered' = answered,
         \A v \in Apps : /\ <<b, v>> \in Pairs => conn'[<<b, v>>] = conn[<<b, v>>]
                         /\ <<v, b>> \in Pairs => conn'[<<v, b>>] = conn[<<v, b>>]
  PROVE  TreeApp(root, parent, b)'
<1>1. Fresh(b)' <=> Fresh(b)
  BY DEF Fresh
<1>2. b # root => <<parent[b], b>> \in Pairs /\ parent[b] \in Apps
  BY DEF Rooted, Pairs
<1>3. b # root => conn'[<<parent[b], b>>] = conn[<<parent[b], b>>]
  BY <1>2
<1>4. \A u \in Apps : <<u, b>> \in Pairs /\ u # parent[b] => conn'[<<u, b>>] = "none"
  BY DEF TreeApp
<1>5. \A u \in Apps :
        <<b, u>> \in Pairs /\ u # parent[b] /\ ~Fresh(b)' /\ u \notin waiting'[b] =>
          conn'[<<b, u>>] = "kept"
  BY <1>1 DEF TreeApp
<1>6. /\ original'[b] \subseteq {parent[b]}
      /\ ext'[b] # "off" => waiting'[b] = {}
  BY DEF TreeApp
<1>7. b # root =>
       /\ \A i \in DOMAIN in_msgs'[b] : in_msgs'[b][i] # Client
       /\ conn'[<<parent[b], b>>] \in {"none", "creating", "connecting", "sent", "queued"} =>
            Fresh(b)'
       /\ conn'[<<parent[b], b>>] \in {"ok", "kept"} => ext'[b] = "on"
  BY <1>1, <1>3 DEF TreeApp
<1>8. b = root =>
       /\ in_msgs'[b] = <<>> \/ (in_msgs'[b] = <<Client>> /\ Fresh(b)')
       /\ answered' => ext'[b] = "on"
  BY <1>1 DEF TreeApp
<1> QED BY <1>4, <1>5, <1>6, <1>7, <1>8 DEF TreeApp

\* A connection of a parent goes on towards the queue of the child.
LEMMA TreeMove ==
  ASSUME NEW root, NEW parent \in [Apps -> Apps \cup {Client}], NEW depth \in [Apps -> Nat],
         Rooted(root, parent, depth), IInv, TreeInv(root, parent),
         NEW a, NEW u, <<a, u>> \in Pairs,
         conn[<<a, u>>] \in {"creating", "connecting", "sent"},
         NEW s \in {"connecting", "sent", "queued"},
         conn' = [conn EXCEPT ![<<a, u>>] = s],
         \A b \in Apps \ {u} : in_msgs'[b] = in_msgs[b],
         \A i \in DOMAIN in_msgs'[u] : in_msgs'[u][i] # Client,
         UNCHANGED <<original, waiting, ext, answered, aborted>>
  PROVE  TreeInv(root, parent)'
<1>1. conn \in [Pairs -> ConnStates] /\ ConnOK(conn)
  BY DEF IInv, TypeOK
<1>2. /\ a \in Apps /\ u \in Apps /\ a # u
      /\ a = parent[u] /\ u # root /\ u # parent[a]
      /\ ~Fresh(a)
  <2>1. conn[<<a, u>>] # "none"
    OBVIOUS
  <2>2. /\ a \in Apps /\ u \in Apps /\ a # u
        /\ a = parent[u] /\ u # root /\ u # parent[a]
        /\ conn[<<u, a>>] = "none" /\ ~Fresh(a)
        /\ conn[<<a, u>>] \notin {"refused", "dup", "closing", "dropped"}
    BY <1>1, <2>1, TreeConn, Zenon
  <2> QED BY <2>2
<1>3. /\ conn'[<<a, u>>] = s
      /\ \A b, v : <<b, v>> \in Pairs /\ (b # a \/ v # u) => conn'[<<b, v>>] = conn[<<b, v>>]
  <2>1. s \in ConnStates
    BY DEF ConnStates
  <2> QED BY <1>1, <2>1, Edit, Zenon
<1>4. ~Fresh(a)'
  BY <1>2, <1>3 DEF Fresh
<1>5. ASSUME NEW b \in Apps
      PROVE  TreeApp(root, parent, b)'
  <2>0. TreeApp(root, parent, b)
    BY DEF TreeInv
  <2>1. CASE b = a
    <3>1. u \in waiting[a]
      BY <1>2, <2>0, <2>1 DEF TreeApp
    <3>2. \A v \in Apps : /\ <<v, a>> \in Pairs => conn'[<<v, a>>] = conn[<<v, a>>]
                          /\ <<a, v>> \in Pairs /\ v # u => conn'[<<a, v>>] = conn[<<a, v>>]
      BY <1>2, <1>3
    <3>3. b # root => <<parent[b], b>> \in Pairs /\ parent[b] \in Apps
      BY DEF Rooted, Pairs
    <3>4. in_msgs'[a] = in_msgs[a]
      BY <1>2
    <3>5. \A v \in Apps :
            <<a, v>> \in Pairs /\ v # parent[a] /\ v \notin waiting'[a] =>
              conn'[<<a, v>>] = "kept"
      BY <1>2, <2>0, <2>1, <3>1, <3>2 DEF TreeApp
    <3>6. \A v \in Apps : <<v, a>> \in Pairs /\ v # parent[a] => conn'[<<v, a>>] = "none"
      BY <2>0, <2>1, <3>2 DEF TreeApp
    <3>7. a # root =>
            /\ \A i \in DOMAIN in_msgs'[a] : in_msgs'[a][i] # Client
            /\ conn'[<<parent[a], a>>] \notin {"none", "creating", "connecting", "sent",
                                               "queued"}
            /\ conn'[<<parent[a], a>>] \in {"ok", "kept"} => ext'[a] = "on"
      BY <1>2, <2>0, <2>1, <3>2, <3>3, <3>4 DEF TreeApp
    <3>8. a = root => in_msgs'[a] = <<>> /\ (answered' => ext'[a] = "on")
      BY <1>2, <2>0, <2>1, <3>4 DEF TreeApp
    <3>9. /\ original'[a] \subseteq {parent[a]}
          /\ ext'[a] # "off" => waiting'[a] = {}
      BY <2>0, <2>1 DEF TreeApp
    <3> QED BY <1>4, <2>1, <3>5, <3>6, <3>7, <3>8, <3>9 DEF TreeApp
  <2>2. CASE b = u
    <3>1. Fresh(u)
      BY <1>2, <2>0, <2>2 DEF TreeApp
    <3>2. \A v \in Apps : /\ <<u, v>> \in Pairs => conn'[<<u, v>>] = conn[<<u, v>>]
                          /\ <<v, u>> \in Pairs /\ v # a => conn'[<<v, u>>] = conn[<<v, u>>]
      BY <1>2, <1>3
    <3>3. Fresh(u)'
      BY <3>1, <3>2 DEF Fresh
    <3>4. \A v \in Apps : <<v, u>> \in Pairs /\ v # parent[u] => conn'[<<v, u>>] = "none"
      BY <1>2, <2>0, <2>2, <3>2 DEF TreeApp
    <3>5. /\ original'[u] \subseteq {parent[u]}
          /\ ext'[u] # "off" => waiting'[u] = {}
      BY <2>0, <2>2 DEF TreeApp
    <3>6. conn'[<<parent[u], u>>] \notin {"ok", "kept"}
      BY <1>2, <1>3
    <3> QED BY <1>2, <2>2, <3>3, <3>4, <3>5, <3>6 DEF TreeApp
  <2>3. CASE b # a /\ b # u
    <3>1. \A v \in Apps : /\ <<b, v>> \in Pairs => conn'[<<b, v>>] = conn[<<b, v>>]
                          /\ <<v, b>> \in Pairs => conn'[<<v, b>>] = conn[<<v, b>>]
      BY <1>3, <2>3
    <3>2. /\ original'[b] = original[b] /\ waiting'[b] = waiting[b] /\ ext'[b] = ext[b]
          /\ in_msgs'[b] = in_msgs[b] /\ (b = root => answered' = answered)
      BY <2>3
    <3> QED BY <2>0, <3>1, <3>2, TreeFrame, Zenon
  <2> QED BY <2>1, <2>2, <2>3
<1> QED BY <1>5 DEF TreeInv

\* The child u of app a has answered: it has started, with all below it.
LEMMA TreeResult ==
  ASSUME NEW root, NEW parent \in [Apps -> Apps \cup {Client}], NEW depth \in [Apps -> Nat],
         Rooted(root, parent, depth), IInv, TreeInv(root, parent),
         NEW a, NEW u, <<a, u>> \in Pairs,
         ten_engine_handle_cmd_result_for_cmd_start_graph(a, u), aborted' = aborted
  PROVE  TreeInv(root, parent)'
<1>1. /\ conn \in [Pairs -> ConnStates] /\ ConnOK(conn) /\ AppTypes
      /\ \A b \in Apps : AppOK(conn, b)
  BY TypeParts DEF IInv
<1>2. conn[<<a, u>>] \in {"ok", "dup"} /\ in_msgs' = in_msgs
  BY DEF ten_engine_handle_cmd_result_for_cmd_start_graph
<1>3. conn[<<a, u>>] # "none"
  BY <1>2
<1>4. /\ a \in Apps /\ u \in Apps /\ a # u
      /\ a = parent[u] /\ u # root /\ u # parent[a]
      /\ conn[<<u, a>>] = "none" /\ ~Fresh(a)
      /\ conn[<<a, u>>] \notin {"refused", "dup", "closing", "dropped"}
  BY <1>1, <1>3, TreeConn, Zenon
<1>5. conn[<<a, u>>] = "ok"
  BY <1>2, <1>4
<1> DEFINE c == [conn EXCEPT ![<<a, u>>] = "kept"]
<1>6. ResultOk(a, c, u)
  BY <1>5 DEF ten_engine_handle_cmd_result_for_cmd_start_graph
<1>7. /\ waiting' = [waiting EXCEPT ![a] = waiting[a] \ {u}]
      /\ waiting'[a] = waiting[a] \ {u}
      /\ \A b \in Apps \ {a} : waiting'[b] = waiting[b]
  BY <1>1, <1>4, <1>6 DEF ResultOk, AppTypes
<1>8. TreeApp(root, parent, a) /\ TreeApp(root, parent, u)
  BY <1>4 DEF TreeInv
<1>9. /\ conn' = c /\ answered' = answered
      /\ original'[a] \subseteq {parent[a]}
      /\ \A b \in Apps \ {a} : original'[b] = original[b] /\ ext'[b] = ext[b]
      /\ ext'[a] = ext[a] \/ (ext[a] = "off" /\ ext'[a] = "starting" /\ waiting'[a] = {})
  <2>1. CASE u \in waiting[a] /\ waiting[a] \ {u} = {}
    <3>1. PICK src \in original[a] : EnableExtensionSystem(a, c, src)
      BY <1>6, <2>1 DEF ResultOk
    <3>2. ext[a] = "off" /\ src = parent[a]
      BY <1>8, <2>1 DEF TreeApp
    <3>3. /\ ext' = [ext EXCEPT ![a] = "starting"]
          /\ original' = [original EXCEPT ![a] = {src}]
          /\ conn' = c /\ answered' = answered
      BY <3>1, <3>2 DEF EnableExtensionSystem
    <3>4. waiting'[a] = {}
      BY <1>7, <2>1
    <3> QED BY <1>1, <1>4, <3>2, <3>3, <3>4 DEF AppTypes
  <2>2. CASE ~(u \in waiting[a] /\ waiting[a] \ {u} = {})
    <3>1. conn' = c /\ UNCHANGED <<original, ext, answered, aborted>>
      BY <1>6, <2>2 DEF ResultOk
    <3> QED BY <1>8, <3>1 DEF TreeApp
  <2> QED BY <2>1, <2>2
<1>10. /\ conn'[<<a, u>>] = "kept"
       /\ \A b, v : <<b, v>> \in Pairs /\ (b # a \/ v # u) => conn'[<<b, v>>] = conn[<<b, v>>]
  <2>1. "kept" \in ConnStates
    BY DEF ConnStates
  <2> QED BY <1>1, <1>9, <2>1, Edit, Zenon
<1> HIDE DEF c
<1>11. ~Fresh(a)'
  BY <1>4, <1>10 DEF Fresh
<1>12. ASSUME NEW b \in Apps
       PROVE  TreeApp(root, parent, b)'
  <2>0. TreeApp(root, parent, b)
    BY DEF TreeInv
  <2>1. CASE b = a
    <3>1. \A v \in Apps : /\ <<v, a>> \in Pairs => conn'[<<v, a>>] = conn[<<v, a>>]
                          /\ <<a, v>> \in Pairs /\ v # u => conn'[<<a, v>>] = conn[<<a, v>>]
      BY <1>4, <1>10
    <3>2. a # root => <<parent[a], a>> \in Pairs /\ parent[a] \in Apps
      BY <1>4 DEF Rooted, Pairs
    <3>3. \A v \in Apps :
            <<a, v>> \in Pairs /\ v # parent[a] /\ v \notin waiting'[a] =>
              conn'[<<a, v>>] = "kept"
      <4>1. \A v \in Apps :
              <<a, v>> \in Pairs /\ v # parent[a] /\ v \notin waiting[a] =>
                conn[<<a, v>>] = "kept"
        BY <1>4, <1>8 DEF TreeApp
      <4> QED BY <1>7, <1>10, <3>1, <4>1
    <3>4. \A v \in Apps : <<v, a>> \in Pairs /\ v # parent[a] => conn'[<<v, a>>] = "none"
      BY <1>8, <3>1 DEF TreeApp
    <3>5. ext'[a] # "off" => waiting'[a] = {}
      BY <1>7, <1>8, <1>9 DEF TreeApp
    <3>6. ext[a] = "on" => ext'[a] = "on"
      BY <1>9
    <3>7. a # root =>
            /\ \A i \in DOMAIN in_msgs'[a] : in_msgs'[a][i] # Client
            /\ conn'[<<parent[a], a>>] \notin {"none", "creating", "connecting", "sent",
                                               "queued"}
            /\ conn'[<<parent[a], a>>] \in {"ok", "kept"} => ext'[a] = "on"
      BY <1>2, <1>4, <1>8, <3>1, <3>2, <3>6 DEF TreeApp
    <3>8. a = root => in_msgs'[a] = <<>> /\ (answered' => ext'[a] = "on")
      BY <1>2, <1>4, <1>8, <1>9, <3>6 DEF TreeApp
    <3> QED BY <1>9, <1>11, <2>1, <3>3, <3>4, <3>5, <3>7, <3>8 DEF TreeApp
  <2>2. CASE b = u
    <3>1. \A v \in Apps : /\ <<u, v>> \in Pairs => conn'[<<u, v>>] = conn[<<u, v>>]
                          /\ <<v, u>> \in Pairs /\ v # a => conn'[<<v, u>>] = conn[<<v, u>>]
      BY <1>4, <1>10
    <3>2. original'[u] = original[u] /\ ext'[u] = ext[u] /\ waiting'[u] = waiting[u]
      BY <1>4, <1>7, <1>9
    <3>3. ext[u] = "on"
      BY <1>4, <1>5, <1>8 DEF TreeApp
    <3>4. Fresh(u)' <=> Fresh(u)
      BY <3>1, <3>2 DEF Fresh
    <3>5. \A v \in Apps : <<v, u>> \in Pairs /\ v # parent[u] => conn'[<<v, u>>] = "none"
      <4>1. \A v \in Apps : <<v, u>> \in Pairs /\ v # parent[u] => conn[<<v, u>>] = "none"
        BY <1>8 DEF TreeApp
      <4> QED BY <1>4, <3>1, <4>1
    <3>6. \A v \in Apps :
            <<u, v>> \in Pairs /\ v # parent[u] /\ ~Fresh(u)' /\ v \notin waiting'[u] =>
              conn'[<<u, v>>] = "kept"
      BY <1>8, <3>1, <3>2, <3>4 DEF TreeApp
    <3>7. /\ original'[u] \subseteq {parent[u]}
          /\ ext'[u] # "off" => waiting'[u] = {}
          /\ \A i \in DOMAIN in_msgs'[u] : in_msgs'[u][i] # Client
      BY <1>2, <1>4, <1>8, <3>2 DEF TreeApp
    <3> QED BY <1>4, <1>10, <2>2, <3>2, <3>3, <3>5, <3>6, <3>7 DEF TreeApp
  <2>3. CASE b # a /\ b # u
    <3>1. \A v \in Apps : /\ <<b, v>> \in Pairs => conn'[<<b, v>>] = conn[<<b, v>>]
                          /\ <<v, b>> \in Pairs => conn'[<<v, b>>] = conn[<<v, b>>]
      BY <1>10, <2>3
    <3>2. /\ original'[b] = original[b] /\ waiting'[b] = waiting[b] /\ ext'[b] = ext[b]
          /\ in_msgs'[b] = in_msgs[b] /\ (b = root => answered' = answered)
      BY <1>2, <1>7, <1>9, <2>3
    <3> QED BY <2>0, <3>1, <3>2, TreeFrame, Zenon
  <2> QED BY <2>1, <2>2, <2>3
<1> QED BY <1>12 DEF TreeInv

\* App a answers its parent, or the client.
LEMMA TreeReady ==
  ASSUME NEW root, NEW parent \in [Apps -> Apps \cup {Client}], NEW depth \in [Apps -> Nat],
         Rooted(root, parent, depth), IInv, TreeInv(root, parent),
         NEW a \in Apps, ExtensionThreadsReady(a), aborted' = aborted
  PROVE  TreeInv(root, parent)'
<1>1. /\ conn \in [Pairs -> ConnStates] /\ ConnOK(conn) /\ AppTypes
      /\ \A b \in Apps : AppOK(conn, b)
  BY TypeParts DEF IInv
<1>2. TreeApp(root, parent, a)
  BY DEF TreeInv
<1>3. PICK src \in original[a] : /\ conn' = ReturnOk(conn, a, src)
                                 /\ answered' = (answered \/ src = Client)
  BY DEF ExtensionThreadsReady
<1>4. src = parent[a]
  BY <1>2 DEF TreeApp
<1>5. /\ ext[a] = "starting" /\ ext'[a] = "on" /\ original'[a] = {}
      /\ \A b \in Apps \ {a} : original'[b] = original[b] /\ ext'[b] = ext[b]
      /\ in_msgs' = in_msgs /\ waiting' = waiting
  BY <1>1 DEF ExtensionThreadsReady, AppTypes
<1>6. src = Client \/ (<<src, a>> \in Pairs /\ conn[<<src, a>>] = "linked")
  BY <1>1 DEF AppOK
<1>7. \A b, v : <<b, v>> \in Pairs =>
        /\ v # a \/ b # src => conn'[<<b, v>>] = conn[<<b, v>>]
        /\ v = a /\ b = src => conn'[<<b, v>>] = "ok" /\ conn[<<b, v>>] = "linked"
  <2>1. /\ ConnOK(ReturnOk(conn, a, src))
        /\ \A b, v : <<b, v>> \in Pairs =>
             /\ v # a \/ b # src => ReturnOk(conn, a, src)[<<b, v>>] = conn[<<b, v>>]
             /\ v = a /\ b = src => ReturnOk(conn, a, src)[<<b, v>>] = "ok"
                                    /\ conn[<<b, v>>] = "linked"
    BY <1>1, <1>6, AnswerOK
  <2> QED BY <1>3, <2>1, Zenon
<1>8. \A b \in Apps \ {root} : <<parent[b], b>> \in Pairs /\ parent[b] \in Apps
  BY DEF Rooted, Pairs
<1>9. ASSUME a # root
      PROVE  answered' = answered /\ src # Client
  <2>1. src # Client
    BY <1>4, <1>8, <1>9, AppsAssumption DEF Client
  <2>2. answered \in BOOLEAN
    BY <1>1 DEF AppTypes
  <2> QED BY <1>3, <2>1, <2>2, Zenon
<1>10. ASSUME NEW b \in Apps
       PROVE  TreeApp(root, parent, b)'
  <2>0. TreeApp(root, parent, b)
    BY DEF TreeInv
  <2>1. CASE b = a
    <3>1. \A v \in Apps : /\ <<a, v>> \in Pairs => conn'[<<a, v>>] = conn[<<a, v>>]
                          /\ <<v, a>> \in Pairs /\ v # src => conn'[<<v, a>>] = conn[<<v, a>>]
      BY <1>7, PairFacts
    <3>2. ~Fresh(a) /\ waiting[a] = {}
      BY <1>2, <1>5 DEF Fresh, TreeApp
    <3>3. \A v \in Apps : <<a, v>> \in Pairs /\ v # parent[a] => conn'[<<a, v>>] = "kept"
      BY <1>2, <3>1, <3>2 DEF TreeApp
    <3>4. \A v \in Apps : <<v, a>> \in Pairs /\ v # parent[a] => conn'[<<v, a>>] = "none"
      BY <1>2, <1>4, <3>1 DEF TreeApp
    <3>5. a # root => /\ \A i \in DOMAIN in_msgs'[a] : in_msgs'[a][i] # Client
                      /\ conn'[<<parent[a], a>>] = "ok"
      BY <1>2, <1>4, <1>5, <1>7, <1>8 DEF TreeApp
    <3>6. a = root => in_msgs'[a] = <<>>
      BY <1>2, <1>5, <3>2 DEF TreeApp
    <3> QED BY <1>5, <2>1, <3>2, <3>3, <3>4, <3>5, <3>6 DEF TreeApp
  <2>2. CASE b # a /\ b = src
    <3>1. a # root /\ <<b, a>> \in Pairs
      BY <1>4, <1>8, <2>2, AppsAssumption DEF Rooted, Client
    <3>2. conn[<<b, a>>] = "linked" /\ conn'[<<b, a>>] = "ok" /\ a # parent[b]
      BY <1>4, <1>7, <2>2, <3>1, TreePair
    <3>3. ~Fresh(b) /\ ~Fresh(b)'
      BY <3>1, <3>2 DEF Fresh
    <3>4. a \in waiting[b]
      BY <2>0, <3>1, <3>2, <3>3 DEF TreeApp
    <3>5. \A v \in Apps : /\ <<v, b>> \in Pairs => conn'[<<v, b>>] = conn[<<v, b>>]
                          /\ <<b, v>> \in Pairs /\ v # a => conn'[<<b, v>>] = conn[<<b, v>>]
      BY <1>7, <2>2
    <3>6. original'[b] = original[b] /\ ext'[b] = ext[b] /\ waiting'[b] = waiting[b]
          /\ in_msgs'[b] = in_msgs[b] /\ answered' = answered
      BY <1>5, <1>9, <2>2, <3>1
    <3>7. \A v \in Apps :
            <<b, v>> \in Pairs /\ v # parent[b] /\ v \notin waiting'[b] =>
              conn'[<<b, v>>] = "kept"
      BY <2>0, <3>3, <3>4, <3>5, <3>6 DEF TreeApp
    <3>8. \A v \in Apps : <<v, b>> \in Pairs /\ v # parent[b] => conn'[<<v, b>>] = "none"
      BY <2>0, <3>5 DEF TreeApp
    <3>9. /\ original'[b] \subseteq {parent[b]}
          /\ ext'[b] # "off" => waiting'[b] = {}
      BY <2>0, <3>6 DEF TreeApp
    <3>10. b # root =>
             /\ \A i \in DOMAIN in_msgs'[b] : in_msgs'[b][i] # Client
             /\ conn'[<<parent[b], b>>] \notin {"none", "creating", "connecting", "sent",
                                                "queued"}
             /\ conn'[<<parent[b], b>>] \in {"ok", "kept"} => ext'[b] = "on"
      BY <1>8, <2>0, <3>3, <3>5, <3>6 DEF TreeApp
    <3>11. b = root => in_msgs'[b] = <<>> /\ (answered' => ext'[b] = "on")
      BY <2>0, <3>3, <3>6 DEF TreeApp
    <3> QED BY <3>3, <3>7, <3>8, <3>9, <3>10, <3>11 DEF TreeApp
  <2>3. CASE b # a /\ b # src
    <3>1. \A v \in Apps : /\ <<b, v>> \in Pairs => conn'[<<b, v>>] = conn[<<b, v>>]
                          /\ <<v, b>> \in Pairs => conn'[<<v, b>>] = conn[<<v, b>>]
      BY <1>7, <2>3
    <3>2. /\ original'[b] = original[b] /\ waiting'[b] = waiting[b] /\ ext'[b] = ext[b]
          /\ in_msgs'[b] = in_msgs[b] /\ (b = root => answered' = answered)
      BY <1>5, <1>9, <2>3
    <3> QED BY <2>0, <3>1, <3>2, TreeFrame, Zenon
  <2> QED BY <2>1, <2>2, <2>3
<1> QED BY <1>10 DEF TreeInv

\* App a handles the command of its parent, or of the client: its first one.
LEMMA TreeHandle ==
  ASSUME NEW root, NEW parent \in [Apps -> Apps \cup {Client}], NEW depth \in [Apps -> Nat],
         Rooted(root, parent, depth), IInv, TreeInv(root, parent),
         NEW a \in Apps, ten_engine_handle_in_msgs_sync(a)
  PROVE  TreeInv(root, parent)'
<1> DEFINE src == Head(in_msgs[a])
<1> DEFINE linked == [conn EXCEPT ![<<src, a>>] = "linked"]
<1>1. /\ in_msgs[a] # <<>>
      /\ in_msgs' = [in_msgs EXCEPT ![a] = Tail(@)]
      /\ \/ src = Client /\ HandleStartGraph(a, conn, src)
         \/ /\ src # Client /\ ten_engine_check_remote_is_duplicated(conn, a, src)
            /\ conn' = [conn EXCEPT ![<<src, a>>] = "dup"]
            /\ UNCHANGED <<original, waiting, ext, answered, aborted>>
         \/ /\ src # Client /\ ~ten_engine_check_remote_is_duplicated(conn, a, src)
            /\ Strong(conn, a, src) /\ Abort(a)
         \/ /\ src # Client /\ ~ten_engine_check_remote_is_duplicated(conn, a, src)
            /\ ~Strong(conn, a, src)
            /\ HandleStartGraph(a, linked, src)
  BY Zenon DEF ten_engine_handle_in_msgs_sync
<1>2. /\ in_msgs \in [Apps -> Seq(Apps \cup {Client})]
      /\ conn \in [Pairs -> ConnStates]
      /\ AppTypes /\ ConnOK(conn) /\ QueuesOK(conn)
      /\ \A b \in Apps : AppOK(conn, b)
  BY TypeParts DEF IInv
<1>3. 1 \in DOMAIN in_msgs[a] /\ src = in_msgs[a][1] /\ src \in Apps \cup {Client}
  BY <1>1, <1>2
<1>4. src # Client => <<src, a>> \in Pairs /\ conn[<<src, a>>] = "queued"
  BY <1>2, <1>3 DEF QueuesOK
<1>5. /\ in_msgs'[a] = Tail(in_msgs[a])
      /\ \A b \in Apps \ {a} : in_msgs'[b] = in_msgs[b]
      /\ \A i \in DOMAIN Tail(in_msgs[a]) :
           i + 1 \in DOMAIN in_msgs[a] /\ Tail(in_msgs[a])[i] = in_msgs[a][i + 1]
  <2>1. in_msgs[a] \in Seq(Apps \cup {Client})
    BY <1>2
  <2> QED BY <1>1, <1>2, <2>1
<1> HIDE DEF src
<1>6. TreeApp(root, parent, a)
  BY DEF TreeInv
<1>7. /\ Fresh(a) /\ src = parent[a]
      /\ a = root => src = Client /\ in_msgs'[a] = <<>>
      /\ a # root => /\ src # Client
                     /\ \A i \in DOMAIN in_msgs'[a] : in_msgs'[a][i] # Client
  <2>1. CASE a = root
    <3>1. in_msgs[a] = <<Client>> /\ Fresh(a)
      BY <1>1, <1>6, <2>1 DEF TreeApp
    <3>2. in_msgs[a][1] = Client /\ Tail(in_msgs[a]) = <<>>
      BY <3>1
    <3>3. parent[a] = Client
      BY <2>1 DEF Rooted
    <3> QED BY <1>3, <1>5, <2>1, <3>1, <3>2, <3>3
  <2>2. CASE a # root
    <3>1. \A i \in DOMAIN in_msgs[a] : in_msgs[a][i] # Client
      BY <1>6, <2>2 DEF TreeApp
    <3>2. src # Client
      BY <1>3, <3>1
    <3>3. conn[<<src, a>>] # "none"
      BY <1>4, <3>2
    <3>4. src = parent[a]
      <4>1. \A u \in Apps : <<u, a>> \in Pairs /\ u # parent[a] => conn[<<u, a>>] = "none"
        BY <1>6 DEF TreeApp
      <4> QED BY <1>3, <1>4, <3>2, <3>3, <4>1
    <3>5. Fresh(a)
      BY <1>4, <1>6, <2>2, <3>2, <3>4 DEF TreeApp
    <3> QED BY <1>5, <2>2, <3>1, <3>2, <3>4, <3>5
  <2> QED BY <2>1, <2>2
<1>8. \A u \in Apps : <<a, u>> \in Pairs => conn[<<a, u>>] = "none"
  BY <1>7 DEF Fresh
<1>9. \A u \in Apps : <<u, a>> \in Pairs /\ u # parent[a] => conn[<<u, a>>] = "none"
  BY <1>6 DEF TreeApp
<1>10. src # Client => /\ ~ten_engine_check_remote_is_duplicated(conn, a, src)
                       /\ ~Strong(conn, a, src)
  <2> SUFFICES ASSUME src # Client
               PROVE  /\ ~ten_engine_check_remote_is_duplicated(conn, a, src)
                      /\ ~Strong(conn, a, src)
    OBVIOUS
  <2>1. conn[<<src, a>>] = "queued" /\ <<a, src>> \in Pairs /\ src \in Apps
    BY <1>4, PairFacts
  <2>2. conn[<<a, src>>] = "none"
    BY <1>8, <2>1
  <2> QED BY <2>1, <2>2
          DEF ten_engine_check_remote_is_duplicated, ten_engine_check_remote_is_existed,
              Strong, Weak
<1>11. PICK c : /\ HandleStartGraph(a, c, src)
                /\ a = root => c = conn
                /\ a # root => c = linked
  BY <1>1, <1>7, <1>10
<1>12. /\ a # root => <<parent[a], a>> \in Pairs /\ c[<<parent[a], a>>] = "linked"
                      /\ conn[<<parent[a], a>>] = "queued"
       /\ \A b, v : <<b, v>> \in Pairs /\ (b # parent[a] \/ v # a) =>
            c[<<b, v>>] = conn[<<b, v>>]
  <2>1. CASE a = root
    BY <1>11, <2>1
  <2>2. CASE a # root
    <3>1. <<src, a>> \in Pairs /\ c = [conn EXCEPT ![<<src, a>>] = "linked"]
      BY <1>4, <1>7, <1>11, <2>2
    <3>2. "linked" \in ConnStates
      BY DEF ConnStates
    <3>3. /\ c[<<src, a>>] = "linked"
          /\ \A b, v : <<b, v>> \in Pairs /\ (b # src \/ v # a) => c[<<b, v>>] = conn[<<b, v>>]
      BY <1>2, <3>1, <3>2, Edit, Zenon
    <3> QED BY <1>4, <1>7, <2>2, <3>1, <3>3
  <2> QED BY <2>1, <2>2
<1> DEFINE new == {u \in Neighbors(a) : ~ten_engine_check_remote_is_existed(c, a, u)}
<1>13. \A u \in Apps : u \in new <=> <<a, u>> \in Pairs /\ u # parent[a]
  <2> SUFFICES ASSUME NEW u \in Apps
               PROVE  u \in new <=> <<a, u>> \in Pairs /\ u # parent[a]
    OBVIOUS
  <2>1. u \in Neighbors(a) <=> <<a, u>> \in Pairs
    BY DEF Neighbors, Pairs
  <2>2. ASSUME <<a, u>> \in Pairs, u # parent[a]
        PROVE  ~ten_engine_check_remote_is_existed(c, a, u)
    <3>1. <<u, a>> \in Pairs /\ a # u
      BY <2>2, PairFacts
    <3>2. c[<<a, u>>] = "none" /\ c[<<u, a>>] = "none"
      BY <1>8, <1>9, <1>12, <2>2, <3>1
    <3> QED BY <3>2 DEF ten_engine_check_remote_is_existed, Strong, Weak
  <2>3. ASSUME <<a, u>> \in Pairs, u = parent[a]
        PROVE  ten_engine_check_remote_is_existed(c, a, u)
    <3>1. a # root
      BY <2>3, AppsAssumption DEF Rooted, Client
    <3> QED BY <1>12, <2>3, <3>1 DEF ten_engine_check_remote_is_existed, Strong
  <2> QED BY <2>1, <2>2, <2>3
<1>14. \/ new # {} /\ original[a] # {} /\ Abort(a)
       \/ /\ new # {} /\ original[a] = {}
          /\ original' = [original EXCEPT ![a] = {src}]
          /\ waiting' = [waiting EXCEPT ![a] = new]
          /\ conn' = [p \in Pairs |-> IF p[1] = a /\ p[2] \in new THEN "creating"
                                      ELSE c[p]]
          /\ UNCHANGED <<ext, answered, aborted>>
       \/ /\ new = {} /\ original[a] # {}
          /\ conn' = ReturnOk(c, a, src)
          /\ answered' = (answered \/ src = Client)
          /\ UNCHANGED <<original, waiting, ext, aborted>>
       \/ /\ new = {} /\ original[a] = {}
          /\ UNCHANGED waiting /\ EnableExtensionSystem(a, c, src)
  BY <1>11, StartGraphCases, Zenon
<1>15. new \subseteq Apps
  BY DEF Neighbors
<1> HIDE DEF new
<1>16. original[a] = {} /\ ext[a] = "off" /\ waiting[a] = {}
  BY <1>2, <1>7 DEF Fresh, AppOK
<1>17. /\ original'[a] = {parent[a]} /\ waiting'[a] = new
       /\ ext'[a] = "off" \/ (ext'[a] = "starting" /\ new = {})
       /\ \A b \in Apps \ {a} : /\ original'[b] = original[b] /\ ext'[b] = ext[b]
                                /\ waiting'[b] = waiting[b]
       /\ answered' = answered /\ aborted' = aborted
       /\ \A b, v : <<b, v>> \in Pairs =>
            /\ b # a \/ v \notin new => conn'[<<b, v>>] = c[<<b, v>>]
            /\ b = a /\ v \in new => conn'[<<b, v>>] = "creating"
  <2>1. CASE /\ new # {} /\ original[a] = {}
             /\ original' = [original EXCEPT ![a] = {src}]
             /\ waiting' = [waiting EXCEPT ![a] = new]
             /\ conn' = [p \in Pairs |-> IF p[1] = a /\ p[2] \in new THEN "creating"
                                         ELSE c[p]]
             /\ UNCHANGED <<ext, answered, aborted>>
    <3>1. \A b, v : <<b, v>> \in Pairs =>
            /\ b # a \/ v \notin new => conn'[<<b, v>>] = c[<<b, v>>]
            /\ b = a /\ v \in new => conn'[<<b, v>>] = "creating"
      BY <2>1
    <3> QED BY <1>2, <1>7, <1>16, <2>1, <3>1 DEF AppTypes
  <2>2. CASE /\ new = {} /\ original[a] = {}
             /\ UNCHANGED waiting /\ EnableExtensionSystem(a, c, src)
    <3>1. /\ ext' = [ext EXCEPT ![a] = "starting"]
          /\ original' = [original EXCEPT ![a] = {src}]
          /\ conn' = c /\ answered' = answered /\ aborted' = aborted
      BY <1>16, <2>2 DEF EnableExtensionSystem
    <3> QED BY <1>2, <1>7, <1>16, <2>2, <3>1 DEF AppTypes
  <2> QED BY <1>14, <1>16, <2>1, <2>2
<1>18. /\ \A b, v : <<b, v>> \in Pairs /\ (b # a \/ v = parent[a])
                    /\ (b # parent[a] \/ v # a) => conn'[<<b, v>>] = conn[<<b, v>>]
       /\ \A v \in Apps : <<a, v>> \in Pairs /\ v # parent[a] =>
            conn'[<<a, v>>] = "creating"
       /\ a # root => conn'[<<parent[a], a>>] = "linked"
  <2>1. \A b, v : <<b, v>> \in Pairs => v \in Apps /\ (v = parent[a] => v \notin new)
    BY <1>13, PairFacts
  <2>2. a # root => parent[a] # a
    BY <1>12, PairFacts
  <2> QED BY <1>12, <1>13, <1>17, <2>1, <2>2
<1> HIDE DEF linked
<1>19. ASSUME NEW b \in Apps
       PROVE  TreeApp(root, parent, b)'
  <2>0. TreeApp(root, parent, b)
    BY DEF TreeInv
  <2>1. CASE b = a
    <3>1. \A v \in Apps : <<v, a>> \in Pairs /\ v # parent[a] => conn'[<<v, a>>] = "none"
      <4>1. \A v \in Apps : <<v, a>> \in Pairs => v # a
        BY PairFacts
      <4> QED BY <1>9, <1>18, <4>1
    <3>2. \A v \in Apps : <<a, v>> \in Pairs /\ v # parent[a] => v \in waiting'[a]
      BY <1>13, <1>17
    <3>3. ext'[a] # "off" => waiting'[a] = {}
      BY <1>17
    <3>4. a = root => ~answered
      BY <1>6, <1>16 DEF TreeApp
    <3> QED BY <1>7, <1>17, <1>18, <2>1, <3>1, <3>2, <3>3, <3>4 DEF TreeApp
  <2>2. CASE b # a /\ b = parent[a]
    <3>1. a # root /\ <<b, a>> \in Pairs
      BY <1>12, <2>2, AppsAssumption DEF Rooted, Client
    <3>2. conn[<<b, a>>] = "queued" /\ conn'[<<b, a>>] = "linked" /\ a # parent[b]
      BY <1>12, <1>18, <2>2, <3>1, TreePair
    <3>3. ~Fresh(b) /\ ~Fresh(b)'
      BY <3>1, <3>2 DEF Fresh
    <3>4. a \in waiting[b]
      BY <2>0, <3>1, <3>2, <3>3 DEF TreeApp
    <3>5. \A v \in Apps : /\ <<v, b>> \in Pairs => conn'[<<v, b>>] = conn[<<v, b>>]
                          /\ <<b, v>> \in Pairs /\ v # a => conn'[<<b, v>>] = conn[<<b, v>>]
      BY <1>18, <2>2
    <3>6. original'[b] = original[b] /\ ext'[b] = ext[b] /\ waiting'[b] = waiting[b]
          /\ in_msgs'[b] = in_msgs[b] /\ answered' = answered
      BY <1>5, <1>17, <2>2
    <3>7. \A v \in Apps :
            <<b, v>> \in Pairs /\ v # parent[b] /\ v \notin waiting'[b] =>
              conn'[<<b, v>>] = "kept"
      BY <2>0, <3>3, <3>4, <3>5, <3>6 DEF TreeApp
    <3>8. \A v \in Apps : <<v, b>> \in Pairs /\ v # parent[b] => conn'[<<v, b>>] = "none"
      BY <2>0, <3>5 DEF TreeApp
    <3>9. /\ original'[b] \subseteq {parent[b]}
          /\ ext'[b] # "off" => waiting'[b] = {}
      BY <2>0, <3>6 DEF TreeApp
    <3>10. b # root => <<parent[b], b>> \in Pairs /\ parent[b] \in Apps
      BY DEF Rooted, Pairs
    <3>11. b # root =>
             /\ \A i \in DOMAIN in_msgs'[b] : in_msgs'[b][i] # Client
             /\ conn'[<<parent[b], b>>] \notin {"none", "creating", "connecting", "sent",
                                                "queued"}
             /\ conn'[<<parent[b], b>>] \in {"ok", "kept"} => ext'[b] = "on"
      BY <2>0, <3>3, <3>5, <3>6, <3>10 DEF TreeApp
    <3>12. b = root => in_msgs'[b] = <<>> /\ (answered' => ext'[b] = "on")
      BY <2>0, <3>3, <3>6 DEF TreeApp
    <3> QED BY <3>3, <3>7, <3>8, <3>9, <3>11, <3>12 DEF TreeApp
  <2>3. CASE b # a /\ b # parent[a] /\ <<a, b>> \in Pairs
    <3>1. a = parent[b] /\ b # root
      BY <2>3, TreePair
    <3>2. conn[<<a, b>>] = "none" /\ conn'[<<a, b>>] = "creating"
      BY <1>8, <1>18, <2>3
    <3>3. Fresh(b)
      BY <2>0, <3>1, <3>2 DEF TreeApp
    <3>4. \A v \in Apps : /\ <<b, v>> \in Pairs => conn'[<<b, v>>] = conn[<<b, v>>]
                          /\ <<v, b>> \in Pairs /\ v # a => conn'[<<v, b>>] = conn[<<v, b>>]
      BY <1>18, <2>3
    <3>5. original'[b] = original[b] /\ ext'[b] = ext[b] /\ waiting'[b] = waiting[b]
          /\ in_msgs'[b] = in_msgs[b]
      BY <1>5, <1>17, <2>3
    <3>6. Fresh(b)'
      BY <3>3, <3>4, <3>5 DEF Fresh
    <3>7. \A v \in Apps : <<v, b>> \in Pairs /\ v # parent[b] => conn'[<<v, b>>] = "none"
      <4>1. \A v \in Apps : <<v, b>> \in Pairs /\ v # parent[b] => conn[<<v, b>>] = "none"
        BY <2>0 DEF TreeApp
      <4> QED BY <3>1, <3>4, <4>1
    <3>8. /\ original'[b] \subseteq {parent[b]}
          /\ ext'[b] # "off" => waiting'[b] = {}
          /\ \A i \in DOMAIN in_msgs'[b] : in_msgs'[b][i] # Client
      BY <2>0, <3>1, <3>5 DEF TreeApp
    <3> QED BY <3>1, <3>2, <3>6, <3>7, <3>8 DEF TreeApp
  <2>4. CASE b # a /\ b # parent[a] /\ <<a, b>> \notin Pairs
    <3>1. \A v \in Apps : /\ <<b, v>> \in Pairs => conn'[<<b, v>>] = conn[<<b, v>>]
                          /\ <<v, b>> \in Pairs => conn'[<<v, b>>] = conn[<<v, b>>]
      BY <1>18, <2>4
    <3>2. /\ original'[b] = original[b] /\ waiting'[b] = waiting[b] /\ ext'[b] = ext[b]
          /\ in_msgs'[b] = in_msgs[b] /\ (b = root => answered' = answered)
      BY <1>5, <1>17, <2>4
    <3> QED BY <2>0, <3>1, <3>2, TreeFrame, Zenon
  <2> QED BY <2>1, <2>2, <2>3, <2>4
<1> QED BY <1>17, <1>19 DEF TreeInv

\* The steps of a connection.
LEMMA TreeConnMoves ==
  ASSUME NEW root, NEW parent \in [Apps -> Apps \cup {Client}], NEW depth \in [Apps -> Nat],
         Rooted(root, parent, depth), IInv, TreeInv(root, parent),
         NEW a, NEW u, <<a, u>> \in Pairs, ConnMoves(a, u), aborted' = aborted
  PROVE  TreeInv(root, parent)'
<1>1. /\ ConnOK(conn) /\ \A b \in Apps : AppOK(conn, b)
      /\ in_msgs \in [Apps -> Seq(Apps \cup {Client})]
  BY DEF IInv, TypeOK
<1>2. conn[<<a, u>>] # "none"
  BY DEF ConnMoves, RemoteCreated, RemoteConnected, ten_app_handle_start_graph_cmd,
         ten_engine_handle_cmd_result_for_cmd_start_graph,
         ten_engine_on_orphan_connection_closed
<1>3. /\ a \in Apps /\ u \in Apps /\ a # u
      /\ a = parent[u] /\ u # root /\ u # parent[a]
      /\ conn[<<u, a>>] = "none" /\ ~Fresh(a)
      /\ conn[<<a, u>>] \notin {"refused", "dup", "closing", "dropped"}
  BY <1>1, <1>2, TreeConn, Zenon
<1>4. \A i \in DOMAIN in_msgs[u] : in_msgs[u][i] # Client
  BY <1>3 DEF TreeInv, TreeApp
<1>5. CASE RemoteCreated(a, u)
  <2>1. conn[<<a, u>>] = "creating" /\ in_msgs' = in_msgs
    BY <1>5 DEF RemoteCreated
  <2>2. original[a] # {}
    BY <1>1, <1>3, <2>1 DEF AppOK
  <2>3. ~ten_engine_check_remote_is_duplicated(conn, a, u)
    BY <1>3, <2>1 DEF ten_engine_check_remote_is_duplicated,
                      ten_engine_check_remote_is_existed, Strong, Weak
  <2>4. /\ conn' = [conn EXCEPT ![<<a, u>>] = "connecting"]
        /\ UNCHANGED <<original, waiting, ext, answered, aborted>>
    BY <1>5, <2>2, <2>3, Zenon DEF RemoteCreated
  <2>5. conn[<<a, u>>] \in {"creating", "connecting", "sent"}
    BY <2>1
  <2>6. "connecting" \in {"connecting", "sent", "queued"}
    OBVIOUS
  <2>7. /\ \A b \in Apps \ {u} : in_msgs'[b] = in_msgs[b]
        /\ \A i \in DOMAIN in_msgs'[u] : in_msgs'[u][i] # Client
    BY <1>4, <2>1
  <2> QED BY <2>4, <2>5, <2>6, <2>7, TreeMove, Zenon
<1>6. CASE RemoteConnected(a, u)
  <2>1. /\ conn[<<a, u>>] \in {"creating", "connecting", "sent"} /\ in_msgs' = in_msgs
        /\ conn' = [conn EXCEPT ![<<a, u>>] = "sent"]
        /\ UNCHANGED <<original, waiting, ext, answered, aborted>>
    BY <1>6 DEF RemoteConnected
  <2>2. "sent" \in {"connecting", "sent", "queued"}
    OBVIOUS
  <2>3. /\ \A b \in Apps \ {u} : in_msgs'[b] = in_msgs[b]
        /\ \A i \in DOMAIN in_msgs'[u] : in_msgs'[u][i] # Client
    BY <1>4, <2>1
  <2> QED BY <2>1, <2>2, <2>3, TreeMove, Zenon
<1>7. CASE ten_app_handle_start_graph_cmd(a, u)
  <2>1. /\ conn[<<a, u>>] \in {"creating", "connecting", "sent"}
        /\ in_msgs' = [in_msgs EXCEPT ![u] = Append(@, a)]
        /\ conn' = [conn EXCEPT ![<<a, u>>] = "queued"]
        /\ UNCHANGED <<original, waiting, ext, answered, aborted>>
    BY <1>7 DEF ten_app_handle_start_graph_cmd
  <2>2. "queued" \in {"connecting", "sent", "queued"}
    OBVIOUS
  <2>3. a # Client
    BY <1>3, AppsAssumption DEF Client
  <2>4. \A i \in DOMAIN Append(in_msgs[u], a) : Append(in_msgs[u], a)[i] # Client
    <3>1. in_msgs[u] \in Seq(Apps \cup {Client})
      BY <1>1, <1>3
    <3> QED BY <1>3, <1>4, <2>3, <3>1
  <2>5. /\ \A b \in Apps \ {u} : in_msgs'[b] = in_msgs[b]
        /\ \A i \in DOMAIN in_msgs'[u] : in_msgs'[u][i] # Client
    BY <1>1, <1>3, <2>1, <2>4
  <2> QED BY <2>1, <2>2, <2>5, TreeMove, Zenon
<1>8. CASE ten_engine_handle_cmd_result_for_cmd_start_graph(a, u)
  BY <1>8, TreeResult, Zenon
<1>9. CASE ten_engine_on_orphan_connection_closed(a, u)
  BY <1>3, <1>9 DEF ten_engine_on_orphan_connection_closed
<1> QED BY <1>5, <1>6, <1>7, <1>8, <1>9 DEF ConnMoves

\* Every step keeps the invariant of a tree.
LEMMA TreeStep ==
  ASSUME NEW root, NEW parent \in [Apps -> Apps \cup {Client}], NEW depth \in [Apps -> Nat],
         Rooted(root, parent, depth), IInv, TreeInv(root, parent), [Next]_vars
  PROVE  TreeInv(root, parent)'
<1>1. ASSUME NEW a \in Apps, ten_engine_handle_in_msgs_sync(a)
      PROVE  TreeInv(root, parent)'
  BY <1>1, TreeHandle, Zenon
<1>2. ASSUME NEW a \in Apps, ExtensionThreadsReady(a)
      PROVE  TreeInv(root, parent)'
  <2>1. aborted' = aborted
    BY <1>2, ReadyStep
  <2> QED BY <1>2, <2>1, TreeReady, Zenon
<1>3. ASSUME NEW p \in Pairs, ConnMoves(p[1], p[2])
      PROVE  TreeInv(root, parent)'
  <2>1. <<p[1], p[2]>> \in Pairs
    BY PairForm
  <2>2. aborted' = aborted
    BY <1>3, <2>1, CreatedStep, ConnectedStep, AppHandlesStep, ResultStep, ClosedStep
       DEF ConnMoves
  <2> QED BY <1>3, <2>1, <2>2, TreeConnMoves, Zenon
<1>4. ASSUME UNCHANGED vars
      PROVE  TreeInv(root, parent)'
  BY <1>4 DEF vars, TreeInv, TreeApp, Fresh
<1> QED BY <1>1, <1>2, <1>3, <1>4 DEF Next

\* Every set of natural numbers has a least element.
LEMMA LeastNat ==
  ASSUME NEW T, T \subseteq Nat, T # {}
  PROVE  \E x \in T : \A y \in T : ~(y < x)
<1>1. IsWellFoundedOn(OpToRel(<, Nat), Nat)
  BY NatLessThanWellFounded, Zenon
<1>2. PICK R : R = OpToRel(<, Nat)
  BY Zenon
<1>3. IsWellFoundedOn(R, Nat)
  BY <1>1, <1>2, Zenon
<1>4. R = {ss \in Nat \X Nat : ss[1] < ss[2]}
  BY <1>2 DEF OpToRel
<1>5. \A x, y \in Nat : y < x => <<y, x>> \in R
  BY <1>4
<1>6. \E x \in T : \A y \in T : ~(<<y, x>> \in R)
  BY <1>3, WFMin
<1> QED BY <1>5, <1>6

\* When the root has started, every app has: one nearest to the root that has
\* not would have a parent that has, and that waited for it.
LEMMA TreeStarted ==
  ASSUME NEW root, NEW parent \in [Apps -> Apps \cup {Client}], NEW depth \in [Apps -> Nat],
         Rooted(root, parent, depth), TreeInv(root, parent), answered
  PROVE  \A a \in Apps : ext[a] = "on"
<1> DEFINE T == {depth[a] : a \in {b \in Apps : ext[b] # "on"}}
<1> SUFFICES ASSUME T # {}
             PROVE  FALSE
  OBVIOUS
<1>1. \E x \in T : \A y \in T : ~(y < x)
  BY LeastNat, ZenonT(30)
<1>2. PICK a \in Apps : /\ ext[a] # "on"
                        /\ \A b \in Apps : ext[b] # "on" => ~(depth[b] < depth[a])
  BY <1>1
<1> HIDE DEF T
<1>3. root \in Apps
  BY DEF Rooted
<1>4. ext[root] = "on"
  BY <1>3 DEF TreeInv, TreeApp
<1>5. /\ a # root /\ parent[a] \in Apps /\ <<parent[a], a>> \in Pairs
      /\ depth[parent[a]] < depth[a]
  BY <1>2, <1>4 DEF Rooted, Pairs
<1>6. ext[parent[a]] = "on"
  BY <1>2, <1>5
<1>7. TreeApp(root, parent, a) /\ TreeApp(root, parent, parent[a])
  BY <1>5 DEF TreeInv
<1>8. waiting[parent[a]] = {} /\ ~Fresh(parent[a])
  BY <1>6, <1>7 DEF TreeApp, Fresh
<1>9. a # parent[parent[a]]
  BY <1>5, TreePair
<1>10. conn[<<parent[a], a>>] = "kept"
  BY <1>5, <1>7, <1>8, <1>9 DEF TreeApp
<1> QED BY <1>2, <1>5, <1>7, <1>10 DEF TreeApp

\* In a tree of apps, for whichever of them the client chooses, the
\* invariant of the tree holds.
SafeTree == \E root \in Roots : \E t \in Trees(root) : TreeInv(root, t[1])

\* The invariant of a tree holds in every behaviour.
LEMMA TreeInvariance ==
  ASSUME \A root \in Roots : Trees(root) # {}
  PROVE  Spec => []SafeTree
<1>0. ASSUME NEW root, NEW t \in Trees(root)
      PROVE  /\ t[1] \in [Apps -> Apps \cup {Client}] /\ t[2] \in [Apps -> Nat]
             /\ Rooted(root, t[1], t[2])
  BY <1>0 DEF Trees
<1>1. Init => SafeTree
  <2> SUFFICES ASSUME Init
               PROVE  SafeTree
    OBVIOUS
  <2>1. PICK root \in Roots :
          in_msgs = [a \in Apps |-> IF a = root THEN <<Client>> ELSE <<>>]
    BY DEF Init
  <2>2. PICK t \in Trees(root) : TRUE
    OBVIOUS
  <2>3. t[1] \in [Apps -> Apps \cup {Client}] /\ Rooted(root, t[1], t[2])
    BY <1>0
  <2>4. ASSUME NEW a \in Apps
        PROVE  TreeApp(root, t[1], a)
    <3>1. /\ original[a] = {} /\ waiting[a] = {} /\ ext[a] = "off" /\ ~answered
          /\ \A q \in Pairs : conn[q] = "none"
      BY DEF Init
    <3>2. Fresh(a)
      BY <3>1 DEF Fresh
    <3>3. a # root => in_msgs[a] = <<>> /\ <<t[1][a], a>> \in Pairs
      BY <2>1, <2>3 DEF Rooted, Pairs
    <3>4. a = root => in_msgs[a] = <<Client>>
      BY <2>1
    <3>5. a # root => \A i \in DOMAIN in_msgs[a] : in_msgs[a][i] # Client
      BY <3>3
    <3> QED BY <3>1, <3>2, <3>3, <3>4, <3>5 DEF TreeApp
  <2> QED BY <2>2, <2>4 DEF Init, SafeTree, TreeInv
<1>2. IInv /\ SafeTree /\ [Next]_vars => SafeTree'
  <2> SUFFICES ASSUME IInv, SafeTree, [Next]_vars
               PROVE  SafeTree'
    OBVIOUS
  <2>0. PICK root \in Roots : \E t \in Trees(root) : TreeInv(root, t[1])
    BY DEF SafeTree
  <2>1. PICK t \in Trees(root) : TreeInv(root, t[1])
    BY <2>0
  <2>2. /\ t[1] \in [Apps -> Apps \cup {Client}] /\ t[2] \in [Apps -> Nat]
        /\ Rooted(root, t[1], t[2])
    BY <1>0
  <2>3. TreeInv(root, t[1])'
    BY <2>1, <2>2, TreeStep, Zenon
  <2> QED BY <2>3 DEF SafeTree
<1> QED BY <1>1, <1>2, Invariance, PTL DEF Spec

\* In a tree of any size the OK that the client gets means that the extension
\* system runs in every app: an app answers its parent only when it runs,
\* and it starts only when all its children have answered
\* (ten_engine_handle_cmd_result_for_cmd_start_graph).
THEOREM TreeStartedEverywhere ==
  ASSUME \A root \in Roots : Trees(root) # {}
  PROVE  Spec => []StartedEverywhere
<1>1. SafeTree => StartedEverywhere
  <2> SUFFICES ASSUME SafeTree, answered
               PROVE  \A a \in Apps : ext[a] = "on"
    BY DEF StartedEverywhere
  <2>0. PICK root \in Roots : \E t \in Trees(root) : TreeInv(root, t[1])
    BY DEF SafeTree
  <2>1. PICK t \in Trees(root) : TreeInv(root, t[1])
    BY <2>0
  <2>2. /\ t[1] \in [Apps -> Apps \cup {Client}] /\ t[2] \in [Apps -> Nat]
        /\ Rooted(root, t[1], t[2])
    BY DEF Trees
  <2> QED BY <2>1, <2>2, TreeStarted, Zenon
<1> QED BY <1>1, TreeInvariance, PTL
=============================================================================
