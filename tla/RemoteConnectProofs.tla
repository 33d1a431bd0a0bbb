------------------------ MODULE RemoteConnectProofs ------------------------
(***************************************************************************)
(* Theorems about the remotes of an engine, for any set of remotes and any *)
(* number of retries.                                                      *)
(***************************************************************************)
EXTENDS RemoteConnect, TLAPS

-----------------------------------------------------------------------------
(* The inductive invariant.                                                *)

\* What a remote, its protocol and its connect attempt may be at one time: a
\* remote is listed while it lives, ends together with its protocol, and
\* nobody waits for on_server_connected without something that will call it.
RemoteOK(x) ==
  /\ x.remote \in {"none", "creating"} => x = [NoRemote EXCEPT !.remote = x.remote]
  /\ x.remote \in {"open", "closing"} <=> x.table # "none"
  /\ x.remote \in {"open", "closing"} <=> x.proto \in {"open", "closing"}
  /\ x.remote = "closing" => x.proto = "closing"
  /\ x.remote = "closed" <=> x.proto = "closed"
  /\ x.cb => x.uncompleted /\ ~x.sent
  /\ x.timerClose # "no" => x.timer # "none"
  /\ x.timer = "armed" =>
       x.cb /\ x.times < MaxRetries /\ (x.proto = "open" => x.timerClose = "no")
  /\ x.attempt = "first" => x.cb /\ x.timer = "none" /\ x.stream = "none" /\ x.times = 0
  /\ x.attempt = "retry" /\ x.proto = "open" =>
       x.cb /\ x.timer = "idle" /\ x.timerClose = "no"
  /\ ProtocolClosesLast(x)

\* A remote with an answer waits for none; a strong remote ends only when its
\* peer has left or the engine closes.
AnswerOK(x, n, left, closing) ==
  /\ n <= 1
  /\ x.cb \/ x.remote = "creating" => n = 0
  /\ x.table = "strong" => n = 1
  /\ x.closeTask => left
  /\ x.table = "strong" /\ x.proto # "open" => left \/ closing

RemotesOK ==
  \A r \in Remotes :
    RemoteOK(st[r]) /\ AnswerOK(st[r], answers[r], r \in lost, eng.isClosing)

HasChannel(r) == answers[r] = 1 /\ (st[r].table = "strong" \/ r \in lost)

\* While the engine waits for the answers of some remotes, the others have
\* said yes.
EngineOK ==
  /\ eng.original = "none" =>
       \A r \in Remotes : st[r].remote = "none" /\ answers[r] = 0
  /\ eng.waiting # {} => eng.original = "waiting"
  /\ eng.original = "waiting" /\ ~eng.isClosing =>
       \A r \in Remotes \ eng.waiting : HasChannel(r)
  /\ eng.context = "open" => ~eng.isClosing
  /\ eng.context = "closing" => eng.isClosing
  /\ eng.closed =>
       /\ eng.isClosing /\ eng.context = "none"
       /\ \A r \in Remotes : st[r].table = "none"

IInv == TypeOK /\ RemotesOK /\ EngineOK /\ ContextNeedsChannels

-----------------------------------------------------------------------------
(* The closing of a protocol.                                              *)

\* What closing leaves alone.
Kept(x, y) ==
  /\ y.table = x.table /\ y.times = x.times /\ y.attempt = x.attempt
  /\ y.uncompleted = x.uncompleted /\ y.cb = x.cb /\ y.closeTask = x.closeTask
  /\ y.sent = x.sent /\ y.timer = x.timer

\* Closing the last resource ends a protocol and its remote together.
LEMMA OnClose ==
  ASSUME NEW x \in RemoteState, NEW y, y = ten_protocol_integrated_on_close(x)
  PROVE  /\ y \in RemoteState /\ Kept(x, y)
         /\ y.stream = x.stream /\ y.timerClose = x.timerClose
         /\ IF x.stream = "none" /\ x.timer = "none" /\ ~x.uncompleted
            THEN y.proto = "closed" /\ y.remote = "closed"
            ELSE y.proto = x.proto /\ y.remote = x.remote
<1>1. CASE x.stream = "none" /\ x.timer = "none" /\ ~x.uncompleted
  <2>1. y = [x EXCEPT !.proto = "closed", !.remote = "closed"]
    BY <1>1 DEF ten_protocol_integrated_on_close, ten_protocol_integrated_could_be_close
  <2> QED
    BY <1>1, <2>1 DEF RemoteState, Kept
<1>2. CASE ~(x.stream = "none" /\ x.timer = "none" /\ ~x.uncompleted)
  <2>1. y = x
    BY <1>2 DEF ten_protocol_integrated_on_close, ten_protocol_integrated_could_be_close
  <2> QED
    BY <1>2, <2>1 DEF Kept
<1> QED
  BY <1>1, <1>2

\* ten_protocol_close waits for the stream, the timer and a connect attempt.
LEMMA ProtocolClose ==
  ASSUME NEW x \in RemoteState, NEW y, y = ten_protocol_close(x), x.proto = "open"
  PROVE  /\ y \in RemoteState /\ Kept(x, y)
         /\ y.stream = IF x.stream = "open" THEN "closing" ELSE x.stream
         /\ y.timerClose = IF x.timer # "none" /\ x.timerClose = "no" THEN "posted"
                           ELSE x.timerClose
         /\ IF x.stream = "none" /\ x.timer = "none" /\ ~x.uncompleted
            THEN y.proto = "closed" /\ y.remote = "closed"
            ELSE y.proto = "closing" /\ y.remote = x.remote
<1> DEFINE z == [x EXCEPT !.proto = "closing"]
<1>1. z \in RemoteState /\ y = ten_protocol_integrated_close(z)
  BY DEF ten_protocol_close, RemoteState
<1>2. /\ Kept(x, z) /\ z.stream = x.stream /\ z.timerClose = x.timerClose
      /\ z.proto = "closing" /\ z.remote = x.remote
  BY DEF Kept, RemoteState
<1> HIDE DEF z
<1>3. CASE z.timer # "none"
  <2>1. y = StopAndCloseTimer(IF z.stream = "open" THEN [z EXCEPT !.stream = "closing"] ELSE z)
    BY <1>1, <1>3 DEF ten_protocol_integrated_close
  <2> QED
    BY <1>1, <1>2, <1>3, <2>1 DEF StopAndCloseTimer, RemoteState, Kept
<1>4. CASE z.timer = "none" /\ z.stream # "none"
  <2>1. y = IF z.stream = "open" THEN [z EXCEPT !.stream = "closing"] ELSE z
    BY <1>1, <1>4 DEF ten_protocol_integrated_close
  <2> QED
    BY <1>1, <1>2, <1>4, <2>1 DEF RemoteState, Kept
<1>5. CASE z.timer = "none" /\ z.stream = "none"
  <2>1. y = ten_protocol_integrated_on_close(z)
    BY <1>1, <1>5 DEF ten_protocol_integrated_close
  <2> QED
    BY <1>1, <1>2, <1>5, <2>1, OnClose DEF Kept
<1> QED
  BY <1>3, <1>4, <1>5

\* ten_remote_close closes the protocol of a remote that is alive.
LEMMA RemoteClose ==
  ASSUME NEW x \in RemoteState, NEW y, y = ten_remote_close(x),
         x.remote \in {"open", "closing"}, x.proto \in {"open", "closing"},
         x.remote = "closing" => x.proto = "closing"
  PROVE  /\ y \in RemoteState /\ Kept(x, y)
         /\ y.remote \in {"closing", "closed"} /\ y.proto = y.remote
         /\ x.proto = "closing" =>
              y.remote = "closing" /\ y.stream = x.stream /\ y.timerClose = x.timerClose
         /\ x.proto = "open" =>
              /\ y.stream = IF x.stream = "open" THEN "closing" ELSE x.stream
              /\ y.timerClose = IF x.timer # "none" /\ x.timerClose = "no" THEN "posted"
                                ELSE x.timerClose
              /\ y.remote = "closed" <=> x.stream = "none" /\ x.timer = "none" /\ ~x.uncompleted
<1>1. CASE x.remote = "closing"
  BY <1>1 DEF ten_remote_close, Kept
<1>2. CASE x.remote = "open"
  <2> DEFINE z == [x EXCEPT !.remote = "closing"]
  <2>1. y = ten_protocol_close(z) /\ z \in RemoteState
    BY <1>2 DEF ten_remote_close, RemoteState
  <2>2. /\ Kept(x, z) /\ z.stream = x.stream /\ z.timerClose = x.timerClose
        /\ z.proto = x.proto /\ z.remote = "closing"
    BY DEF Kept, RemoteState
  <2> HIDE DEF z
  <2>3. CASE x.proto = "closing"
    BY <2>1, <2>2, <2>3 DEF ten_protocol_close, Kept
  <2>4. CASE x.proto = "open"
    BY <2>1, <2>2, <2>4, ProtocolClose DEF Kept
  <2> QED
    BY <2>3, <2>4
<1> QED
  BY <1>1, <1>2

\* OnCloseIfClosing, in fields.
LEMMA OnCloseIf ==
  ASSUME NEW x \in RemoteState, NEW y, y = OnCloseIfClosing(x)
  PROVE  /\ y \in RemoteState /\ Kept(x, y)
         /\ y.stream = x.stream /\ y.timerClose = x.timerClose
         /\ IF x.proto = "closing" /\ x.stream = "none" /\ x.timer = "none" /\ ~x.uncompleted
            THEN y.proto = "closed" /\ y.remote = "closed"
            ELSE y.proto = x.proto /\ y.remote = x.remote
<1>1. CASE x.proto = "closing"
  BY <1>1, OnClose DEF OnCloseIfClosing
<1>2. CASE x.proto # "closing"
  BY <1>2 DEF OnCloseIfClosing, Kept
<1> QED
  BY <1>1, <1>2

\* ConnectError closes a remote and forgets its callback.
LEMMA ConnectErrorCloses ==
  ASSUME NEW x \in RemoteState, NEW y, y = ConnectError(x),
         x.remote \in {"open", "closing"}, x.proto \in {"open", "closing"},
         x.remote = "closing" => x.proto = "closing"
  PROVE  /\ y \in RemoteState /\ y.table = x.table /\ y.times = x.times
         /\ y.attempt = x.attempt /\ y.uncompleted = x.uncompleted /\ ~y.cb
         /\ y.closeTask = x.closeTask /\ y.sent = x.sent /\ y.timer = x.timer
         /\ x.stream = "none" => y.stream = "none"
         /\ x.timer = "none" => y.timerClose = x.timerClose
         /\ y.remote \in {"closing", "closed"} /\ y.proto = y.remote
         /\ y.proto = "closed" => y.stream = "none" /\ y.timer = "none" /\ ~y.uncompleted
<1> DEFINE c == ten_remote_close(x)
           d == [c EXCEPT !.cb = FALSE]
<1>1. /\ c \in RemoteState /\ Kept(x, c)
      /\ c.remote \in {"closing", "closed"} /\ c.proto = c.remote
      /\ x.stream = "none" => c.stream = "none"
      /\ x.timer = "none" => c.timerClose = x.timerClose
      /\ c.proto = "closed" => c.stream = "none" /\ c.timer = "none" /\ ~c.uncompleted
  BY RemoteClose DEF Kept
<1> HIDE DEF c
<1>2. /\ d \in RemoteState /\ ~d.cb
      /\ d.remote = c.remote /\ d.proto = c.proto /\ d.table = c.table
      /\ d.stream = c.stream /\ d.timer = c.timer /\ d.timerClose = c.timerClose
      /\ d.times = c.times /\ d.attempt = c.attempt /\ d.uncompleted = c.uncompleted
      /\ d.closeTask = c.closeTask /\ d.sent = c.sent
  BY <1>1 DEF RemoteState
<1>3. y = OnCloseIfClosing(d)
  BY DEF ConnectError, c
<1> HIDE DEF d
<1>4. /\ y \in RemoteState /\ Kept(d, y) /\ y.stream = d.stream /\ y.timerClose = d.timerClose
      /\ IF d.proto = "closing" /\ d.stream = "none" /\ d.timer = "none" /\ ~d.uncompleted
         THEN y.proto = "closed" /\ y.remote = "closed"
         ELSE y.proto = d.proto /\ y.remote = d.remote
  BY <1>2, <1>3, OnCloseIf
<1> QED
  BY <1>1, <1>2, <1>4 DEF Kept

-----------------------------------------------------------------------------
(* A step of one remote.                                                   *)

\* What a step of a remote asks of the engine: it goes on as it was, or the
\* step was an error that ends the wait for the remotes; it closes only when
\* no remote is listed.
EngineGoesOn(e, f, s) ==
  /\ f \in EngineState
  /\ f.isClosing = e.isClosing /\ f.context = e.context
  /\ \/ f.waiting = e.waiting /\ f.original = e.original
     \/ f.waiting = {} /\ f.original = "error"
  /\ f.closed => \/ e.closed
                 \/ e.isClosing /\ e.context = "none" /\ \A q \in Remotes : s[q].table = "none"

\* A step of remote r to y, with n answers after it.
RemoteMoves(r, y, n) ==
  /\ y \in RemoteState /\ n \in Nat
  /\ st' = [st EXCEPT ![r] = y] /\ answers' = [answers EXCEPT ![r] = n]
  /\ lost \subseteq lost' /\ lost' \subseteq lost \cup {r}
  /\ longRunning' = longRunning
  /\ RemoteOK(y) /\ AnswerOK(y, n, r \in lost', eng.isClosing)

\* Such a step keeps the invariant.
LEMMA RemoteStep ==
  ASSUME IInv, NEW r \in Remotes, NEW y, NEW n, RemoteMoves(r, y, n),
         EngineGoesOn(eng, eng', st'),
         st[r].remote # "none",
         y.table # "none" => st[r].table # "none" \/ ~eng.isClosing,
         ~eng.isClosing /\ HasChannel(r) => n = 1 /\ (y.table = "strong" \/ r \in lost')
  PROVE  IInv'
<1> USE DEF IInv
<1>1. /\ st' \in [Remotes -> RemoteState] /\ st'[r] = y
      /\ \A q \in Remotes : q # r => st'[q] = st[q]
      /\ answers' \in [Remotes -> Nat] /\ answers'[r] = n
      /\ \A q \in Remotes : q # r => answers'[q] = answers[q]
      /\ lost' \subseteq Remotes
      /\ \A q \in Remotes : q # r => (q \in lost' <=> q \in lost)
  BY DEF RemoteMoves, TypeOK
<1>2. TypeOK'
  BY <1>1 DEF TypeOK, EngineGoesOn, RemoteMoves
<1>3. RemotesOK'
  <2> SUFFICES ASSUME NEW q \in Remotes
               PROVE  /\ RemoteOK(st'[q])
                      /\ AnswerOK(st'[q], answers'[q], q \in lost', eng'.isClosing)
    BY DEF RemotesOK
  <2>1. CASE q = r
    BY <1>1, <2>1 DEF RemoteMoves, EngineGoesOn, AnswerOK
  <2>2. CASE q # r
    BY <1>1, <2>2 DEF RemotesOK, EngineGoesOn, AnswerOK
  <2> QED
    BY <2>1, <2>2
<1>4. ASSUME ~eng.isClosing, NEW q \in Remotes, HasChannel(q) PROVE HasChannel(q)'
  <2>1. CASE q = r
    BY <1>1, <1>4, <2>1 DEF HasChannel
  <2>2. CASE q # r
    BY <1>1, <1>4, <2>2 DEF HasChannel
  <2> QED
    BY <2>1, <2>2
<1>5. eng.original # "none" /\ eng'.original # "none"
  BY DEF EngineOK, EngineGoesOn
<1>6. (eng.context = "open" => ~eng.isClosing) /\ (eng.context = "closing" => eng.isClosing)
  BY DEF EngineOK
<1>7. EngineOK'
  <2>1. eng'.waiting # {} => eng'.original = "waiting"
    BY DEF EngineOK, EngineGoesOn
  <2>2. ASSUME eng'.original = "waiting", ~eng'.isClosing, NEW q \in Remotes \ eng'.waiting
        PROVE  HasChannel(q)'
    BY <1>4, <2>2 DEF EngineOK, EngineGoesOn
  <2>3. (eng'.context = "open" => ~eng'.isClosing) /\ (eng'.context = "closing" => eng'.isClosing)
    BY <1>6 DEF EngineGoesOn
  <2>4. ASSUME eng'.closed
        PROVE  /\ eng'.isClosing /\ eng'.context = "none"
               /\ \A q \in Remotes : st'[q].table = "none"
    <3>1. CASE eng.closed
      BY <1>1, <3>1 DEF EngineOK, EngineGoesOn
    <3>2. CASE ~eng.closed
      BY <2>4, <3>2 DEF EngineGoesOn
    <3> QED
      BY <3>1, <3>2
  <2> QED
    BY <1>5, <2>1, <2>2, <2>3, <2>4 DEF EngineOK
<1>8. ContextNeedsChannels'
  BY <1>4, <1>6 DEF ContextNeedsChannels, EngineGoesOn, HasChannel
<1> QED
  BY <1>2, <1>3, <1>7, <1>8

\* ten_engine_on_close closes the engine when no remote is listed.
LEMMA EngineCloseNeedsAll ==
  ASSUME NEW e \in EngineState, NEW s
  PROVE  /\ ten_engine_on_close(e, s) \in EngineState
         /\ ten_engine_on_close(e, s).isClosing = e.isClosing
         /\ ten_engine_on_close(e, s).context = e.context
         /\ ten_engine_on_close(e, s).waiting = e.waiting
         /\ ten_engine_on_close(e, s).original = e.original
         /\ ten_engine_on_close(e, s).closed =>
              e.closed \/ (e.context = "none" /\ \A q \in Remotes : s[q].table = "none")
<1>1. CASE ten_engine_could_be_close(e, s)
  <2>1. ten_engine_on_close(e, s) = [e EXCEPT !.closed = TRUE]
    BY <1>1 DEF ten_engine_on_close
  <2> QED
    BY <1>1, <2>1 DEF ten_engine_could_be_close, EngineState
<1>2. CASE ~ten_engine_could_be_close(e, s)
  BY <1>2 DEF ten_engine_on_close
<1> QED
  BY <1>1, <1>2

\* An error answers the command the engine was started with, once.
LEMMA ErrorGoesOn ==
  ASSUME NEW e \in EngineState, NEW r
  PROVE  /\ ResultError(e, r) \in EngineState
         /\ ResultError(e, r).isClosing = e.isClosing
         /\ ResultError(e, r).context = e.context
         /\ ResultError(e, r).closed = e.closed
         /\ \/ ResultError(e, r).waiting = e.waiting /\ ResultError(e, r).original = e.original
            \/ ResultError(e, r).waiting = {} /\ ResultError(e, r).original = "error"
<1>1. CASE r \notin e.waiting
  <2>1. ResultError(e, r) = [e EXCEPT !.closePosted = TRUE]
    BY <1>1 DEF ResultError
  <2> QED
    BY <2>1 DEF EngineState
<1>2. CASE r \in e.waiting
  <2>1. ResultError(e, r) =
          [e EXCEPT !.waiting = {}, !.original = "error", !.closePosted = TRUE]
    BY <1>2 DEF ResultError
  <2> QED
    BY <2>1 DEF EngineState
<1> QED
  BY <1>1, <1>2

\* The end of a step: a remote that has closed leaves its table and tells the
\* engine.
LEMMA SettleStep ==
  ASSUME IInv, NEW r \in Remotes, NEW x \in RemoteState, NEW e \in EngineState,
         Settle(r, x, e), st[r].remote # "closed",
         EngineGoesOn(eng, e, st), e.closed = eng.closed
  PROVE  \E y \in RemoteState :
           /\ st' = [st EXCEPT ![r] = y] /\ EngineGoesOn(eng, eng', st')
           /\ y.table = IF x.remote = "closed" THEN "none" ELSE x.table
           /\ y.remote = x.remote /\ y.proto = x.proto /\ y.stream = x.stream
           /\ y.timer = x.timer /\ y.timerClose = x.timerClose /\ y.times = x.times
           /\ y.attempt = x.attempt /\ y.uncompleted = x.uncompleted /\ y.cb = x.cb
           /\ y.closeTask = x.closeTask /\ y.sent = x.sent
<1> DEFINE y == IF x.remote = "closed" THEN [x EXCEPT !.table = "none"] ELSE x
           s == [st EXCEPT ![r] = y]
<1>1. /\ y \in RemoteState
      /\ y.table = IF x.remote = "closed" THEN "none" ELSE x.table
      /\ y.remote = x.remote /\ y.proto = x.proto /\ y.stream = x.stream
      /\ y.timer = x.timer /\ y.timerClose = x.timerClose /\ y.times = x.times
      /\ y.attempt = x.attempt /\ y.uncompleted = x.uncompleted /\ y.cb = x.cb
      /\ y.closeTask = x.closeTask /\ y.sent = x.sent
  BY DEF RemoteState
<1>2. /\ st' = s
      /\ eng' = IF x.remote = "closed" THEN ten_engine_on_remote_closed(e, x, s) ELSE e
  BY DEF Settle
<1> HIDE DEF y, s
<1>3. EngineGoesOn(eng, eng', st')
  <2>1. CASE x.remote = "closed" /\ e.isClosing
    <3>1. eng' = ten_engine_on_close(e, s)
      BY <1>2, <2>1 DEF ten_engine_on_remote_closed
    <3>2. /\ eng' \in EngineState /\ eng'.isClosing = e.isClosing /\ eng'.context = e.context
          /\ eng'.waiting = e.waiting /\ eng'.original = e.original
          /\ eng'.closed =>
               e.closed \/ (e.context = "none" /\ \A q \in Remotes : s[q].table = "none")
      BY <3>1, EngineCloseNeedsAll
    <3> QED
      BY <1>2, <2>1, <3>2 DEF EngineGoesOn
  <2>2. CASE x.remote = "closed" /\ ~e.isClosing /\ x.table = "strong" /\ ~longRunning
    <3>1. eng' = [e EXCEPT !.closePosted = TRUE]
      BY <1>2, <2>2 DEF ten_engine_on_remote_closed
    <3>2. /\ eng' \in EngineState /\ eng'.isClosing = e.isClosing /\ eng'.context = e.context
          /\ eng'.waiting = e.waiting /\ eng'.original = e.original /\ eng'.closed = e.closed
      BY <3>1 DEF EngineState
    <3> QED
      BY <3>2 DEF EngineGoesOn
  <2>3. CASE x.remote = "closed" /\ ~e.isClosing /\ ~(x.table = "strong" /\ ~longRunning)
    <3>1. eng' = e
      BY <1>2, <2>3 DEF ten_engine_on_remote_closed
    <3> QED
      BY <3>1 DEF EngineGoesOn
  <2>4. CASE x.remote # "closed"
    BY <1>2, <2>4 DEF EngineGoesOn
  <2> QED
    BY <2>1, <2>2, <2>3, <2>4
<1> QED
  BY <1>1, <1>2, <1>3 DEF s

-----------------------------------------------------------------------------
(* The invariant holds.                                                    *)

\* What the invariant says of one remote.
LEMMA OneRemote ==
  ASSUME IInv, NEW r \in Remotes
  PROVE  /\ st[r] \in RemoteState /\ answers[r] \in Nat /\ eng \in EngineState
         /\ RemoteOK(st[r]) /\ AnswerOK(st[r], answers[r], r \in lost, eng.isClosing)
         /\ answers = [answers EXCEPT ![r] = answers[r]] /\ st = [st EXCEPT ![r] = st[r]]
         /\ \A s : EngineGoesOn(eng, eng, s)
         /\ \/ st[r].remote \in {"open", "closing", "closed"}
            \/ /\ st[r].proto = "none" /\ st[r].table = "none" /\ st[r].stream = "none"
               /\ st[r].timer = "none" /\ st[r].timerClose = "no" /\ st[r].attempt = "none"
               /\ ~st[r].closeTask
<1>1. /\ st[r] \in RemoteState /\ answers[r] \in Nat /\ eng \in EngineState
      /\ RemoteOK(st[r]) /\ AnswerOK(st[r], answers[r], r \in lost, eng.isClosing)
      /\ answers = [answers EXCEPT ![r] = answers[r]] /\ st = [st EXCEPT ![r] = st[r]]
      /\ \A s : EngineGoesOn(eng, eng, s)
  BY DEF IInv, TypeOK, RemotesOK, EngineGoesOn
<1>2. st[r].remote \in {"none", "creating"} => st[r] = [NoRemote EXCEPT !.remote = st[r].remote]
  BY <1>1 DEF RemoteOK
<1> QED
  BY <1>1, <1>2 DEF NoRemote, RemoteState

\* No remote is asked for at the start.
LEMMA InitIInv == Init => IInv
<1> SUFFICES ASSUME Init PROVE IInv
  OBVIOUS
<1> USE RetriesAssumption
<1>1. NoRemote \in RemoteState
  BY DEF NoRemote, RemoteState
<1>2. TypeOK
  BY <1>1 DEF Init, TypeOK, EngineState
<1>3. \A r \in Remotes : st[r] = NoRemote /\ answers[r] = 0
  BY DEF Init
<1>4. NoRemote = [NoRemote EXCEPT !.remote = NoRemote.remote]
  BY DEF NoRemote
<1>5. RemoteOK(NoRemote)
  BY <1>4 DEF RemoteOK, NoRemote, ProtocolClosesLast
<1>6. RemotesOK
  <2>1. ~NoRemote.cb /\ ~NoRemote.closeTask /\ NoRemote.table = "none" /\ NoRemote.remote = "none"
    BY DEF NoRemote
  <2>2. ASSUME NEW r \in Remotes PROVE AnswerOK(NoRemote, 0, r \in lost, eng.isClosing)
    BY <2>1 DEF AnswerOK
  <2> QED
    BY <1>3, <1>5, <2>2 DEF RemotesOK
<1>7. EngineOK /\ ContextNeedsChannels
  BY <1>3 DEF Init, EngineOK, ContextNeedsChannels, NoRemote
<1> QED
  BY <1>2, <1>6, <1>7 DEF IInv

\* No remote, field by field.
LEMMA NoRemoteFields ==
  /\ NoRemote \in RemoteState /\ NoRemote.remote = "none" /\ NoRemote.proto = "none"
  /\ NoRemote.table = "none" /\ NoRemote.stream = "none" /\ NoRemote.timer = "none"
  /\ NoRemote.timerClose = "no" /\ NoRemote.times = 0 /\ NoRemote.attempt = "none"
  /\ ~NoRemote.uncompleted /\ ~NoRemote.cb /\ ~NoRemote.closeTask /\ ~NoRemote.sent
  BY RetriesAssumption DEF NoRemote, RemoteState

\* A remote that is added when its protocol is there.
LEMMA NewRemoteFields ==
  /\ NewRemote \in RemoteState /\ NewRemote.remote = "open" /\ NewRemote.proto = "open"
  /\ NewRemote.table = "weak" /\ NewRemote.stream = "none" /\ NewRemote.timer = "none"
  /\ NewRemote.timerClose = "no" /\ NewRemote.times = 0 /\ NewRemote.attempt = "none"
  /\ ~NewRemote.uncompleted /\ NewRemote.cb /\ ~NewRemote.closeTask /\ ~NewRemote.sent
  BY NoRemoteFields DEF NewRemote, RemoteState

\* Every callback and task for a remote keeps the invariant.
LEMMA CallbackKeeps ==
  ASSUME IInv, NEW r \in Remotes, Callback(r)
  PROVE  IInv'
<1> USE RetriesAssumption
<1> DEFINE x == st[r]
<1>0. /\ x \in RemoteState /\ answers[r] \in Nat /\ eng \in EngineState
      /\ RemoteOK(x) /\ AnswerOK(x, answers[r], r \in lost, eng.isClosing)
      /\ answers = [answers EXCEPT ![r] = answers[r]]
      /\ \A s : EngineGoesOn(eng, eng, s)
      /\ EngineGoesOn(eng, ResultError(eng, r), st)
      /\ ResultError(eng, r) \in EngineState /\ ResultError(eng, r).closed = eng.closed
      /\ \/ x.remote \in {"open", "closing", "closed"}
         \/ /\ x.proto = "none" /\ x.table = "none" /\ x.stream = "none"
            /\ x.timer = "none" /\ x.timerClose = "no" /\ x.attempt = "none"
            /\ ~x.closeTask
  BY OneRemote, ErrorGoesOn DEF EngineGoesOn
<1>1. CASE FirstConnectSucceeds(r)
  <2> DEFINE y == Connected(ConnectEnded(r))
  <2>1. /\ y \in RemoteState /\ y.remote = x.remote /\ y.proto = x.proto /\ y.table = x.table
        /\ y.stream = "open" /\ y.timer = x.timer /\ y.timerClose = x.timerClose
        /\ y.times = x.times /\ y.attempt = "none" /\ ~y.uncompleted /\ ~y.cb
        /\ y.closeTask = x.closeTask /\ y.sent
    BY <1>0, <1>1 DEF FirstConnectSucceeds, RemoteState, ConnectEnded, Connected
  <2>2. /\ st' = [st EXCEPT ![r] = y]
        /\ UNCHANGED <<answers, lost, eng, longRunning>>
    BY <1>1 DEF FirstConnectSucceeds, ConnectEnded, Connected
  <2> HIDE DEF y, x
  <2>3. RemoteOK(y)
    BY <1>0, <1>1, <2>1 DEF FirstConnectSucceeds, RemoteOK, ProtocolClosesLast, RemoteState, x
  <2>4. AnswerOK(y, answers[r], r \in lost', eng.isClosing)
    BY <1>0, <1>1, <2>1, <2>2 DEF FirstConnectSucceeds, AnswerOK, RemoteOK, ProtocolClosesLast, x
  <2>5. RemoteMoves(r, y, answers[r])
    BY <1>0, <1>1, <2>1, <2>2, <2>3, <2>4 DEF RemoteMoves, FirstConnectSucceeds
  <2>6. /\ x.remote # "none"
        /\ y.table # "none" => x.table # "none" \/ ~eng.isClosing
        /\ ~eng.isClosing /\ HasChannel(r) =>
             answers[r] = 1 /\ (y.table = "strong" \/ r \in lost')
    BY <1>0, <1>1, <2>1, <2>2
    DEF FirstConnectSucceeds, HasChannel, RemoteOK, ProtocolClosesLast, NoRemote, x
  <2> QED
    BY <1>0, <2>2, <2>5, <2>6, RemoteStep DEF x
<1>2. CASE FirstConnectRetries(r)
  <2> DEFINE y == [ConnectEnded(r) EXCEPT !.uncompleted = TRUE, !.timer = "armed"]
  <2>1. /\ y \in RemoteState /\ y.remote = x.remote /\ y.proto = x.proto /\ y.table = x.table
        /\ y.stream = x.stream /\ y.timer = "armed" /\ y.timerClose = x.timerClose
        /\ y.times = x.times /\ y.attempt = "none" /\ y.uncompleted /\ y.cb = x.cb
        /\ y.closeTask = x.closeTask /\ y.sent = x.sent
    BY <1>0, <1>2 DEF FirstConnectRetries, RemoteState, ConnectEnded
  <2>2. /\ st' = [st EXCEPT ![r] = y]
        /\ UNCHANGED <<answers, lost, eng, longRunning>>
    BY <1>2 DEF FirstConnectRetries, ConnectEnded
  <2> HIDE DEF y, x
  <2>3. RemoteOK(y)
    BY <1>0, <1>2, <2>1 DEF FirstConnectRetries, RemoteOK, ProtocolClosesLast, RemoteState, x
  <2>4. AnswerOK(y, answers[r], r \in lost', eng.isClosing)
    BY <1>0, <1>2, <2>1, <2>2 DEF FirstConnectRetries, AnswerOK, RemoteOK, ProtocolClosesLast, x
  <2>5. RemoteMoves(r, y, answers[r])
    BY <1>0, <1>2, <2>1, <2>2, <2>3, <2>4 DEF RemoteMoves, FirstConnectRetries
  <2>6. /\ x.remote # "none"
        /\ y.table # "none" => x.table # "none" \/ ~eng.isClosing
        /\ ~eng.isClosing /\ HasChannel(r) =>
             answers[r] = 1 /\ (y.table = "strong" \/ r \in lost')
    BY <1>0, <1>2, <2>1, <2>2
    DEF FirstConnectRetries, HasChannel, RemoteOK, ProtocolClosesLast, NoRemote, x
  <2> QED
    BY <1>0, <2>2, <2>5, <2>6, RemoteStep DEF x
<1>3. CASE RetryTriggered(r)
  <2> DEFINE y == [Fired(r) EXCEPT !.attempt = "retry"]
  <2>0. x.timer = "armed" /\ x.times + 1 \in 0 .. MaxRetries
    BY <1>0, <1>3 DEF RetryTriggered, RemoteOK, ProtocolClosesLast, RemoteState, MayFire
  <2>1. /\ y \in RemoteState /\ y.remote = x.remote /\ y.proto = x.proto /\ y.table = x.table
        /\ y.stream = x.stream /\ y.timer = "idle" /\ y.timerClose = x.timerClose
        /\ y.times = x.times + 1 /\ y.attempt = "retry" /\ y.uncompleted = x.uncompleted
        /\ y.cb = x.cb /\ y.closeTask = x.closeTask /\ y.sent = x.sent
    BY <1>0, <1>3, <2>0, ZenonT(30) DEF RetryTriggered, RemoteState, Fired, MayFire
  <2>2. /\ st' = [st EXCEPT ![r] = y]
        /\ UNCHANGED <<answers, lost, eng, longRunning>>
    BY <1>3 DEF RetryTriggered, Fired
  <2> HIDE DEF y, x
  <2>3. RemoteOK(y)
    BY <1>0, <1>3, <2>0, <2>1
    DEF RetryTriggered, RemoteOK, ProtocolClosesLast, RemoteState, MayFire, x
  <2>4. AnswerOK(y, answers[r], r \in lost', eng.isClosing)
    BY <1>0, <1>3, <2>1, <2>2
    DEF RetryTriggered, AnswerOK, RemoteOK, ProtocolClosesLast, MayFire, x
  <2>5. RemoteMoves(r, y, answers[r])
    BY <1>0, <1>3, <2>1, <2>2, <2>3, <2>4 DEF RemoteMoves, RetryTriggered
  <2>6. /\ x.remote # "none"
        /\ y.table # "none" => x.table # "none" \/ ~eng.isClosing
        /\ ~eng.isClosing /\ HasChannel(r) =>
             answers[r] = 1 /\ (y.table = "strong" \/ r \in lost')
    BY <1>0, <1>3, <2>1, <2>2
    DEF RetryTriggered, HasChannel, RemoteOK, ProtocolClosesLast, NoRemote, MayFire, x
  <2> QED
    BY <1>0, <2>2, <2>5, <2>6, RemoteStep DEF x
<1>4. CASE RetryTooLate(r)
  <2> DEFINE y == [st[r] EXCEPT !.attempt = "none"]
  <2>1. /\ y \in RemoteState /\ y.remote = x.remote /\ y.proto = x.proto /\ y.table = x.table
        /\ y.stream = x.stream /\ y.timer = x.timer /\ y.timerClose = x.timerClose
        /\ y.times = x.times /\ y.attempt = "none" /\ y.uncompleted = x.uncompleted
        /\ y.cb = x.cb /\ y.closeTask = x.closeTask /\ y.sent = x.sent
    BY <1>0, <1>4 DEF RetryTooLate, RemoteState, ConnectEnded
  <2>2. /\ st' = [st EXCEPT ![r] = y]
        /\ UNCHANGED <<answers, lost, eng, longRunning>>
    BY <1>4 DEF RetryTooLate, ConnectEnded
  <2> HIDE DEF y, x
  <2>3. RemoteOK(y)
    BY <1>0, <1>4, <2>1 DEF RetryTooLate, RemoteOK, ProtocolClosesLast, RemoteState, x
  <2>4. AnswerOK(y, answers[r], r \in lost', eng.isClosing)
    BY <1>0, <1>4, <2>1, <2>2 DEF RetryTooLate, AnswerOK, RemoteOK, ProtocolClosesLast, x
  <2>5. RemoteMoves(r, y, answers[r])
    BY <1>0, <1>4, <2>1, <2>2, <2>3, <2>4 DEF RemoteMoves, RetryTooLate
  <2>6. /\ x.remote # "none"
        /\ y.table # "none" => x.table # "none" \/ ~eng.isClosing
        /\ ~eng.isClosing /\ HasChannel(r) =>
             answers[r] = 1 /\ (y.table = "strong" \/ r \in lost')
    BY <1>0, <1>4, <2>1, <2>2
    DEF RetryTooLate, HasChannel, RemoteOK, ProtocolClosesLast, NoRemote, x
  <2> QED
    BY <1>0, <2>2, <2>5, <2>6, RemoteStep DEF x
<1>5. CASE ten_timer_close_task(r)
  <2> DEFINE y == [st[r] EXCEPT !.timerClose = "closing", !.timer = "idle"]
  <2>0. /\ x.timer # "none" /\ x.uncompleted /\ x.proto # "closed" /\ x.attempt # "first"
        /\ (x.proto = "open" => x.attempt # "retry")
    BY <1>0, <1>5 DEF ten_timer_close_task, RemoteOK, ProtocolClosesLast, RemoteState
  <2>1. /\ y \in RemoteState /\ y.remote = x.remote /\ y.proto = x.proto /\ y.table = x.table
        /\ y.stream = x.stream /\ y.timer = "idle" /\ y.timerClose = "closing"
        /\ y.times = x.times /\ y.attempt = x.attempt /\ y.uncompleted = x.uncompleted
        /\ y.cb = x.cb /\ y.closeTask = x.closeTask /\ y.sent = x.sent
    BY <1>0, <1>5, <2>0 DEF ten_timer_close_task, RemoteState, ConnectEnded
  <2>2. /\ st' = [st EXCEPT ![r] = y]
        /\ UNCHANGED <<answers, lost, eng, longRunning>>
    BY <1>5 DEF ten_timer_close_task, ConnectEnded
  <2> HIDE DEF y, x
  <2>3. RemoteOK(y)
    BY <1>0, <1>5, <2>0, <2>1
    DEF ten_timer_close_task, RemoteOK, ProtocolClosesLast, RemoteState, x
  <2>4. AnswerOK(y, answers[r], r \in lost', eng.isClosing)
    BY <1>0, <1>5, <2>1, <2>2 DEF ten_timer_close_task, AnswerOK, RemoteOK, ProtocolClosesLast, x
  <2>5. RemoteMoves(r, y, answers[r])
    BY <1>0, <1>5, <2>1, <2>2, <2>3, <2>4 DEF RemoteMoves, ten_timer_close_task
  <2>6. /\ x.remote # "none"
        /\ y.table # "none" => x.table # "none" \/ ~eng.isClosing
        /\ ~eng.isClosing /\ HasChannel(r) =>
             answers[r] = 1 /\ (y.table = "strong" \/ r \in lost')
    BY <1>0, <1>5, <2>1, <2>2
    DEF ten_timer_close_task, HasChannel, RemoteOK, ProtocolClosesLast, NoRemote, x
  <2> QED
    BY <1>0, <2>2, <2>5, <2>6, RemoteStep DEF x
<1>6. CASE RetrySucceeds(r)
  <2> DEFINE z == Connected(st[r])
             y == StopAndCloseTimer(z)
  <2>1. /\ x.attempt = "retry" /\ x.proto = "open" /\ x.cb /\ x.timer = "idle"
        /\ x.timerClose = "no"
        /\ x.uncompleted /\ x.remote = "open"
    BY <1>0, <1>6 DEF RetrySucceeds, RemoteOK
  <2>2. /\ y \in RemoteState
        /\ y.remote = x.remote /\ y.proto = x.proto /\ y.table = x.table /\ y.stream = "open"
        /\ y.timer = x.timer /\ y.timerClose = "posted" /\ y.times = x.times /\ y.attempt = "none"
        /\ y.uncompleted = x.uncompleted /\ ~y.cb /\ y.closeTask = x.closeTask /\ y.sent
    <3>1. /\ z \in RemoteState
          /\ z.remote = x.remote /\ z.proto = x.proto /\ z.table = x.table /\ z.stream = "open"
          /\ z.timer = x.timer /\ z.timerClose = "no" /\ z.times = x.times /\ z.attempt = "none"
          /\ z.uncompleted = x.uncompleted /\ ~z.cb /\ z.closeTask = x.closeTask /\ z.sent
      BY <1>0, <2>1 DEF Connected, RemoteState
    <3> HIDE DEF z
    <3>2. y = [z EXCEPT !.timerClose = "posted"]
      BY <3>1 DEF StopAndCloseTimer
    <3> QED
      BY <3>1, <3>2 DEF RemoteState
  <2>3. /\ st' = [st EXCEPT ![r] = y]
        /\ UNCHANGED <<answers, lost, eng, longRunning>>
    BY <1>6 DEF RetrySucceeds
  <2> HIDE DEF x, y, z
  <2>4. RemoteOK(y) /\ AnswerOK(y, answers[r], r \in lost', eng.isClosing)
    BY <1>0, <2>1, <2>2, <2>3 DEF RemoteOK, AnswerOK, ProtocolClosesLast
  <2>5. RemoteMoves(r, y, answers[r])
    BY <1>0, <2>2, <2>3, <2>4 DEF RemoteMoves
  <2> QED
    BY <1>0, <2>1, <2>2, <2>3, <2>5, RemoteStep DEF HasChannel, x
<1>7. CASE RetryFails(r)
  <2> DEFINE z == [st[r] EXCEPT !.attempt = "none"]
             y == ten_timer_enable(z)
  <2>1. /\ x.attempt = "retry" /\ x.proto = "open" /\ x.cb /\ x.timer = "idle"
        /\ x.timerClose = "no"
        /\ x.uncompleted /\ x.remote = "open"
    BY <1>0, <1>7 DEF RetryFails, RemoteOK
  <2>2. /\ z \in RemoteState /\ z.remote = x.remote /\ z.proto = x.proto /\ z.table = x.table
        /\ z.stream = x.stream /\ z.timer = x.timer /\ z.timerClose = "no" /\ z.times = x.times
        /\ z.attempt = "none" /\ z.uncompleted = x.uncompleted /\ z.cb = x.cb
        /\ z.closeTask = x.closeTask /\ z.sent = x.sent
    BY <1>0, <2>1 DEF RemoteState
  <2>3. /\ st' = [st EXCEPT ![r] = y]
        /\ UNCHANGED <<answers, lost, eng, longRunning>>
    BY <1>7 DEF RetryFails
  <2> HIDE DEF x, z
  <2>4. /\ y \in RemoteState /\ y.remote = x.remote /\ y.proto = x.proto /\ y.table = x.table
        /\ y.stream = x.stream /\ y.times = x.times /\ y.attempt = "none"
        /\ y.uncompleted = x.uncompleted /\ y.cb = x.cb
        /\ y.closeTask = x.closeTask /\ y.sent = x.sent
        /\ \/ y.timer = x.timer /\ y.timerClose = "posted"
           \/ y.timer = "armed" /\ y.timerClose = "no" /\ y.times < MaxRetries
    <3>1. CASE z.times >= MaxRetries
      <4>1. y = [z EXCEPT !.timerClose = "posted"]
        BY <2>2, <3>1 DEF ten_timer_enable, StopAndCloseTimer
      <4> QED
        BY <2>2, <4>1 DEF RemoteState
    <3>2. CASE ~(z.times >= MaxRetries)
      <4>1. y = [z EXCEPT !.timer = "armed"]
        BY <2>2, <3>2 DEF ten_timer_enable
      <4> QED
        BY <2>2, <3>2, <4>1 DEF RemoteState
    <3> QED
      BY <3>1, <3>2
  <2> HIDE DEF y
  <2>5. RemoteOK(y) /\ AnswerOK(y, answers[r], r \in lost', eng.isClosing)
    BY <1>0, <2>1, <2>3, <2>4 DEF RemoteOK, AnswerOK, ProtocolClosesLast
  <2>6. RemoteMoves(r, y, answers[r])
    BY <1>0, <2>3, <2>4, <2>5 DEF RemoteMoves
  <2> QED
    BY <1>0, <2>1, <2>3, <2>4, <2>6, RemoteStep DEF HasChannel, x
<1>8. CASE ProtocolCreated(r)
  <2> DEFINE y == [NewRemote EXCEPT !.attempt = "first", !.uncompleted = TRUE]
  <2>1. x.remote = "creating" /\ ~eng.isClosing /\ answers[r] = 0
    BY <1>0, <1>8 DEF ProtocolCreated, AnswerOK
  <2>2. /\ y \in RemoteState /\ y.remote = "open" /\ y.proto = "open" /\ y.table = "weak"
        /\ y.stream = "none" /\ y.timer = "none" /\ y.timerClose = "no" /\ y.times = 0
        /\ y.attempt = "first" /\ y.uncompleted /\ y.cb /\ ~y.closeTask /\ ~y.sent
    BY NewRemoteFields DEF RemoteState
  <2>3. /\ st' = [st EXCEPT ![r] = y] /\ eng' = [eng EXCEPT !.uncompleted = FALSE]
        /\ UNCHANGED <<answers, lost, longRunning>>
    BY <1>8 DEF ProtocolCreated
  <2> HIDE DEF y, x
  <2>4. RemoteOK(y) /\ AnswerOK(y, answers[r], r \in lost', eng.isClosing)
    BY <1>0, <2>1, <2>2, <2>3 DEF RemoteOK, AnswerOK, ProtocolClosesLast
  <2>5. RemoteMoves(r, y, answers[r])
    BY <1>0, <2>2, <2>3, <2>4 DEF RemoteMoves
  <2>6. EngineGoesOn(eng, eng', st')
    BY <1>0, <2>3 DEF EngineGoesOn, EngineState
  <2> QED
    BY <1>0, <2>1, <2>5, <2>6, RemoteStep DEF HasChannel, x
<1>9. CASE ProtocolCreatedTooLate(r)
  <2> DEFINE e == [ResultError(eng, r) EXCEPT !.uncompleted = FALSE]
             s == [st EXCEPT ![r] = NoRemote]
  <2>1. x.remote = "creating" /\ eng.isClosing /\ answers[r] = 0
    BY <1>0, <1>9 DEF ProtocolCreatedTooLate, AnswerOK
  <2>2. /\ st' = s /\ eng' = ten_engine_on_close(e, s)
        /\ answers' = [answers EXCEPT ![r] = 1] /\ UNCHANGED <<lost, longRunning>>
    BY <1>0, <1>9, <2>1 DEF ProtocolCreatedTooLate, Answered
  <2>3. EngineGoesOn(eng, e, st) /\ e \in EngineState /\ e.closed = eng.closed
    BY <1>0 DEF EngineGoesOn, EngineState
  <2> HIDE DEF e, x
  <2>4. EngineGoesOn(eng, eng', st')
    BY <2>1, <2>2, <2>3, EngineCloseNeedsAll DEF EngineGoesOn
  <2>5. /\ NoRemote \in RemoteState /\ ~NoRemote.cb /\ NoRemote.remote = "none"
        /\ NoRemote.table = "none" /\ ~NoRemote.closeTask
    BY DEF NoRemote, RemoteState
  <2>6. RemoteOK(NoRemote)
    <3>1. NoRemote = [NoRemote EXCEPT !.remote = NoRemote.remote]
      BY DEF NoRemote
    <3> QED
      BY <3>1 DEF RemoteOK, NoRemote, ProtocolClosesLast
  <2>7. AnswerOK(NoRemote, 1, r \in lost', eng.isClosing)
    BY <2>5 DEF AnswerOK
  <2>8. RemoteMoves(r, NoRemote, 1)
    BY <2>2, <2>5, <2>6, <2>7 DEF RemoteMoves
  <2> QED
    BY <2>1, <2>4, <2>5, <2>8, RemoteStep DEF x
<1>10. CASE ConnectFailsAtOnce(r)
  <2> DEFINE c == ConnectError(NewRemote)
             e == ResultError([eng EXCEPT !.uncompleted = FALSE], r)
  <2>1. x.remote = "creating" /\ ~eng.isClosing /\ answers[r] = 0
    BY <1>0, <1>10 DEF ConnectFailsAtOnce, AnswerOK
  <2>2. /\ NewRemote \in RemoteState /\ NewRemote.remote = "open" /\ NewRemote.proto = "open"
        /\ NewRemote.table = "weak" /\ NewRemote.stream = "none" /\ NewRemote.timer = "none"
        /\ NewRemote.timerClose = "no" /\ NewRemote.times = 0 /\ NewRemote.attempt = "none"
        /\ ~NewRemote.uncompleted /\ ~NewRemote.closeTask /\ ~NewRemote.sent
    BY NewRemoteFields
  <2>3. /\ c \in RemoteState /\ c.table = "weak" /\ c.stream = "none" /\ c.timer = "none"
        /\ c.timerClose = "no" /\ c.attempt = "none" /\ ~c.uncompleted /\ ~c.cb
        /\ ~c.closeTask /\ c.remote \in {"closing", "closed"} /\ c.proto = c.remote
    BY <2>2, ConnectErrorCloses
  <2>4. EngineGoesOn(eng, e, st) /\ e \in EngineState /\ e.closed = eng.closed
    <3>1. LET f == [eng EXCEPT !.uncompleted = FALSE] IN
            /\ f \in EngineState /\ f.isClosing = eng.isClosing /\ f.context = eng.context
            /\ f.waiting = eng.waiting /\ f.original = eng.original /\ f.closed = eng.closed
      BY <1>0 DEF EngineState
    <3> QED
      BY <1>0, <3>1, ErrorGoesOn, ZenonT(30) DEF EngineGoesOn
  <2>5. /\ Settle(r, c, e) /\ answers' = [answers EXCEPT ![r] = 1]
        /\ UNCHANGED <<lost, longRunning>>
    BY <1>0, <1>10, <2>1 DEF ConnectFailsAtOnce, Answered
  <2> HIDE DEF c, e, x
  <2>6. PICK y \in RemoteState :
          /\ st' = [st EXCEPT ![r] = y] /\ EngineGoesOn(eng, eng', st')
          /\ y.table = IF c.remote = "closed" THEN "none" ELSE c.table
          /\ y.remote = c.remote /\ y.proto = c.proto /\ y.stream = c.stream
          /\ y.timer = c.timer /\ y.timerClose = c.timerClose
          /\ y.attempt = c.attempt /\ y.uncompleted = c.uncompleted /\ y.cb = c.cb
          /\ y.closeTask = c.closeTask
    BY <2>1, <2>3, <2>4, <2>5, SettleStep DEF x
  <2>7. RemoteOK(y) /\ AnswerOK(y, 1, r \in lost', eng.isClosing)
    BY <2>3, <2>6 DEF RemoteOK, AnswerOK, ProtocolClosesLast
  <2>8. RemoteMoves(r, y, 1)
    BY <2>5, <2>6, <2>7 DEF RemoteMoves
  <2> QED
    BY <2>1, <2>6, <2>8, RemoteStep DEF HasChannel, x
<1>11. CASE FirstConnectReported(r)
  <2> DEFINE f == ConnectEnded(r)
             c == ConnectError(f)
             e == ResultError(eng, r)
  <2>1. /\ x.attempt = "first" /\ x.cb /\ x.timer = "none" /\ x.stream = "none"
        /\ x.timerClose = "no"
        /\ x.remote \in {"open", "closing"} /\ x.proto \in {"open", "closing"}
        /\ x.remote = "closing" => x.proto = "closing"
        /\ answers[r] = 0 /\ x.table # "none"
    BY <1>0, <1>11 DEF FirstConnectReported, RemoteOK, AnswerOK, ProtocolClosesLast, RemoteState
  <2>2. /\ f \in RemoteState /\ f.remote = x.remote /\ f.proto = x.proto /\ f.table = x.table
        /\ f.stream = "none" /\ f.timer = "none" /\ f.timerClose = "no" /\ f.attempt = "none"
        /\ ~f.uncompleted /\ f.closeTask = x.closeTask
    BY <1>0, <2>1 DEF ConnectEnded, RemoteState
  <2> HIDE DEF f
  <2>3. /\ c \in RemoteState /\ c.table = x.table /\ c.stream = "none" /\ c.timer = "none"
        /\ c.timerClose = "no" /\ c.attempt = "none" /\ ~c.uncompleted /\ ~c.cb
        /\ c.closeTask = x.closeTask /\ c.remote \in {"closing", "closed"} /\ c.proto = c.remote
    BY <2>1, <2>2, ConnectErrorCloses
  <2>4. EngineGoesOn(eng, e, st) /\ e \in EngineState /\ e.closed = eng.closed
    BY <1>0
  <2>5. /\ Settle(r, c, e) /\ answers' = [answers EXCEPT ![r] = 1]
        /\ UNCHANGED <<lost, longRunning>>
    BY <1>0, <1>11, <2>1 DEF FirstConnectReported, Answered, f
  <2> HIDE DEF c, e, x
  <2>6. PICK y \in RemoteState :
          /\ st' = [st EXCEPT ![r] = y] /\ EngineGoesOn(eng, eng', st')
          /\ y.table = IF c.remote = "closed" THEN "none" ELSE c.table
          /\ y.remote = c.remote /\ y.proto = c.proto /\ y.stream = c.stream
          /\ y.timer = c.timer /\ y.timerClose = c.timerClose
          /\ y.attempt = c.attempt /\ y.uncompleted = c.uncompleted /\ y.cb = c.cb
          /\ y.closeTask = c.closeTask
    BY <2>1, <2>3, <2>4, <2>5, SettleStep DEF x
  <2>7. RemoteOK(y) /\ AnswerOK(y, 1, r \in lost', eng.isClosing)
    BY <1>0, <2>1, <2>3, <2>5, <2>6 DEF RemoteOK, AnswerOK, ProtocolClosesLast
  <2>8. RemoteMoves(r, y, 1)
    BY <2>5, <2>6, <2>7 DEF RemoteMoves
  <2> QED
    BY <2>1, <2>6, <2>8, RemoteStep DEF HasChannel, x
<1>12. CASE RetryFailsAtOnce(r)
  <2> DEFINE f == Fired(r)
             c == ten_remote_close(f)
             d == [c EXCEPT !.cb = FALSE]
             g == StopAndCloseTimer(d)
             e == ResultError(eng, r)
  <2>1. /\ x.timer = "armed" /\ x.timerClose # "closing" /\ x.cb /\ x.uncompleted
        /\ x.times + 1 \in 0 .. MaxRetries /\ x.attempt # "first" /\ x.table # "none"
        /\ x.remote \in {"open", "closing"} /\ x.proto \in {"open", "closing"}
        /\ x.remote = "closing" => x.proto = "closing"
        /\ answers[r] = 0
    BY <1>0, <1>12
    DEF RetryFailsAtOnce, MayFire, RemoteOK, AnswerOK, ProtocolClosesLast, RemoteState
  <2>2. /\ f \in RemoteState /\ f.remote = x.remote /\ f.proto = x.proto /\ f.table = x.table
        /\ f.stream = x.stream /\ f.timer = "idle" /\ f.timerClose = x.timerClose
        /\ f.attempt = x.attempt /\ f.uncompleted /\ f.closeTask = x.closeTask
    BY <1>0, <2>1 DEF Fired, RemoteState
  <2> HIDE DEF f
  <2>3. /\ c \in RemoteState /\ c.table = x.table /\ c.timer = "idle"
        /\ c.attempt = x.attempt /\ c.uncompleted
        /\ c.closeTask = x.closeTask /\ c.remote = "closing" /\ c.proto = "closing"
    BY <2>1, <2>2, RemoteClose DEF Kept
  <2> HIDE DEF c
  <2>4. /\ d \in RemoteState /\ d.table = x.table /\ d.timer = "idle"
        /\ d.attempt = x.attempt /\ d.uncompleted /\ ~d.cb
        /\ d.closeTask = x.closeTask /\ d.remote = "closing" /\ d.proto = "closing"
    BY <2>3 DEF RemoteState
  <2> HIDE DEF d
  <2>5. /\ g \in RemoteState /\ g.table = x.table /\ g.timer = "idle"
        /\ g.attempt = x.attempt /\ g.uncompleted /\ ~g.cb
        /\ g.closeTask = x.closeTask /\ g.remote = "closing" /\ g.proto = "closing"
    BY <2>4 DEF StopAndCloseTimer, RemoteState
  <2>6. EngineGoesOn(eng, e, st) /\ e \in EngineState /\ e.closed = eng.closed
    BY <1>0
  <2>7. /\ Settle(r, g, e) /\ answers' = [answers EXCEPT ![r] = 1]
        /\ UNCHANGED <<lost, longRunning>>
    BY <1>0, <1>12, <2>1 DEF RetryFailsAtOnce, Answered, d, c, f
  <2> HIDE DEF g, e, x
  <2>8. PICK y \in RemoteState :
          /\ st' = [st EXCEPT ![r] = y] /\ EngineGoesOn(eng, eng', st')
          /\ y.table = g.table /\ y.remote = g.remote /\ y.proto = g.proto
          /\ y.timer = g.timer /\ y.attempt = g.attempt /\ y.uncompleted = g.uncompleted
          /\ y.cb = g.cb /\ y.closeTask = g.closeTask
    BY <2>1, <2>5, <2>6, <2>7, SettleStep DEF x
  <2>9. RemoteOK(y) /\ AnswerOK(y, 1, r \in lost', eng.isClosing)
    BY <1>0, <2>1, <2>5, <2>7, <2>8 DEF RemoteOK, AnswerOK, ProtocolClosesLast
  <2>10. RemoteMoves(r, y, 1)
    BY <2>7, <2>8, <2>9 DEF RemoteMoves
  <2> QED
    BY <2>1, <2>8, <2>10, RemoteStep DEF HasChannel, x
<1>13. CASE ten_protocol_integrated_on_retry_timer_closed(r)
  <2> DEFINE g == TimerGone(r)
             c == IF x.cb THEN ConnectError(g) ELSE g
             d == [c EXCEPT !.uncompleted = FALSE]
             o == OnCloseIfClosing(d)
             e == IF x.cb THEN ResultError(eng, r) ELSE eng
             n == IF x.cb THEN 1 ELSE answers[r]
  <2>1. /\ x.timer # "none" /\ x.uncompleted /\ x.timerClose = "closing"
        /\ x.attempt # "first" /\ x.table # "none" /\ (x.attempt = "retry" => x.proto # "open")
        /\ x.remote \in {"open", "closing"} /\ x.proto \in {"open", "closing"}
        /\ x.remote = "closing" => x.proto = "closing"
        /\ x.cb => answers[r] = 0
    BY <1>0, <1>13
    DEF ten_protocol_integrated_on_retry_timer_closed, RemoteOK, AnswerOK, ProtocolClosesLast,
        RemoteState
  <2>2. /\ g \in RemoteState /\ g.remote = x.remote /\ g.proto = x.proto /\ g.table = x.table
        /\ g.stream = x.stream /\ g.timer = "none" /\ g.timerClose = "no"
        /\ g.attempt = x.attempt /\ g.uncompleted /\ g.closeTask = x.closeTask /\ g.cb = x.cb
    BY <1>0, <2>1 DEF TimerGone, RemoteState
  <2> HIDE DEF g
  <2>3. /\ c \in RemoteState /\ c.table = x.table /\ c.timer = "none" /\ c.timerClose = "no"
        /\ c.attempt = x.attempt /\ ~c.cb /\ c.closeTask = x.closeTask
        /\ c.remote \in {"open", "closing"} /\ c.proto \in {"open", "closing"}
        /\ c.remote = "closing" => c.proto = "closing"
        /\ x.proto = "closing" \/ x.cb => c.proto = "closing"
        /\ ~x.cb => c.proto = x.proto
    <3>1. CASE x.cb
      BY <2>1, <2>2, <3>1, ConnectErrorCloses
    <3>2. CASE ~x.cb
      BY <2>1, <2>2, <3>2
    <3> QED
      BY <3>1, <3>2
  <2> HIDE DEF c
  <2>4. /\ d \in RemoteState /\ d.table = x.table /\ d.timer = "none" /\ d.timerClose = "no"
        /\ d.attempt = x.attempt /\ ~d.cb /\ ~d.uncompleted /\ d.closeTask = x.closeTask
        /\ d.remote = c.remote /\ d.proto = c.proto
    BY <2>3 DEF RemoteState
  <2> HIDE DEF d
  <2>5. /\ o \in RemoteState /\ o.table = x.table /\ o.timer = "none" /\ o.timerClose = "no"
        /\ o.attempt = x.attempt /\ ~o.cb /\ ~o.uncompleted /\ o.closeTask = x.closeTask
        /\ \/ /\ o.proto = "closed" /\ o.remote = "closed" /\ o.stream = "none"
              /\ d.proto = "closing"
           \/ o.proto = d.proto /\ o.remote = d.remote
    BY <2>3, <2>4, OnCloseIf DEF Kept
  <2>6. EngineGoesOn(eng, e, st) /\ e \in EngineState /\ e.closed = eng.closed
    BY <1>0
  <2>7. /\ Settle(r, o, e) /\ answers' = [answers EXCEPT ![r] = n]
        /\ UNCHANGED <<lost, longRunning>>
    <3>1. CASE x.cb
      BY <1>0, <1>13, <2>1, <3>1
      DEF ten_protocol_integrated_on_retry_timer_closed, Answered, g, c, d
    <3>2. CASE ~x.cb
      BY <1>0, <1>13, <2>1, <3>2 DEF ten_protocol_integrated_on_retry_timer_closed, g, c, d
    <3> QED
      BY <3>1, <3>2
  <2> HIDE DEF o, e
  <2>8. n \in Nat /\ n <= 1 /\ (answers[r] = 1 => n = 1)
    BY <1>0, <2>1 DEF AnswerOK
  <2> HIDE DEF n, x
  <2>9. PICK y \in RemoteState :
          /\ st' = [st EXCEPT ![r] = y] /\ EngineGoesOn(eng, eng', st')
          /\ y.table = IF o.remote = "closed" THEN "none" ELSE o.table
          /\ y.remote = o.remote /\ y.proto = o.proto /\ y.stream = o.stream
          /\ y.timer = o.timer /\ y.timerClose = o.timerClose
          /\ y.attempt = o.attempt /\ y.uncompleted = o.uncompleted /\ y.cb = o.cb
          /\ y.closeTask = o.closeTask
    BY <2>1, <2>5, <2>6, <2>7, SettleStep DEF x
  <2>10. RemoteOK(y)
    BY <2>1, <2>3, <2>4, <2>5, <2>9 DEF RemoteOK, ProtocolClosesLast
  <2>11. y.table = "strong" /\ y.proto # "open" => r \in lost \/ eng.isClosing
    BY <1>0, <2>1, <2>3, <2>4, <2>5, <2>9 DEF AnswerOK
  <2>12. AnswerOK(y, n, r \in lost', eng.isClosing)
    BY <1>0, <2>1, <2>3, <2>4, <2>5, <2>7, <2>8, <2>9, <2>11 DEF AnswerOK, RemoteOK
  <2>13. RemoteMoves(r, y, n)
    BY <2>7, <2>8, <2>9, <2>10, <2>12 DEF RemoteMoves
  <2>14. ASSUME ~eng.isClosing, HasChannel(r) PROVE n = 1 /\ (y.table = "strong" \/ r \in lost')
    <3>1. answers[r] = 1 /\ ~x.cb
      BY <2>1, <2>14 DEF HasChannel
    <3>2. CASE r \in lost
      BY <2>7, <2>8, <3>1, <3>2
    <3>3. CASE r \notin lost
      BY <1>0, <2>3, <2>4, <2>5, <2>8, <2>9, <2>14, <3>1, <3>3
      DEF HasChannel, AnswerOK, RemoteOK, x
    <3> QED
      BY <3>2, <3>3
  <2> QED
    BY <2>1, <2>9, <2>13, <2>14, RemoteStep DEF x
<1> HIDE DEF x
<1> QED
  BY <1>1, <1>2, <1>3, <1>4, <1>5, <1>6, <1>7, <1>8, <1>9, <1>10, <1>11, <1>12, <1>13 DEF Callback

\* The stream closes, or a posted close of the protocol runs.
LEMMA StreamKeeps ==
  ASSUME IInv, NEW r \in Remotes, StreamMoves(r)
  PROVE  IInv'
<1> DEFINE x == st[r]
<1>0. /\ x \in RemoteState /\ answers[r] \in Nat /\ eng \in EngineState
      /\ RemoteOK(x) /\ AnswerOK(x, answers[r], r \in lost, eng.isClosing)
      /\ answers = [answers EXCEPT ![r] = answers[r]] /\ st = [st EXCEPT ![r] = x]
      /\ \A s : EngineGoesOn(eng, eng, s)
      /\ \/ x.remote \in {"open", "closing", "closed"}
         \/ x.proto = "none" /\ x.table = "none" /\ x.stream = "none" /\ ~x.closeTask
  BY OneRemote
<1>1. CASE ten_protocol_close_task(r)
  <2> DEFINE d == [x EXCEPT !.closeTask = FALSE]
             o == ten_protocol_close(d)
  <2>1. /\ x.closeTask /\ r \in lost /\ x.remote \in {"open", "closing", "closed"}
        /\ Settle(r, o, eng) /\ UNCHANGED <<answers, lost, longRunning>>
    BY <1>0, <1>1 DEF ten_protocol_close_task, AnswerOK
  <2>2. /\ d \in RemoteState /\ d.remote = x.remote /\ d.proto = x.proto /\ d.table = x.table
        /\ d.stream = x.stream /\ d.timer = x.timer /\ d.timerClose = x.timerClose
        /\ d.times = x.times /\ d.attempt = x.attempt /\ d.uncompleted = x.uncompleted
        /\ d.cb = x.cb /\ ~d.closeTask /\ d.sent = x.sent
    BY <1>0 DEF RemoteState
  <2> HIDE DEF d
  <2>3. CASE x.proto # "open"
    <3>1. o = d
      BY <2>2, <2>3 DEF ten_protocol_close
    <3>2. st' = [st EXCEPT ![r] = d] /\ eng' = eng
      <4>1. CASE x.remote = "closed"
        BY <2>1, <2>2, <3>1, <4>1 DEF Settle
      <4>2. CASE x.remote # "closed"
        BY <2>1, <2>2, <3>1, <4>2 DEF Settle
      <4> QED
        BY <4>1, <4>2
    <3> HIDE DEF o, x
    <3>3. RemoteOK(d) /\ AnswerOK(d, answers[r], r \in lost', eng.isClosing)
      BY <1>0, <2>1, <2>2 DEF RemoteOK, AnswerOK, ProtocolClosesLast
    <3>4. RemoteMoves(r, d, answers[r])
      BY <1>0, <2>1, <2>2, <3>2, <3>3 DEF RemoteMoves
    <3> QED
      BY <1>0, <2>1, <2>2, <3>2, <3>4, RemoteStep DEF HasChannel, x
  <2>4. CASE x.proto = "open"
    <3>1. /\ o \in RemoteState /\ o.table = x.table /\ o.timer = x.timer /\ o.times = x.times
          /\ o.attempt = x.attempt /\ o.uncompleted = x.uncompleted /\ o.cb = x.cb
          /\ ~o.closeTask /\ o.sent = x.sent
          /\ o.stream = IF x.stream = "open" THEN "closing" ELSE x.stream
          /\ o.timerClose = IF x.timer # "none" /\ x.timerClose = "no" THEN "posted"
                            ELSE x.timerClose
          /\ IF x.stream = "none" /\ x.timer = "none" /\ ~x.uncompleted
             THEN o.proto = "closed" /\ o.remote = "closed"
             ELSE o.proto = "closing" /\ o.remote = x.remote
      BY <2>2, <2>4, ProtocolClose DEF Kept
    <3>2. x.remote = "open" /\ x.table # "none"
      BY <1>0, <2>4 DEF RemoteOK, RemoteState
    <3> HIDE DEF o, x
    <3>3. PICK y \in RemoteState :
          /\ st' = [st EXCEPT ![r] = y] /\ EngineGoesOn(eng, eng', st')
          /\ y.table = IF o.remote = "closed" THEN "none" ELSE o.table
          /\ y.remote = o.remote /\ y.proto = o.proto /\ y.stream = o.stream
          /\ y.timer = o.timer /\ y.timerClose = o.timerClose /\ y.times = o.times
          /\ y.attempt = o.attempt /\ y.uncompleted = o.uncompleted /\ y.cb = o.cb
          /\ y.closeTask = o.closeTask /\ y.sent = o.sent
      BY <1>0, <2>1, <3>1, <3>2, SettleStep DEF x
    <3>4. RemoteOK(y)
      BY <1>0, <2>4, <3>1, <3>2, <3>3 DEF RemoteOK, ProtocolClosesLast
    <3>5. AnswerOK(y, answers[r], r \in lost', eng.isClosing)
      BY <1>0, <2>1, <2>4, <3>1, <3>2, <3>3 DEF AnswerOK
    <3>6. RemoteMoves(r, y, answers[r])
      BY <1>0, <2>1, <3>3, <3>4, <3>5 DEF RemoteMoves
    <3> QED
      BY <2>1, <3>2, <3>3, <3>6, RemoteStep DEF HasChannel, x
  <2> QED
    BY <2>3, <2>4
<1>2. CASE ten_protocol_integrated_on_stream_closed(r)
  <2> DEFINE d == [x EXCEPT !.stream = "none"]
             o == OnCloseIfClosing(d)
  <2>1. /\ x.stream = "closing" /\ x.remote \in {"open", "closing"} /\ x.table # "none"
        /\ x.attempt # "first"
        /\ Settle(r, o, eng) /\ UNCHANGED <<answers, lost, longRunning>>
    BY <1>0, <1>2
    DEF ten_protocol_integrated_on_stream_closed, RemoteOK, ProtocolClosesLast, RemoteState
  <2>2. /\ d \in RemoteState /\ d.remote = x.remote /\ d.proto = x.proto /\ d.table = x.table
        /\ d.stream = "none" /\ d.timer = x.timer /\ d.timerClose = x.timerClose
        /\ d.times = x.times /\ d.attempt = x.attempt /\ d.uncompleted = x.uncompleted
        /\ d.cb = x.cb /\ d.closeTask = x.closeTask /\ d.sent = x.sent
    BY <1>0 DEF RemoteState
  <2> HIDE DEF d
  <2>3. /\ o \in RemoteState /\ o.table = x.table /\ o.timer = x.timer /\ o.times = x.times
        /\ o.attempt = x.attempt /\ o.uncompleted = x.uncompleted /\ o.cb = x.cb
        /\ o.closeTask = x.closeTask /\ o.sent = x.sent
        /\ o.stream = "none" /\ o.timerClose = x.timerClose
        /\ IF x.proto = "closing" /\ x.timer = "none" /\ ~x.uncompleted
           THEN o.proto = "closed" /\ o.remote = "closed"
           ELSE o.proto = x.proto /\ o.remote = x.remote
    BY <2>2, OnCloseIf DEF Kept
  <2> HIDE DEF o, x
  <2>4. PICK y \in RemoteState :
        /\ st' = [st EXCEPT ![r] = y] /\ EngineGoesOn(eng, eng', st')
        /\ y.table = IF o.remote = "closed" THEN "none" ELSE o.table
        /\ y.remote = o.remote /\ y.proto = o.proto /\ y.stream = o.stream
        /\ y.timer = o.timer /\ y.timerClose = o.timerClose /\ y.times = o.times
        /\ y.attempt = o.attempt /\ y.uncompleted = o.uncompleted /\ y.cb = o.cb
        /\ y.closeTask = o.closeTask /\ y.sent = o.sent
    BY <1>0, <2>1, <2>3, SettleStep DEF x
  <2>5. RemoteOK(y)
    BY <1>0, <2>1, <2>3, <2>4 DEF RemoteOK, ProtocolClosesLast
  <2>6. AnswerOK(y, answers[r], r \in lost', eng.isClosing)
    BY <1>0, <2>1, <2>3, <2>4 DEF AnswerOK, RemoteOK
  <2>7. RemoteMoves(r, y, answers[r])
    BY <1>0, <2>1, <2>4, <2>5, <2>6 DEF RemoteMoves
  <2>8. ~eng.isClosing /\ HasChannel(r) => answers[r] = 1 /\ (y.table = "strong" \/ r \in lost')
    BY <1>0, <2>1, <2>3, <2>4 DEF HasChannel, AnswerOK, x
  <2> QED
    BY <2>1, <2>4, <2>7, <2>8, RemoteStep DEF x
<1> QED
  BY <1>1, <1>2 DEF StreamMoves

\* The peer answers or leaves.
LEMMA PeerKeeps ==
  ASSUME IInv, NEW r \in Remotes, PeerMoves(r)
  PROVE  IInv'
<1> DEFINE x == st[r]
<1>0. /\ x \in RemoteState /\ answers[r] \in Nat /\ eng \in EngineState
      /\ RemoteOK(x) /\ AnswerOK(x, answers[r], r \in lost, eng.isClosing)
      /\ answers = [answers EXCEPT ![r] = answers[r]] /\ st = [st EXCEPT ![r] = x]
      /\ \A s : EngineGoesOn(eng, eng, s)
  BY OneRemote
<1>1. CASE PeerAnswersOk(r)
  <2> DEFINE y == [x EXCEPT !.table = "strong"]
             left == eng.waiting \ {r}
  <2>1. /\ x.proto = "open" /\ x.sent /\ answers[r] = 0 /\ r \notin lost
        /\ x.remote = "open" /\ x.table # "none"
        /\ st' = [st EXCEPT ![r] = y] /\ eng' = ResultOk(eng, r)
        /\ answers' = [answers EXCEPT ![r] = 1] /\ UNCHANGED <<lost, longRunning>>
    BY <1>0, <1>1 DEF PeerAnswersOk, Talks, Answered, RemoteOK, RemoteState
  <2>2. /\ y \in RemoteState /\ y.remote = x.remote /\ y.proto = x.proto /\ y.table = "strong"
        /\ y.stream = x.stream /\ y.timer = x.timer /\ y.timerClose = x.timerClose
        /\ y.times = x.times /\ y.attempt = x.attempt /\ y.uncompleted = x.uncompleted
        /\ y.cb = x.cb /\ y.closeTask = x.closeTask /\ y.sent = x.sent
    BY <1>0 DEF RemoteState
  <2> HIDE DEF y, x
  <2>3. RemoteOK(y)
    BY <1>0, <2>1, <2>2 DEF RemoteOK, ProtocolClosesLast
  <2>4. AnswerOK(y, 1, r \in lost', eng.isClosing)
    BY <1>0, <2>1, <2>2 DEF AnswerOK, RemoteOK
  <2>5. RemoteMoves(r, y, 1)
    BY <1>0, <2>1, <2>2, <2>3, <2>4 DEF RemoteMoves
  <2>6. CASE r \notin eng.waiting
    <3>1. eng' = eng
      BY <2>1, <2>6 DEF ResultOk
    <3> QED
      BY <1>0, <2>1, <2>2, <2>5, <3>1, RemoteStep DEF x
  <2>7. CASE r \in eng.waiting /\ left = {} /\ eng.isClosing
    <3>1. eng' = [eng EXCEPT !.waiting = {}, !.original = "error", !.closePosted = TRUE]
      BY <2>1, <2>7 DEF ResultOk
    <3>2. EngineGoesOn(eng, eng', st')
      BY <1>0, <3>1 DEF EngineGoesOn, EngineState
    <3> QED
      BY <1>0, <2>1, <2>2, <2>5, <3>2, RemoteStep DEF x
  <2>8. ASSUME r \in eng.waiting, eng' \in EngineState, eng'.isClosing = eng.isClosing,
               eng'.closed = eng.closed, eng'.waiting = left,
               \/ eng'.context = eng.context /\ eng'.original = eng.original
               \/ /\ ~eng.isClosing /\ left = {}
                  /\ eng'.context = "open" /\ eng'.original = "ok"
        PROVE  IInv'
    <3> HIDE DEF left
    <3>0. \A q : q \in left <=> q \in eng.waiting /\ q # r
      BY DEF left
    <3>1. /\ st' \in [Remotes -> RemoteState] /\ st'[r] = y
          /\ \A q \in Remotes : q # r => st'[q] = st[q]
          /\ answers' \in [Remotes -> Nat] /\ answers'[r] = 1
          /\ \A q \in Remotes : q # r => answers'[q] = answers[q]
      BY <2>1, <2>2 DEF IInv, TypeOK
    <3>2. TypeOK'
      BY <2>1, <2>8, <3>1 DEF IInv, TypeOK
    <3>3. RemotesOK'
      <4> SUFFICES ASSUME NEW q \in Remotes
                   PROVE  /\ RemoteOK(st'[q])
                          /\ AnswerOK(st'[q], answers'[q], q \in lost', eng'.isClosing)
        BY DEF RemotesOK
      <4>1. CASE q = r
        BY <2>3, <2>4, <2>8, <3>1, <4>1 DEF AnswerOK
      <4>2. CASE q # r
        BY <2>1, <2>8, <3>1, <4>2 DEF IInv, RemotesOK, AnswerOK
      <4> QED
        BY <4>1, <4>2
    <3>4. /\ HasChannel(r)'
          /\ \A q \in Remotes : HasChannel(q) => HasChannel(q)'
      BY <2>1, <2>2, <3>1 DEF HasChannel
    <3>5. eng.original = "waiting"
      BY <2>8 DEF IInv, EngineOK
    <3>6. ~eng.isClosing => \A q \in Remotes : q \notin left => HasChannel(q)'
      BY <3>0, <3>4, <3>5 DEF IInv, EngineOK
    <3>7. EngineOK'
      <4>1. eng'.original # "none" /\ (eng'.waiting # {} => eng'.original = "waiting")
        BY <2>8, <3>5
      <4>2. /\ eng'.context = "open" => ~eng'.isClosing
            /\ eng'.context = "closing" => eng'.isClosing
        BY <2>8 DEF IInv, EngineOK
      <4>3. ~eng.closed /\ ~eng'.closed
        <5>1. ~eng.closed
          BY <2>1 DEF IInv, EngineOK, x
        <5> QED
          BY <2>8, <5>1
      <4>4. eng'.original = "waiting" /\ ~eng'.isClosing =>
              \A q \in Remotes \ eng'.waiting : HasChannel(q)'
        BY <2>8, <3>6
      <4> QED
        BY <4>1, <4>2, <4>3, <4>4 DEF EngineOK
    <3>8. ContextNeedsChannels'
      <4>1. CASE eng'.context = eng.context
        BY <3>4, <4>1 DEF IInv, ContextNeedsChannels, HasChannel
      <4>2. CASE eng'.context # eng.context
        <5>1. \A q \in Remotes : HasChannel(q)'
          BY <2>8, <3>6, <4>2
        <5> QED
          BY <5>1 DEF ContextNeedsChannels, HasChannel
      <4> QED
        BY <4>1, <4>2
    <3> QED
      BY <3>2, <3>3, <3>7, <3>8 DEF IInv
  <2>9. CASE r \in eng.waiting /\ left # {}
    <3>1. eng' = [eng EXCEPT !.waiting = left]
      BY <2>1, <2>9 DEF ResultOk
    <3>2. left \in SUBSET Remotes
      BY <1>0 DEF EngineState
    <3> HIDE DEF left
    <3> QED
      BY <1>0, <2>8, <2>9, <3>1, <3>2 DEF EngineState
  <2>10. CASE r \in eng.waiting /\ left = {} /\ ~eng.isClosing
    <3>1. eng' = [eng EXCEPT !.waiting = {}, !.original = "ok", !.context = "open"]
      BY <2>1, <2>10 DEF ResultOk
    <3> HIDE DEF left
    <3> QED
      BY <1>0, <2>8, <2>10, <3>1 DEF EngineState
  <2> QED
    BY <2>6, <2>7, <2>9, <2>10
<1>2. CASE PeerAnswersError(r)
  <2>1. /\ x.proto = "open" /\ x.sent /\ answers[r] = 0 /\ ~x.cb
        /\ x.remote = "open" /\ x.table # "none" /\ eng' = ResultError(eng, r)
        /\ answers' = [answers EXCEPT ![r] = 1] /\ UNCHANGED <<st, lost, longRunning>>
    BY <1>0, <1>2 DEF PeerAnswersError, Talks, Answered, RemoteOK, RemoteState
  <2> HIDE DEF x
  <2>2. AnswerOK(x, 1, r \in lost', eng.isClosing)
    BY <1>0, <2>1 DEF AnswerOK
  <2>3. RemoteMoves(r, x, 1)
    BY <1>0, <2>1, <2>2 DEF RemoteMoves
  <2>4. EngineGoesOn(eng, eng', st')
    BY <1>0, <2>1, ErrorGoesOn DEF EngineGoesOn
  <2> QED
    BY <2>1, <2>3, <2>4, RemoteStep DEF HasChannel, x
<1>3. CASE PeerDrops(r)
  <2> DEFINE y == [x EXCEPT !.closeTask = TRUE]
  <2>1. /\ x.proto = "open" /\ x.remote = "open" /\ x.table # "none"
        /\ st' = [st EXCEPT ![r] = y] /\ lost' = lost \cup {r}
        /\ UNCHANGED <<answers, eng, longRunning>>
    BY <1>0, <1>3 DEF PeerDrops, Talks, RemoteOK, RemoteState
  <2>2. /\ y \in RemoteState /\ y.remote = x.remote /\ y.proto = x.proto /\ y.table = x.table
        /\ y.stream = x.stream /\ y.timer = x.timer /\ y.timerClose = x.timerClose
        /\ y.times = x.times /\ y.attempt = x.attempt /\ y.uncompleted = x.uncompleted
        /\ y.cb = x.cb /\ y.sent = x.sent
    BY <1>0 DEF RemoteState
  <2> HIDE DEF y, x
  <2>3. RemoteOK(y)
    BY <1>0, <2>1, <2>2 DEF RemoteOK, ProtocolClosesLast
  <2>4. AnswerOK(y, answers[r], r \in lost', eng.isClosing)
    BY <1>0, <2>1, <2>2 DEF AnswerOK
  <2>5. RemoteMoves(r, y, answers[r])
    BY <1>0, <2>1, <2>2, <2>3, <2>4 DEF RemoteMoves
  <2> QED
    BY <1>0, <2>1, <2>2, <2>5, RemoteStep DEF HasChannel, x
<1> HIDE DEF x
<1> QED
  BY <1>1, <1>2, <1>3 DEF PeerMoves

\* A step of the engine alone that does not start anything keeps the
\* invariant.
LEMMA EngineStep ==
  ASSUME IInv, UNCHANGED <<st, answers, lost, longRunning>>, eng' \in EngineState,
         eng'.isClosing = eng.isClosing, eng'.waiting = eng.waiting,
         eng'.original = eng.original, eng'.context \in {eng.context, "none"},
         eng'.closed => \/ eng.closed
                        \/ /\ eng'.isClosing /\ eng'.context = "none"
                           /\ \A q \in Remotes : st[q].table = "none"
  PROVE  IInv'
<1>1. TypeOK'
  BY DEF IInv, TypeOK
<1>2. RemotesOK'
  BY DEF IInv, RemotesOK, AnswerOK
<1>3. EngineOK'
  BY DEF IInv, EngineOK, HasChannel
<1>4. ContextNeedsChannels'
  BY DEF IInv, ContextNeedsChannels
<1> QED
  BY <1>1, <1>2, <1>3, <1>4 DEF IInv

\* The engine tells every remote to close.
LEMMA CloseSyncKeeps ==
  ASSUME IInv, ten_engine_close_sync
  PROVE  IInv'
<1> DEFINE listed == {r \in Remotes : st[r].table # "none"}
           told == [r \in Remotes |-> IF r \in listed THEN ten_remote_close(st[r]) ELSE st[r]]
           s == [r \in Remotes |-> IF told[r].remote = "closed"
                                   THEN [told[r] EXCEPT !.table = "none"] ELSE told[r]]
           e == [eng EXCEPT !.isClosing = TRUE, !.closePosted = FALSE,
                            !.context = IF @ = "open" THEN "closing" ELSE @]
<1>1. /\ st' = s /\ eng' \in {e, ten_engine_on_close(e, s)}
      /\ ~eng.isClosing /\ UNCHANGED <<answers, lost, longRunning>>
  BY DEF ten_engine_close_sync
<1>2. /\ e \in EngineState /\ e.isClosing /\ e.waiting = eng.waiting
      /\ e.original = eng.original /\ e.closed = eng.closed
      /\ e.context = IF eng.context = "open" THEN "closing" ELSE eng.context
  BY DEF IInv, TypeOK, EngineState
<1> HIDE DEF e
<1>3. ASSUME NEW r \in Remotes
      PROVE  /\ s[r] \in RemoteState /\ RemoteOK(s[r])
             /\ AnswerOK(s[r], answers[r], r \in lost, TRUE)
             /\ st[r].remote = "none" => s[r].remote = "none"
  <2> DEFINE x == st[r]
             c == ten_remote_close(x)
  <2>0. /\ x \in RemoteState /\ RemoteOK(x) /\ answers[r] \in Nat
        /\ AnswerOK(x, answers[r], r \in lost, eng.isClosing)
    BY OneRemote
  <2>1. CASE r \in listed
    <3>1. /\ x.remote \in {"open", "closing"} /\ x.proto \in {"open", "closing"}
          /\ x.remote = "closing" => x.proto = "closing"
          /\ x.table # "none"
      BY <2>0, <2>1 DEF RemoteOK
    <3>2. /\ c \in RemoteState /\ Kept(x, c)
          /\ c.remote \in {"closing", "closed"} /\ c.proto = c.remote
          /\ x.proto = "closing" =>
               c.remote = "closing" /\ c.stream = x.stream /\ c.timerClose = x.timerClose
          /\ x.proto = "open" =>
               /\ c.stream = IF x.stream = "open" THEN "closing" ELSE x.stream
               /\ c.timerClose = IF x.timer # "none" /\ x.timerClose = "no" THEN "posted"
                                 ELSE x.timerClose
               /\ c.remote = "closed" <=>
                    x.stream = "none" /\ x.timer = "none" /\ ~x.uncompleted
      BY <2>0, <3>1, RemoteClose
    <3>3. s[r] = IF c.remote = "closed" THEN [c EXCEPT !.table = "none"] ELSE c
      BY <2>1
    <3> HIDE DEF s, c, x
    <3>4. /\ s[r] \in RemoteState /\ s[r].table = IF c.remote = "closed" THEN "none" ELSE x.table
          /\ s[r].remote = c.remote /\ s[r].proto = c.proto /\ s[r].stream = c.stream
          /\ s[r].timer = x.timer /\ s[r].timerClose = c.timerClose /\ s[r].times = x.times
          /\ s[r].attempt = x.attempt /\ s[r].uncompleted = x.uncompleted /\ s[r].cb = x.cb
          /\ s[r].closeTask = x.closeTask /\ s[r].sent = x.sent
      BY <3>2, <3>3 DEF Kept, RemoteState
    <3>5. RemoteOK(s[r])
      BY <2>0, <3>1, <3>2, <3>4 DEF RemoteOK, ProtocolClosesLast
    <3>6. AnswerOK(s[r], answers[r], r \in lost, TRUE)
      BY <2>0, <3>1, <3>2, <3>4 DEF AnswerOK
    <3> QED
      BY <3>1, <3>4, <3>5, <3>6 DEF x
  <2>2. CASE r \notin listed
    <3>1. x.table = "none"
      BY <2>2
    <3>2. s[r] = x
      <4>1. s[r] = IF x.remote = "closed" THEN [x EXCEPT !.table = "none"] ELSE x
        BY <2>2
      <4> QED
        BY <2>0, <3>1, <4>1 DEF RemoteState
    <3> QED
      BY <2>0, <3>1, <3>2 DEF AnswerOK
  <2> QED
    BY <2>1, <2>2
<1>4. s = [r \in Remotes |-> s[r]]
  OBVIOUS
<1> HIDE DEF s, listed
<1>5. /\ eng' \in EngineState /\ eng'.isClosing /\ eng'.waiting = eng.waiting
      /\ eng'.original = eng.original /\ eng'.context = e.context
      /\ eng'.closed =>
           eng.closed \/ (e.context = "none" /\ \A q \in Remotes : s[q].table = "none")
  BY <1>1, <1>2, EngineCloseNeedsAll
<1>6. TypeOK'
  BY <1>1, <1>3, <1>4, <1>5 DEF IInv, TypeOK
<1>7. RemotesOK'
  <2> SUFFICES ASSUME NEW r \in Remotes
               PROVE  /\ RemoteOK(st'[r])
                      /\ AnswerOK(st'[r], answers'[r], r \in lost', eng'.isClosing)
    BY DEF RemotesOK
  <2> QED
    BY <1>1, <1>3, <1>5 DEF AnswerOK
<1>8. EngineOK'
  <2>1. eng'.original = "none" => \A r \in Remotes : st'[r].remote = "none" /\ answers'[r] = 0
    BY <1>1, <1>3, <1>5 DEF IInv, EngineOK
  <2>2. eng'.waiting # {} => eng'.original = "waiting"
    BY <1>5 DEF IInv, EngineOK
  <2>3. eng'.context # "open" /\ ~eng.closed
    BY <1>1, <1>2, <1>5 DEF IInv, EngineOK
  <2> QED
    BY <1>1, <1>5, <2>1, <2>2, <2>3 DEF EngineOK
<1>9. ContextNeedsChannels'
  BY <1>2, <1>5 DEF ContextNeedsChannels
<1> QED
  BY <1>6, <1>7, <1>8, <1>9 DEF IInv

\* Every step keeps the invariant.
LEMMA NextIInv == IInv /\ [Next]_vars => IInv'
<1> SUFFICES ASSUME IInv, [Next]_vars PROVE IInv'
  OBVIOUS
<1>0. eng \in EngineState
  BY DEF IInv, TypeOK
<1>1. CASE ten_engine_handle_cmd_start_graph
  <2> DEFINE c == [NoRemote EXCEPT !.remote = "creating"]
  <2>1. /\ eng.original = "none" /\ ~eng.isClosing /\ st' = [r \in Remotes |-> c]
        /\ eng' = [eng EXCEPT !.original = "waiting", !.waiting = Remotes, !.uncompleted = TRUE]
        /\ UNCHANGED <<answers, lost, longRunning>>
    BY <1>1 DEF ten_engine_handle_cmd_start_graph
  <2>2. /\ c \in RemoteState /\ c.remote = "creating" /\ c.proto = "none" /\ c.table = "none"
        /\ c.stream = "none" /\ c.timer = "none" /\ c.timerClose = "no" /\ c.attempt = "none"
        /\ ~c.uncompleted /\ ~c.cb /\ ~c.closeTask /\ ~c.sent
    BY NoRemoteFields DEF RemoteState
  <2>3. c = [NoRemote EXCEPT !.remote = c.remote]
    BY <2>2
  <2> HIDE DEF c
  <2>4. RemoteOK(c)
    BY <2>2, <2>3 DEF RemoteOK, ProtocolClosesLast
  <2>5. \A r \in Remotes : answers[r] = 0
    BY <2>1 DEF IInv, EngineOK
  <2>6. /\ eng' \in EngineState /\ ~eng'.isClosing /\ eng'.waiting = Remotes
        /\ eng'.original = "waiting" /\ eng'.context = eng.context /\ eng'.closed = eng.closed
    BY <1>0, <2>1 DEF EngineState
  <2>7. TypeOK'
    BY <2>1, <2>2, <2>6 DEF IInv, TypeOK
  <2>8. RemotesOK'
    <3> SUFFICES ASSUME NEW r \in Remotes
                 PROVE  /\ RemoteOK(st'[r])
                        /\ AnswerOK(st'[r], answers'[r], r \in lost', eng'.isClosing)
      BY DEF RemotesOK
    <3>1. st'[r] = c /\ answers'[r] = 0
      BY <2>1, <2>5
    <3> QED
      BY <2>2, <2>4, <3>1 DEF AnswerOK
  <2>9. EngineOK'
    BY <2>1, <2>6 DEF IInv, EngineOK
  <2>10. ContextNeedsChannels'
    <3>1. eng.context = "open" => \A r \in Remotes : answers[r] = 1
      BY DEF IInv, ContextNeedsChannels
    <3> QED
      BY <2>5, <2>6, <3>1 DEF ContextNeedsChannels
  <2> QED
    BY <2>7, <2>8, <2>9, <2>10 DEF IInv
<1>2. ASSUME NEW r \in Remotes, Callback(r) \/ PeerMoves(r) \/ StreamMoves(r) PROVE IInv'
  BY <1>2, CallbackKeeps, PeerKeeps, StreamKeeps
<1>3. CASE ten_engine_close_async
  BY <1>0, <1>3, EngineStep DEF ten_engine_close_async, EngineState
<1>4. CASE ten_engine_close_task_again
  BY <1>0, <1>4, EngineStep DEF ten_engine_close_task_again, EngineState
<1>5. CASE ten_engine_close_sync
  BY <1>5, CloseSyncKeeps
<1>6. CASE ten_engine_on_extension_context_closed
  <2> DEFINE e == [eng EXCEPT !.context = "none"]
  <2>1. /\ eng.context = "closing" /\ eng' = ten_engine_on_close(e, st)
        /\ UNCHANGED <<st, answers, lost, longRunning>>
    BY <1>6 DEF ten_engine_on_extension_context_closed
  <2>2. /\ e \in EngineState /\ e.isClosing = eng.isClosing /\ e.waiting = eng.waiting
        /\ e.original = eng.original /\ e.context = "none" /\ e.closed = eng.closed
    BY <1>0 DEF EngineState
  <2>3. eng.isClosing
    BY <2>1 DEF IInv, EngineOK
  <2> HIDE DEF e
  <2> QED
    BY <2>1, <2>2, <2>3, EngineCloseNeedsAll, EngineStep
<1>7. CASE UNCHANGED vars
  BY <1>0, <1>7, EngineStep DEF vars
<1> QED
  BY <1>1, <1>2, <1>3, <1>4, <1>5, <1>6, <1>7 DEF Next, EngineMoves

\* The inductive invariant holds in every state.
THEOREM Invariance == Spec => []IInv
  BY InitIInv, NextIInv, PTL DEF Spec

-----------------------------------------------------------------------------
(* The properties.                                                         *)

\* A protocol outlives its stream, its retry timer and its first connect
\* attempt, and the engine outlives its remotes and its extension context.
THEOREM BottomUp == Spec => []ClosesBottomUp
<1>1. ASSUME IInv PROVE ClosesBottomUp
  <2>1. \A r \in Remotes : ProtocolClosesLast(st[r])
    BY <1>1 DEF IInv, RemotesOK, RemoteOK
  <2>2. \A r \in Remotes : st[r].table = "none" => st[r].remote \notin {"open", "closing"}
    BY <1>1 DEF IInv, RemotesOK, RemoteOK
  <2> QED
    BY <1>1, <2>1, <2>2 DEF IInv, EngineOK, ClosesBottomUp
<1> QED
  BY <1>1, Invariance, PTL

\* The extension system starts only when every remote has its channel.
THEOREM ChannelsFirst == Spec => []ContextNeedsChannels
<1>1. ASSUME IInv PROVE ContextNeedsChannels
  BY <1>1 DEF IInv
<1> QED
  BY <1>1, Invariance, PTL

\* However the failure of a connect, a retry, the end of the timer, an answer
\* of the peer and the close of the engine meet, the start_graph of a remote is
\* answered at most once: the safety half of RemoteAnswered.
THEOREM AnsweredAtMostOnce == Spec => [](\A r \in Remotes : answers[r] <= 1)
<1>1. ASSUME IInv PROVE \A r \in Remotes : answers[r] <= 1
  BY <1>1 DEF IInv, RemotesOK, AnswerOK
<1> QED
  BY <1>1, Invariance, PTL
=============================================================================
