------------------------ MODULE GraphLifeCycleProofs ------------------------
(***************************************************************************)
(* Theorems about starting and closing a graph, for any number of          *)
(* extension threads, of extensions in them and of requests to close.      *)
(***************************************************************************)
EXTENDS GraphLifeCycle, FiniteSetTheorems, QueueLemmas

-----------------------------------------------------------------------------
(* The inductive invariant.                                                *)

FindInfo(t) == <<"find_info", t>>
Remove(t) == <<"remove", t>>
Closed(t) == <<"closed", t>>

\* The addon manager still owes an extension to the group.
Creating(t) == \E x \in Names : life[<<t, x>>] = "creating"

\* The thread is on its way out: the tasks that lead to its end are the only
\* ones that concern it.
Leaving(t) ==
  \/ Has(thread_q[t], "group_deinit_done") \/ Has(engine_q, Remove(t))
  \/ Has(thread_q[t], "removed") \/ Ended(t)

\* A task of the start flow is there once, and only in the state it was
\* posted in; the thread is told to close once, after its first task.
StartOK(t) ==
  /\ Has(thread_q[t], "start_msg") =>
       state[t] = "INIT" /\ ~close_triggered[t] /\ ~Has(thread_q[t], "group_init_done")
  /\ Has(thread_q[t], "group_init_done") => state[t] = "INIT"
  /\ Has(engine_q, FindInfo(t)) => state[t] = "CREATING" /\ ~Creating(t)
  /\ Has(thread_q[t], "start") \/ Has(thread_q[t], "stop") =>
       state[t] = "CREATING" /\ ~Creating(t) /\ ~Has(engine_q, FindInfo(t))
  /\ ~(Has(thread_q[t], "start") /\ Has(thread_q[t], "stop"))
  /\ Has(thread_q[t], "stop") => close_triggered[t]
  /\ Has(thread_q[t], "close") => is_closing /\ ~close_triggered[t]
  /\ \A task \in {"start_msg", "group_init_done", "start", "stop", "close"} :
       Once(thread_q[t], task)
  /\ Once(engine_q, FindInfo(t))
  /\ Before(thread_q[t], "start_msg", "close")
  /\ Before(thread_q[t], "group_init_done", "group_deinit_done")

\* The tasks of the close flow follow each other, each once, in a thread that
\* has been told to close and has no extension left.
CloseOK(t) ==
  /\ close_triggered[t] => is_closing
  /\ state[t] = "NORMAL" => ~close_triggered[t]
  /\ state[t] = "PREPARE_TO_CLOSE" => close_triggered[t]
  /\ Has(thread_q[t], "all_deleted") =>
       /\ state[t] = "PREPARE_TO_CLOSE" /\ extensions[t] # {}
       /\ \A x \in Names : x \in extensions[t] => life[<<t, x>>] = "destroyed"
  /\ Leaving(t) =>
       close_triggered[t] /\ state[t] \notin {"CREATING", "NORMAL"} /\ extensions[t] = {}
  /\ Has(thread_q[t], "group_deinit_done") =>
       ~Has(engine_q, Remove(t)) /\ ~Has(thread_q[t], "removed") /\ ~Ended(t)
  /\ Has(engine_q, Remove(t)) =>
       ~Has(thread_q[t], "group_init_done") /\ ~Has(thread_q[t], "removed") /\ ~Ended(t)
  /\ Has(thread_q[t], "removed") => ~Has(thread_q[t], "group_init_done") /\ ~Ended(t)
  /\ Ended(t) => thread_q[t] = << >>
  /\ Has(engine_q, Closed(t)) => state[t] = "CLOSED"
  /\ \A task \in {"all_deleted", "group_deinit_done", "removed"} : Once(thread_q[t], task)
  /\ Once(engine_q, Remove(t)) /\ Once(engine_q, Closed(t))
  /\ t \notin extension_threads <=> Has(thread_q[t], "removed") \/ Ended(t)

\* What the extensions of a thread can be doing in each state of the thread.
LivesOK(t) ==
  /\ state[t] = "INIT" => extensions[t] = {} /\ \A x \in Names : life[<<t, x>>] = "absent"
  /\ state[t] = "CREATING" =>
       \A x \in Names : life[<<t, x>>] \in {"absent", "creating", "init", "failed"}
  /\ Creating(t) => extensions[t] = {} /\ state[t] = "CREATING"
  /\ \A x \in Names :
       LET l == life[<<t, x>>] IN
       /\ l \in {"creating", "init"} => x \in wanted[t]
       /\ x \in extensions[t] => l \notin {"absent", "creating", "failed"}
       /\ x \notin extensions[t] =>
            \/ l \in {"absent", "failed", "destroyed"}
            \/ Creating(t) /\ l \in {"creating", "init"}
       /\ l \in {"on_xxx", "xxx_done"} => state[t] \in {"NORMAL", "PREPARE_TO_CLOSE"}
       /\ l \in {"stopping", "deinit_done", "deleted", "destroyed"} =>
            state[t] \in {"PREPARE_TO_CLOSE", "CLOSED", "DESTROYED"}

ThreadOK(t) == StartOK(t) /\ CloseOK(t) /\ LivesOK(t)

\* The counters of the engine and of the threads are the sizes of sets: the
\* threads that the engine may still have to look up are not counted as
\* ready, and start_graph is answered when the count meets the list.
Gone(t) == {x \in Names : life[<<t, x>>] \in {"deleted", "destroyed"}}
Destroyed == {t \in Threads : state[t] = "DESTROYED"}
NotReady == {t \in Threads : state[t] = "INIT" \/ Creating(t) \/ Has(engine_q, FindInfo(t))}

Counts ==
  /\ \A t \in Threads : cnt_of_deleted[t] = Cardinality(Gone(t))
  /\ cnt_of_closed = Cardinality(Destroyed)
  /\ total_cnt = IF is_closing THEN Cardinality(Threads) ELSE 0
  /\ engine_closed => is_closing /\ Destroyed = Threads
  /\ cnt_of_ready + Cardinality(NotReady) <= Cardinality(Threads)
  /\ start_results # << >> => cnt_of_ready >= Cardinality(extension_threads)
  /\ Len(start_results) <= 1

\* The type invariant without the bounds of the counters, which follow from
\* the sizes of the sets.
Types ==
  /\ engine_q \in Seq(EngineTasks)
  /\ thread_q \in [Threads -> Seq(ThreadTasks)]
  /\ wanted \in [Threads -> SUBSET Names]
  /\ is_closing \in BOOLEAN /\ engine_closed \in BOOLEAN
  /\ close_requests \in 0 .. MaxCloseRequests
  /\ extension_threads \subseteq Threads
  /\ cnt_of_ready \in Nat /\ cnt_of_closed \in Nat /\ total_cnt \in Nat
  /\ start_results \in Seq({"ok", "error"})
  /\ state \in [Threads -> States]
  /\ close_triggered \in [Threads -> BOOLEAN]
  /\ err_before_ready \subseteq Threads
  /\ extensions \in [Threads -> SUBSET Names]
  /\ cnt_of_deleted \in [Threads -> Nat]
  /\ life \in [Exts -> Lives]

IInv == Types /\ (\A t \in Threads : ThreadOK(t)) /\ Counts

-----------------------------------------------------------------------------
(* The steps, in the terms of the invariant.                               *)

\* The kinds of the engine's tasks differ.
LEMMA EngineTaskKinds ==
  /\ <<"close">> \in EngineTasks
  /\ \A t \in Threads :
       /\ FindInfo(t) \in EngineTasks /\ Remove(t) \in EngineTasks /\ Closed(t) \in EngineTasks
       /\ FindInfo(t) # <<"close">> /\ Remove(t) # <<"close">> /\ Closed(t) # <<"close">>
  /\ \A t, u \in Threads :
       /\ FindInfo(t) # Remove(u) /\ FindInfo(t) # Closed(u) /\ Remove(t) # Closed(u)
       /\ FindInfo(t) = FindInfo(u) => t = u
       /\ Remove(t) = Remove(u) => t = u
       /\ Closed(t) = Closed(u) => t = u
<1>1. \A t \in Threads :
        FindInfo(t) \in EngineTasks /\ Remove(t) \in EngineTasks /\ Closed(t) \in EngineTasks
  BY DEF EngineTasks, FindInfo, Remove, Closed
<1>2. \A t \in Threads :
        FindInfo(t) # <<"close">> /\ Remove(t) # <<"close">> /\ Closed(t) # <<"close">>
  BY DEF FindInfo, Remove, Closed
<1>3. \A t, u \in Threads :
        /\ FindInfo(t) # Remove(u) /\ FindInfo(t) # Closed(u) /\ Remove(t) # Closed(u)
        /\ FindInfo(t) = FindInfo(u) => t = u
        /\ Remove(t) = Remove(u) => t = u
        /\ Closed(t) = Closed(u) => t = u
  BY DEF FindInfo, Remove, Closed
<1> QED
  BY <1>1, <1>2, <1>3 DEF EngineTasks

\* A step leaves thread u, its extensions and its tasks alone.
Same(u) ==
  /\ thread_q'[u] = thread_q[u] /\ state'[u] = state[u]
  /\ close_triggered'[u] = close_triggered[u] /\ extensions'[u] = extensions[u]
  /\ wanted' = wanted /\ is_closing' = is_closing
  /\ u \in extension_threads' <=> u \in extension_threads
  /\ \A x \in Names : life'[<<u, x>>] = life[<<u, x>>]
  /\ \A task \in {FindInfo(u), Remove(u), Closed(u)} :
       (Has(engine_q', task) <=> Has(engine_q, task)) /\ (Once(engine_q, task) => Once(engine_q', task))

\* What a step leaves alone stays as it was.
LEMMA OtherThread ==
  ASSUME NEW u \in Threads, ThreadOK(u), Same(u)
  PROVE  /\ ThreadOK(u)' /\ Gone(u)' = Gone(u)
         /\ u \in NotReady' <=> u \in NotReady
         /\ u \in Destroyed' <=> u \in Destroyed
<1> USE DEF Same
<1>1. Creating(u)' <=> Creating(u)
  BY DEF Creating
<1>2. Leaving(u)' <=> Leaving(u)
  BY DEF Leaving, Ended
<1>3. StartOK(u)'
  BY <1>1 DEF ThreadOK, StartOK
<1>4. CloseOK(u)'
  BY <1>2 DEF ThreadOK, CloseOK, Ended
<1>5. LivesOK(u)'
  BY <1>1 DEF ThreadOK, LivesOK
<1>6. Gone(u)' = Gone(u)
  BY DEF Gone
<1>7. u \in NotReady' <=> u \in NotReady
  BY <1>1 DEF NotReady
<1>8. u \in Destroyed' <=> u \in Destroyed
  BY DEF Destroyed
<1> QED
  BY <1>3, <1>4, <1>5, <1>6, <1>7, <1>8 DEF ThreadOK

\* The counters stay true when the sets they count stay.
LEMMA CountsStay ==
  ASSUME Types, Types', Counts, NotReady' \subseteq NotReady, Destroyed' = Destroyed,
         \A u \in Threads : cnt_of_deleted'[u] = Cardinality(Gone(u)'),
         UNCHANGED <<cnt_of_ready, cnt_of_closed, total_cnt, engine_closed, start_results,
                     is_closing>>,
         extension_threads' \subseteq extension_threads
  PROVE  Counts'
<1> USE GraphAssumption
<1>1. /\ IsFiniteSet(NotReady) /\ IsFiniteSet(extension_threads)
      /\ Cardinality(Threads) \in Nat
  BY FS_Subset, FS_CardinalityType DEF NotReady, Types
<1>2. /\ Cardinality(NotReady) \in Nat /\ Cardinality(NotReady') \in Nat
      /\ Cardinality(NotReady') <= Cardinality(NotReady)
  BY <1>1, FS_Subset, FS_CardinalityType
<1>3. /\ Cardinality(extension_threads) \in Nat /\ Cardinality(extension_threads') \in Nat
      /\ Cardinality(extension_threads') <= Cardinality(extension_threads)
  BY <1>1, FS_Subset, FS_CardinalityType
<1>4. cnt_of_ready' + Cardinality(NotReady') <= Cardinality(Threads)
  BY <1>1, <1>2 DEF Counts, Types
<1>5. start_results' # << >> => cnt_of_ready' >= Cardinality(extension_threads')
  BY <1>3 DEF Counts, Types
<1> QED
  BY <1>4, <1>5 DEF Counts

\* A step of one thread that may count one of its extensions.
LEMMA ThreadStepCounts ==
  ASSUME IInv, Types', NEW t \in Threads, ThreadOK(t)', \A u \in Threads \ {t} : Same(u),
         cnt_of_deleted'[t] = Cardinality(Gone(t)'),
         \A u \in Threads \ {t} : cnt_of_deleted'[u] = cnt_of_deleted[u],
         t \in NotReady' => t \in NotReady, t \in Destroyed' <=> t \in Destroyed,
         UNCHANGED <<cnt_of_ready, cnt_of_closed, total_cnt, engine_closed, start_results,
                     is_closing>>,
         extension_threads' \subseteq extension_threads
  PROVE  IInv'
<1>1. \A u \in Threads \ {t} : /\ ThreadOK(u)' /\ Gone(u)' = Gone(u)
                               /\ u \in NotReady' <=> u \in NotReady
                               /\ u \in Destroyed' <=> u \in Destroyed
  BY OtherThread DEF IInv
<1>2. \A u \in Threads : ThreadOK(u)'
  BY <1>1
<1>3. \A u \in Threads : cnt_of_deleted'[u] = Cardinality(Gone(u)')
  BY <1>1 DEF IInv, Counts
<1>4. NotReady' \subseteq NotReady
  BY <1>1 DEF NotReady
<1>5. Destroyed' = Destroyed
  <2>1. Destroyed \subseteq Threads /\ Destroyed' \subseteq Threads
    BY DEF Destroyed
  <2> QED
    BY <1>1, <2>1
<1>6. Counts'
  BY <1>3, <1>4, <1>5, CountsStay DEF IInv
<1> QED
  BY <1>2, <1>6 DEF IInv

\* A step of one thread that no counter takes part in.
LEMMA ThreadStepOK ==
  ASSUME IInv, Types', NEW t \in Threads, ThreadOK(t)', \A u \in Threads \ {t} : Same(u),
         Gone(t)' = Gone(t), t \in NotReady' => t \in NotReady,
         t \in Destroyed' <=> t \in Destroyed,
         UNCHANGED <<cnt_of_ready, cnt_of_closed, cnt_of_deleted, total_cnt, engine_closed,
                     start_results, is_closing>>,
         extension_threads' \subseteq extension_threads
  PROVE  IInv'
<1>1. cnt_of_deleted'[t] = Cardinality(Gone(t)')
  BY DEF IInv, Counts
<1> QED
  BY <1>1, ThreadStepCounts

\* Thread t takes its first task.
LEMMA TakeOnly ==
  ASSUME Types, NEW t \in Threads, NEW h, ThreadRuns(t, h), Take(t, << >>)
  PROVE  LET q == thread_q[t]
             r == thread_q'[t] IN
         /\ thread_q' \in [Threads -> Seq(ThreadTasks)]
         /\ \A u \in Threads \ {t} : thread_q'[u] = thread_q[u]
         /\ \A x : Has(q, x) <=> Has(r, x) \/ x = h
         /\ \A x : Once(q, x) => Once(r, x) /\ (x = h => ~Has(r, x))
         /\ \A x, y : Before(q, x, y) => Before(r, x, y) /\ (y = h => ~Has(q, x))
<1>1. thread_q[t] \in Seq(ThreadTasks) /\ thread_q[t] # << >> /\ Head(thread_q[t]) = h
  BY DEF Types, ThreadRuns
<1>2. Tail(thread_q[t]) \in Seq(ThreadTasks)
  BY <1>1, TailQueue
<1>3. Tail(thread_q[t]) \o << >> = Tail(thread_q[t])
  BY <1>2
<1>4. /\ thread_q' \in [Threads -> Seq(ThreadTasks)]
      /\ \A u \in Threads \ {t} : thread_q'[u] = thread_q[u]
      /\ thread_q'[t] = Tail(thread_q[t])
  BY <1>2, <1>3 DEF Take, Types
<1> QED
  BY <1>1, <1>4, TailQueue

\* Thread t takes its first task and posts another one to itself.
LEMMA TakeThen ==
  ASSUME Types, NEW t \in Threads, NEW h, NEW e \in ThreadTasks, ThreadRuns(t, h), Take(t, <<e>>)
  PROVE  LET q == thread_q[t]
             r == thread_q'[t] IN
         /\ thread_q' \in [Threads -> Seq(ThreadTasks)]
         /\ \A u \in Threads \ {t} : thread_q'[u] = thread_q[u]
         /\ Has(q, h) /\ Has(r, e)
         /\ \A x : Has(r, x) => Has(q, x) \/ x = e
         /\ \A x : Has(q, x) /\ x # h => Has(r, x)
         /\ Once(q, h) /\ h # e => ~Has(r, h)
         /\ \A x : Once(q, x) /\ (x = e => ~Has(q, x)) => Once(r, x)
         /\ \A x, y : Before(q, x, y) => (y = h => ~Has(q, x)) /\ (x # e => Before(r, x, y))
<1>1. thread_q[t] \in Seq(ThreadTasks) /\ thread_q[t] # << >> /\ Head(thread_q[t]) = h
  BY DEF Types, ThreadRuns
<1> DEFINE s == Tail(thread_q[t])
<1>2. /\ s \in Seq(ThreadTasks)
      /\ \A x : Has(thread_q[t], x) <=> Has(s, x) \/ x = h
      /\ \A x : Once(thread_q[t], x) => Once(s, x) /\ (x = h => ~Has(s, x))
      /\ \A x, y : Before(thread_q[t], x, y) => Before(s, x, y) /\ (y = h => ~Has(thread_q[t], x))
  BY <1>1, TailQueue
<1>3. s \o <<e>> = Append(s, e) /\ Append(s, e) \in Seq(ThreadTasks)
  BY <1>2
<1>4. /\ thread_q' \in [Threads -> Seq(ThreadTasks)]
      /\ \A u \in Threads \ {t} : thread_q'[u] = thread_q[u]
      /\ thread_q'[t] = Append(s, e)
  BY <1>3 DEF Take, Types
<1> HIDE DEF s
<1>5. /\ \A x : Has(thread_q'[t], x) <=> Has(s, x) \/ x = e
      /\ \A x : Once(s, x) /\ (x = e => ~Has(s, x)) => Once(thread_q'[t], x)
      /\ \A x, y : Before(s, x, y) /\ x # e => Before(thread_q'[t], x, y)
  BY <1>2, <1>4, AppendQueue
<1> QED
  BY <1>2, <1>4, <1>5

\* A task is posted to thread t.
LEMMA PostToThread ==
  ASSUME Types, NEW t \in Threads, NEW e \in ThreadTasks,
         thread_q' = [thread_q EXCEPT ![t] = Append(@, e)]
  PROVE  LET q == thread_q[t]
             r == thread_q'[t] IN
         /\ thread_q' \in [Threads -> Seq(ThreadTasks)]
         /\ \A u \in Threads \ {t} : thread_q'[u] = thread_q[u]
         /\ \A x : Has(r, x) <=> Has(q, x) \/ x = e
         /\ \A x : Once(q, x) /\ (x = e => ~Has(q, x)) => Once(r, x)
         /\ \A x, y : Before(q, x, y) /\ x # e => Before(r, x, y)
<1>1. thread_q[t] \in Seq(ThreadTasks) /\ thread_q'[t] = Append(thread_q[t], e)
  BY DEF Types
<1>2. Append(thread_q[t], e) \in Seq(ThreadTasks)
  BY <1>1
<1>3. /\ thread_q' \in [Threads -> Seq(ThreadTasks)]
      /\ \A u \in Threads \ {t} : thread_q'[u] = thread_q[u]
  BY <1>2 DEF Types
<1> QED
  BY <1>1, <1>3, AppendQueue

\* A task is posted to the engine.
LEMMA EnginePosted ==
  ASSUME Types, NEW e \in EngineTasks, engine_q' = Append(engine_q, e)
  PROVE  /\ engine_q' \in Seq(EngineTasks)
         /\ \A x : Has(engine_q', x) <=> Has(engine_q, x) \/ x = e
         /\ \A x : Once(engine_q, x) /\ (x = e => ~Has(engine_q, x)) => Once(engine_q', x)
  BY AppendQueue DEF Types

\* The engine takes its first task.
LEMMA EngineTaken ==
  ASSUME Types, NEW h, EngineRuns(h)
  PROVE  LET s == Tail(engine_q) IN
         /\ s \in Seq(EngineTasks)
         /\ \A x : Has(engine_q, x) <=> Has(s, x) \/ x = h
         /\ \A x : Once(engine_q, x) => Once(s, x) /\ (x = h => ~Has(s, x))
  BY TailQueue DEF Types, EngineRuns

\* The lives of the extensions of thread t are left alone.
LEMMA LivesStay ==
  ASSUME NEW t, LivesOK(t), extensions'[t] = extensions[t], wanted' = wanted,
         state'[t] = state[t], \A x \in Names : life'[<<t, x>>] = life[<<t, x>>]
  PROVE  LivesOK(t)' /\ (Creating(t)' <=> Creating(t)) /\ Gone(t)' = Gone(t)
<1>1. Creating(t)' <=> Creating(t)
  BY DEF Creating
<1>2. Gone(t)' = Gone(t)
  BY DEF Gone
<1> QED
  BY <1>1, <1>2 DEF LivesOK

-----------------------------------------------------------------------------
(* The steps of a thread.                                                  *)

\* Only the queue of thread t and its state of closing are touched.
LEMMA QueueStep ==
  ASSUME IInv, NEW t \in Threads, thread_q' \in [Threads -> Seq(ThreadTasks)],
         \A u \in Threads \ {t} : thread_q'[u] = thread_q[u],
         close_triggered' \in [Threads -> BOOLEAN],
         \A u \in Threads \ {t} : close_triggered'[u] = close_triggered[u],
         StartOK(t)', CloseOK(t)',
         UNCHANGED <<engine_q, engineVars, state, err_before_ready, extensions,
                     cnt_of_deleted, life>>
  PROVE  IInv'
<1> USE DEF engineVars
<1>1. Types'
  BY DEF IInv, Types
<1>2. \A u \in Threads \ {t} : Same(u)
  BY DEF Same
<1>3. LivesOK(t)' /\ (Creating(t)' <=> Creating(t)) /\ Gone(t)' = Gone(t)
  BY LivesStay DEF IInv, ThreadOK
<1>4. t \in NotReady' => t \in NotReady
  BY <1>3 DEF NotReady
<1>5. t \in Destroyed' <=> t \in Destroyed
  BY DEF Destroyed
<1>6. ThreadOK(t)'
  BY <1>3 DEF ThreadOK
<1> QED
  BY <1>1, <1>2, <1>3, <1>4, <1>5, <1>6, ThreadStepOK

\* The thread handles its first task.
LEMMA StepStartMsg ==
  ASSUME IInv, NEW t \in Threads, StartMsg(t)
  PROVE  IInv'
<1> USE DEF engineVars, threadVars
<1>1. /\ ThreadRuns(t, "start_msg") /\ Take(t, <<"group_init_done">>)
      /\ UNCHANGED <<engine_q, engineVars, threadVars, life>>
  BY DEF StartMsg
<1>2. Types /\ StartOK(t) /\ CloseOK(t)
  BY DEF IInv, ThreadOK
<1> DEFINE q == thread_q[t]
           r == thread_q'[t]
<1>3. /\ thread_q' \in [Threads -> Seq(ThreadTasks)]
      /\ \A u \in Threads \ {t} : thread_q'[u] = thread_q[u]
      /\ Has(q, "start_msg") /\ Has(r, "group_init_done") /\ ~Has(r, "start_msg")
      /\ \A x : Has(r, x) => Has(q, x) \/ x = "group_init_done"
      /\ \A x : Once(q, x) /\ (x = "group_init_done" => ~Has(q, x)) => Once(r, x)
      /\ \A x, y : Before(q, x, y) /\ x # "group_init_done" => Before(r, x, y)
  <2>1. "group_init_done" \in ThreadTasks /\ Once(q, "start_msg")
    BY <1>2 DEF StartOK, ThreadTasks
  <2> QED
    BY <1>1, <1>2, <2>1, TakeThen, ZenonT(30)
<1>4. Creating(t)' <=> Creating(t)
  BY <1>1 DEF Creating
<1>5. state[t] = "INIT" /\ ~close_triggered[t] /\ ~Leaving(t) /\ ~Has(q, "group_init_done")
  BY <1>2, <1>3 DEF StartOK, CloseOK
<1>6. ~Has(r, "group_deinit_done") /\ ~Has(r, "removed") /\ ~Leaving(t)'
  BY <1>1, <1>3, <1>5 DEF Leaving, Ended
<1>7. Before(r, "group_init_done", "group_deinit_done")
  BY <1>6 DEF Before, Has
<1>8. StartOK(t)'
  BY <1>1, <1>2, <1>3, <1>4, <1>5, <1>7 DEF StartOK
<1>9. CloseOK(t)'
  BY <1>1, <1>2, <1>3, <1>5, <1>6 DEF CloseOK, Leaving, Ended
<1> QED
  BY <1>1, <1>2, <1>3, <1>8, <1>9, QueueStep DEF Types

\* A task to close finds the thread in its first state, still creating its
\* extensions, or already closing.
LEMMA StepCloseQuiet ==
  ASSUME IInv, NEW t \in Threads, TriggeringClose(t), UNCHANGED <<state, life>>
  PROVE  IInv'
<1> USE DEF engineVars, threadVars
<1>1. /\ ThreadRuns(t, "close")
      /\ close_triggered' = [close_triggered EXCEPT ![t] = TRUE]
      /\ UNCHANGED <<engine_q, engineVars, err_before_ready, extensions, cnt_of_deleted>>
  BY DEF TriggeringClose
<1>2. Types /\ StartOK(t) /\ CloseOK(t) /\ LivesOK(t)
  BY DEF IInv, ThreadOK
<1> DEFINE q == thread_q[t]
           r == thread_q'[t]
<1>3. Has(q, "close") /\ ~close_triggered[t] /\ is_closing /\ ~Has(q, "start_msg")
  <2>1. /\ Has(q, "close")
        /\ \A x, y : Before(q, x, y) => (y = "close" => ~Has(q, x))
    BY <1>1, <1>2, TailQueue DEF ThreadRuns, Types
  <2> QED
    BY <1>2, <2>1 DEF StartOK
<1>4. Creating(t)' <=> Creating(t)
  BY DEF Creating
<1>5. /\ close_triggered' \in [Threads -> BOOLEAN] /\ close_triggered'[t] = TRUE
      /\ \A u \in Threads \ {t} : close_triggered'[u] = close_triggered[u]
  BY <1>1, <1>2 DEF Types
<1>6. ~Leaving(t)
  BY <1>2, <1>3 DEF CloseOK
<1>7. CASE state[t] = "INIT" /\ Take(t, <<"group_deinit_done">>)
  <2>1. /\ thread_q' \in [Threads -> Seq(ThreadTasks)]
        /\ \A u \in Threads \ {t} : thread_q'[u] = thread_q[u]
        /\ Has(r, "group_deinit_done") /\ ~Has(r, "close")
        /\ \A x : Has(r, x) => Has(q, x) \/ x = "group_deinit_done"
        /\ \A x : Once(q, x) /\ (x = "group_deinit_done" => ~Has(q, x)) => Once(r, x)
        /\ \A x, y : Before(q, x, y) /\ x # "group_deinit_done" => Before(r, x, y)
    <3>1. "group_deinit_done" \in ThreadTasks /\ Once(q, "close")
      BY <1>2 DEF StartOK, ThreadTasks
    <3>2. ThreadRuns(t, "close") /\ Take(t, <<"group_deinit_done">>)
      BY <1>1, <1>7
    <3> QED
      BY <1>2, <3>1, <3>2, TakeThen, ZenonT(30)
  <2>2. StartOK(t)'
    BY <1>1, <1>2, <1>3, <1>4, <1>5, <1>7, <2>1 DEF StartOK
  <2>3. extensions[t] = {}
    BY <1>2, <1>7 DEF LivesOK
  <2>4. CloseOK(t)'
    BY <1>1, <1>2, <1>3, <1>5, <1>6, <1>7, <2>1, <2>3 DEF CloseOK, Leaving, Ended
  <2> QED
    BY <1>1, <1>5, <2>1, <2>2, <2>4, QueueStep
<1>8. CASE state[t] = "CREATING" /\ Take(t, << >>)
  <2>1. /\ thread_q' \in [Threads -> Seq(ThreadTasks)]
        /\ \A u \in Threads \ {t} : thread_q'[u] = thread_q[u]
        /\ \A x : Has(q, x) <=> Has(r, x) \/ x = "close"
        /\ \A x : Once(q, x) => Once(r, x) /\ (x = "close" => ~Has(r, x))
        /\ \A x, y : Before(q, x, y) => Before(r, x, y)
    BY <1>1, <1>2, <1>8, TakeOnly
  <2>2. StartOK(t)'
    BY <1>1, <1>2, <1>3, <1>4, <1>5, <1>8, <2>1 DEF StartOK
  <2>3. CloseOK(t)'
    BY <1>1, <1>2, <1>3, <1>5, <1>6, <1>8, <2>1 DEF CloseOK, Leaving, Ended
  <2> QED
    BY <1>1, <1>5, <2>1, <2>2, <2>3, QueueStep
<1> QED
  BY <1>3, <1>7, <1>8, <1>2 DEF TriggeringClose, StopLifeCycle, SetState, Types

\* The extensions of thread t that are at one place move on.
LEMMA MoveEffect ==
  ASSUME Types, NEW t \in Threads, NEW from, NEW to \in Lives, Move(t, from, to)
  PROVE  /\ life' \in [Exts -> Lives]
         /\ \A u \in Threads, x \in Names :
              life'[<<u, x>>] = IF u = t /\ x \in extensions[t] /\ life[<<u, x>>] = from
                                THEN to ELSE life[<<u, x>>]
<1>1. \A u \in Threads, x \in Names : <<u, x>> \in Exts /\ <<u, x>>[1] = u /\ <<u, x>>[2] = x
  BY DEF Exts
<1>2. life' \in [Exts -> Lives]
  BY DEF Move, Types
<1> QED
  BY <1>1, <1>2 DEF Move

\* The group is done with its on_init: it asks for its extensions, unless the
\* thread has been told to close.
LEMMA StepGroupInitDone ==
  ASSUME IInv, NEW t \in Threads, GroupInitDone(t)
  PROVE  IInv'
<1> USE DEF engineVars, threadVars
<1>1. ThreadRuns(t, "group_init_done") /\ Take(t, << >>)
  BY DEF GroupInitDone
<1>2. UNCHANGED <<engineVars, close_triggered, cnt_of_deleted>>
  BY DEF GroupInitDone
<1>3. Types /\ StartOK(t) /\ CloseOK(t) /\ LivesOK(t)
  BY DEF IInv, ThreadOK
<1> DEFINE q == thread_q[t]
           r == thread_q'[t]
<1>4. /\ thread_q' \in [Threads -> Seq(ThreadTasks)]
      /\ \A u \in Threads \ {t} : thread_q'[u] = thread_q[u]
      /\ \A x : Has(q, x) <=> Has(r, x) \/ x = "group_init_done"
      /\ \A x : Once(q, x) => Once(r, x) /\ (x = "group_init_done" => ~Has(r, x))
      /\ \A x, y : Before(q, x, y) => Before(r, x, y)
  BY <1>1, <1>3, TakeOnly
<1>5. state[t] = "INIT" /\ ~Has(q, "start_msg") /\ ~Has(r, "group_init_done")
  BY <1>3, <1>4 DEF StartOK
<1>6. CASE close_triggered[t]
  <2>1. UNCHANGED <<state, life, extensions, err_before_ready, engine_q>>
    BY <1>6 DEF GroupInitDone
  <2>2. Creating(t)' <=> Creating(t)
    BY <2>1 DEF Creating
  <2>3. StartOK(t)'
    BY <1>2, <1>3, <1>4, <1>5, <2>1, <2>2 DEF StartOK
  <2>4. CloseOK(t)'
    BY <1>2, <1>3, <1>4, <1>5, <2>1 DEF CloseOK, Leaving, Ended
  <2> QED
    BY <1>2, <1>3, <1>4, <2>1, <2>3, <2>4, QueueStep DEF Types
<1>7. CASE ~close_triggered[t]
  <2>1. state' = [state EXCEPT ![t] = "CREATING"] /\ CreateExtensions(t)
    BY <1>7 DEF GroupInitDone, SetState
  <2>2. \A u \in Threads, x \in Names :
          life'[<<u, x>>] = IF u = t /\ x \in wanted[t] THEN "creating" ELSE life[<<u, x>>]
    <3>1. \A u \in Threads, x \in Names :
            <<u, x>> \in Exts /\ <<u, x>>[1] = u /\ <<u, x>>[2] = x
      BY DEF Exts
    <3> QED
      BY <2>1, <3>1 DEF CreateExtensions
  <2>3. life' \in [Exts -> Lives]
    BY <1>3, <2>1 DEF CreateExtensions, Types, Lives
  <2>4. state' \in [Threads -> States] /\ state'[t] = "CREATING"
        /\ \A u \in Threads \ {t} : state'[u] = state[u]
    BY <1>3, <2>1 DEF Types, States
  <2>5. extensions[t] = {} /\ \A x \in Names : life[<<t, x>>] = "absent"
    BY <1>3, <1>5 DEF LivesOK
  <2>6. Gone(t)' = Gone(t)
    BY <2>2, <2>5 DEF Gone
  <2>7. ~Leaving(t) /\ ~Has(engine_q, FindInfo(t)) /\ ~Has(q, "start") /\ ~Has(q, "stop")
    BY <1>3, <1>5, <1>7 DEF CloseOK, StartOK
  <2>8. wanted[t] \subseteq Names
    BY <1>3 DEF Types
  <2>9. CASE wanted[t] = {}
    <3>1. /\ extensions' = [extensions EXCEPT ![t] = {}] /\ err_before_ready' = err_before_ready
          /\ engine_q' = Append(engine_q, FindInfo(t))
      <4>1. CreateExtensionsDone(t, life)
        BY <2>1, <2>9 DEF CreateExtensions
      <4>2. {x \in wanted[t] : life[<<t, x>>] = "init"} = {}
        BY <2>9
      <4> QED
        BY <2>9, <4>1, <4>2
        DEF CreateExtensionsDone, AddAllCreatedExtensions, PostToEngine, FindInfo
    <3>2. /\ engine_q' \in Seq(EngineTasks)
          /\ \A x : Has(engine_q', x) <=> Has(engine_q, x) \/ x = FindInfo(t)
          /\ \A x : Once(engine_q, x) /\ (x = FindInfo(t) => ~Has(engine_q, x)) =>
                      Once(engine_q', x)
      BY <1>3, <3>1, EngineTaskKinds, EnginePosted
    <3>3. ~Creating(t)' /\ \A x \in Names : life'[<<t, x>>] = "absent"
      BY <2>2, <2>5, <2>9 DEF Creating
    <3>4. extensions' = extensions
      BY <1>3, <2>5, <3>1 DEF Types
    <3>5. Types'
      BY <1>2, <1>3, <1>4, <2>3, <2>4, <3>1, <3>2, <3>4 DEF Types
    <3>6. ~Leaving(t)'
      BY <1>4, <2>4, <2>7, <3>2, EngineTaskKinds DEF Leaving, Ended
    <3>7. StartOK(t)'
      BY <1>2, <1>3, <1>4, <1>5, <2>4, <2>7, <3>2, <3>3 DEF StartOK
    <3>8. CloseOK(t)'
      BY <1>2, <1>3, <1>4, <1>5, <1>7, <2>4, <2>7, <3>2, <3>4, <3>6, EngineTaskKinds
      DEF CloseOK, Leaving, Ended
    <3>9. LivesOK(t)'
      BY <2>4, <2>5, <3>3, <3>4 DEF LivesOK
    <3>10. \A u \in Threads \ {t} : Same(u)
      BY <1>2, <1>4, <2>2, <2>4, <3>2, <3>4, EngineTaskKinds DEF Same
    <3>11. t \in NotReady /\ t \notin Destroyed /\ t \notin Destroyed'
      BY <1>5, <2>4 DEF NotReady, Destroyed
    <3> QED
      BY <1>2, <2>6, <3>5, <3>7, <3>8, <3>9, <3>10, <3>11, ThreadStepOK DEF ThreadOK
  <2>10. CASE wanted[t] # {}
    <3>1. UNCHANGED <<extensions, err_before_ready, engine_q>>
      BY <2>1, <2>10 DEF CreateExtensions
    <3>2. Creating(t)'
      BY <2>2, <2>8, <2>10 DEF Creating
    <3>5. Types'
      BY <1>2, <1>3, <1>4, <2>3, <2>4, <3>1 DEF Types
    <3>6. ~Leaving(t)'
      BY <1>4, <2>4, <2>7, <3>1 DEF Leaving, Ended
    <3>7. StartOK(t)'
      BY <1>2, <1>3, <1>4, <1>5, <2>4, <2>7, <3>1 DEF StartOK
    <3>8. CloseOK(t)'
      BY <1>2, <1>3, <1>4, <1>5, <1>7, <2>4, <2>7, <3>1, <3>6 DEF CloseOK, Leaving, Ended
    <3>9. LivesOK(t)'
      BY <1>2, <2>2, <2>4, <2>5, <3>1, <3>2 DEF LivesOK
    <3>10. \A u \in Threads \ {t} : Same(u)
      BY <1>2, <1>4, <2>2, <2>4, <3>1 DEF Same
    <3>11. t \in NotReady /\ t \notin Destroyed /\ t \notin Destroyed'
      BY <1>5, <2>4 DEF NotReady, Destroyed
    <3> QED
      BY <1>2, <2>6, <3>5, <3>7, <3>8, <3>9, <3>10, <3>11, ThreadStepOK DEF ThreadOK
  <2> QED
    BY <2>9, <2>10
<1> QED
  BY <1>6, <1>7

\* The extensions of a thread that is not closing begin their lives.
LEMMA StepStartLifeCycle ==
  ASSUME IInv, NEW t \in Threads, StartLifeCycle(t)
  PROVE  IInv'
<1> USE DEF engineVars, threadVars
<1>1. ThreadRuns(t, "start") /\ Take(t, << >>)
  BY DEF StartLifeCycle
<1>2. UNCHANGED <<engine_q, engineVars, close_triggered, err_before_ready, extensions,
                  cnt_of_deleted>>
  BY DEF StartLifeCycle
<1>3. Types /\ StartOK(t) /\ CloseOK(t) /\ LivesOK(t)
  BY DEF IInv, ThreadOK
<1> DEFINE q == thread_q[t]
           r == thread_q'[t]
<1>4. /\ thread_q' \in [Threads -> Seq(ThreadTasks)]
      /\ \A u \in Threads \ {t} : thread_q'[u] = thread_q[u]
      /\ \A x : Has(q, x) <=> Has(r, x) \/ x = "start"
      /\ \A x : Once(q, x) => Once(r, x) /\ (x = "start" => ~Has(r, x))
      /\ \A x, y : Before(q, x, y) => Before(r, x, y)
  BY <1>1, <1>3, TakeOnly
<1>5. /\ state[t] = "CREATING" /\ ~Creating(t) /\ ~Has(r, "start") /\ ~Has(q, "stop")
      /\ ~Has(engine_q, FindInfo(t)) /\ ~Has(q, "group_init_done") /\ ~Has(q, "start_msg")
  BY <1>3, <1>4 DEF StartOK
<1>6. CASE close_triggered[t]
  <2>1. UNCHANGED <<state, life>>
    BY <1>6 DEF StartLifeCycle
  <2>2. Creating(t)' <=> Creating(t)
    BY <2>1 DEF Creating
  <2>3. StartOK(t)'
    BY <1>2, <1>3, <1>4, <1>5, <2>1, <2>2 DEF StartOK
  <2>4. CloseOK(t)'
    BY <1>2, <1>3, <1>4, <1>5, <2>1 DEF CloseOK, Leaving, Ended
  <2> QED
    BY <1>2, <1>3, <1>4, <2>1, <2>3, <2>4, QueueStep DEF Types
<1>7. CASE ~close_triggered[t]
  <2>1. state' = [state EXCEPT ![t] = "NORMAL"] /\ Move(t, "init", "on_xxx")
    BY <1>7 DEF StartLifeCycle, SetState
  <2>2. /\ life' \in [Exts -> Lives]
        /\ \A u \in Threads, x \in Names :
             life'[<<u, x>>] = IF u = t /\ x \in extensions[t] /\ life[<<u, x>>] = "init"
                               THEN "on_xxx" ELSE life[<<u, x>>]
    BY <1>3, <2>1, MoveEffect DEF Lives
  <2>3. state' \in [Threads -> States] /\ state'[t] = "NORMAL"
        /\ \A u \in Threads \ {t} : state'[u] = state[u]
    BY <1>3, <2>1 DEF Types, States
  <2>4. \A x \in Names : life[<<t, x>>] \in {"absent", "init", "failed"}
    BY <1>3, <1>5 DEF LivesOK, Creating
  <2>5. Gone(t)' = Gone(t) /\ ~Creating(t)'
    BY <2>2, <2>4 DEF Gone, Creating
  <2>6. ~Leaving(t)
    BY <1>3, <1>7 DEF CloseOK
  <2>7. ~Leaving(t)'
    BY <1>2, <1>4, <2>3, <2>6 DEF Leaving, Ended
  <2>8. Types'
    BY <1>2, <1>3, <1>4, <2>2, <2>3 DEF Types
  <2>9. StartOK(t)'
    BY <1>2, <1>3, <1>4, <1>5, <2>3, <2>5 DEF StartOK
  <2>10. CloseOK(t)'
    BY <1>2, <1>3, <1>4, <1>5, <1>7, <2>3, <2>6, <2>7 DEF CloseOK, Leaving, Ended
  <2>11. LivesOK(t)'
    BY <1>2, <1>3, <1>5, <2>2, <2>3, <2>4, <2>5 DEF LivesOK
  <2>12. \A u \in Threads \ {t} : Same(u)
    BY <1>2, <1>4, <2>2, <2>3 DEF Same
  <2>13. t \notin NotReady' /\ t \notin Destroyed /\ t \notin Destroyed'
    BY <1>2, <1>5, <2>3, <2>5 DEF NotReady, Destroyed
  <2> QED
    BY <1>2, <2>5, <2>8, <2>9, <2>10, <2>11, <2>12, <2>13, ThreadStepOK DEF ThreadOK
<1> QED
  BY <1>6, <1>7

\* The life cycle of all extensions is stopped, when the task to close finds
\* the thread running, or when the engine has seen that it is closing.
LEMMA StepStopLifeCycle ==
  ASSUME IInv, NEW t \in Threads, NEW h \in {"close", "stop"}, ThreadRuns(t, h),
         h = "close" => state[t] = "NORMAL", StopLifeCycle(t),
         close_triggered' = [close_triggered EXCEPT ![t] = TRUE],
         UNCHANGED <<engine_q, engineVars, err_before_ready, extensions, cnt_of_deleted>>
  PROVE  IInv'
<1> USE DEF engineVars, threadVars
<1>1. Types /\ StartOK(t) /\ CloseOK(t) /\ LivesOK(t)
  BY DEF IInv, ThreadOK
<1> DEFINE q == thread_q[t]
           r == thread_q'[t]
<1>2. Has(q, h) /\ \A x, y : Before(q, x, y) => (y = h => ~Has(q, x))
  BY <1>1, TailQueue DEF ThreadRuns, Types
<1>3. /\ state[t] \in {"NORMAL", "CREATING"} /\ ~Creating(t) /\ ~Has(engine_q, FindInfo(t))
      /\ ~Has(q, "start_msg") /\ ~Has(q, "group_init_done") /\ is_closing
  <2>1. CASE h = "close"
    BY <1>1, <1>2, <2>1 DEF StartOK, LivesOK
  <2>2. CASE h = "stop"
    BY <1>1, <1>2, <2>2 DEF StartOK, CloseOK
  <2> QED
    BY <2>1, <2>2
<1>4. ~Leaving(t) /\ ~Has(q, "all_deleted")
  BY <1>1, <1>3 DEF CloseOK
<1>5. ~Has(q, "start") /\ (h = "close" => ~Has(q, "stop")) /\ (h = "stop" => ~Has(q, "close"))
  <2>1. CASE h = "close"
    BY <1>1, <2>1 DEF StartOK
  <2>2. CASE h = "stop"
    BY <1>1, <1>2, <2>2 DEF StartOK
  <2> QED
    BY <2>1, <2>2
<1>6. /\ close_triggered' \in [Threads -> BOOLEAN] /\ close_triggered'[t] = TRUE
      /\ \A u \in Threads \ {t} : close_triggered'[u] = close_triggered[u]
  BY <1>1 DEF Types
<1>7. /\ state' \in [Threads -> States] /\ state'[t] = "PREPARE_TO_CLOSE"
      /\ \A u \in Threads \ {t} : state'[u] = state[u]
  BY <1>1 DEF Types, States, StopLifeCycle, SetState
<1>8. /\ life' \in [Exts -> Lives]
      /\ \A u \in Threads, x \in Names :
           life'[<<u, x>>] = IF u = t /\ x \in extensions[t] /\ life[<<u, x>>] = "xxx_done"
                             THEN "stopping" ELSE life[<<u, x>>]
  <2>1. CASE extensions[t] = {}
    BY <1>1, <2>1 DEF StopLifeCycle, Types
  <2>2. CASE extensions[t] # {}
    <3>1. Move(t, "xxx_done", "stopping") /\ "stopping" \in Lives
      BY <2>2 DEF StopLifeCycle, Lives
    <3> QED
      BY <1>1, <3>1, MoveEffect
  <2> QED
    BY <2>1, <2>2
<1>9. ~Creating(t)' /\ Gone(t)' = Gone(t)
  <2>1. \A x \in Names : life[<<t, x>>] # "creating"
    BY <1>3 DEF Creating
  <2>2. ~Creating(t)'
    BY <1>8, <2>1 DEF Creating
  <2>3. Gone(t)' = Gone(t)
    BY <1>8 DEF Gone
  <2> QED
    BY <2>2, <2>3
<1>10. LivesOK(t)'
  BY <1>1, <1>3, <1>7, <1>8, <1>9 DEF LivesOK
<1>11. /\ thread_q' \in [Threads -> Seq(ThreadTasks)]
       /\ \A u \in Threads \ {t} : thread_q'[u] = thread_q[u]
       /\ ~Has(r, h)
       /\ \A x : Has(r, x) => Has(q, x) \/ (extensions[t] = {} /\ x = "group_deinit_done")
       /\ \A x : Once(q, x) /\ (x = "group_deinit_done" => ~Has(q, x)) => Once(r, x)
       /\ \A x, y : Before(q, x, y) /\ x # "group_deinit_done" => Before(r, x, y)
  <2>1. Once(q, h)
    BY <1>1 DEF StartOK
  <2>2. CASE extensions[t] = {}
    <3>1. Take(t, <<"group_deinit_done">>) /\ "group_deinit_done" \in ThreadTasks
      BY <2>2 DEF StopLifeCycle, ThreadTasks
    <3>2. h # "group_deinit_done"
      OBVIOUS
    <3>3. /\ thread_q' \in [Threads -> Seq(ThreadTasks)]
          /\ \A u \in Threads \ {t} : thread_q'[u] = thread_q[u]
          /\ \A x : Has(r, x) => Has(q, x) \/ x = "group_deinit_done"
          /\ Once(q, h) /\ h # "group_deinit_done" => ~Has(r, h)
          /\ \A x : Once(q, x) /\ (x = "group_deinit_done" => ~Has(q, x)) => Once(r, x)
          /\ \A x, y : Before(q, x, y) => (x # "group_deinit_done" => Before(r, x, y))
      BY <1>1, <3>1, TakeThen, ZenonT(30)
    <3> QED
      BY <2>1, <2>2, <3>2, <3>3
  <2>3. CASE extensions[t] # {}
    <3>1. Take(t, << >>)
      BY <2>3 DEF StopLifeCycle
    <3> QED
      BY <1>1, <2>1, <3>1, TakeOnly
  <2> QED
    BY <2>2, <2>3
<1>12. /\ ~Has(r, "start_msg") /\ ~Has(r, "group_init_done") /\ ~Has(r, "start")
       /\ ~Has(r, "stop") /\ ~Has(r, "close") /\ ~Has(r, "all_deleted")
  BY <1>3, <1>4, <1>5, <1>11
<1>13. StartOK(t)'
  BY <1>1, <1>3, <1>11, <1>12 DEF StartOK
<1>14. ~Has(r, "removed") /\ ~Ended(t)' /\ (Leaving(t)' => extensions[t] = {})
       /\ ~Has(q, "group_deinit_done")
  BY <1>4, <1>7, <1>11 DEF Leaving, Ended
<1>15. CloseOK(t)'
  BY <1>1, <1>3, <1>4, <1>6, <1>7, <1>11, <1>12, <1>14 DEF CloseOK, Leaving, Ended
<1>16. Types'
  BY <1>1, <1>6, <1>7, <1>8, <1>11 DEF Types
<1>17. \A u \in Threads \ {t} : Same(u)
  BY <1>6, <1>7, <1>8, <1>11 DEF Same
<1>18. t \notin NotReady' /\ t \notin Destroyed /\ t \notin Destroyed'
  BY <1>3, <1>7, <1>9 DEF NotReady, Destroyed
<1> QED
  BY <1>9, <1>10, <1>13, <1>15, <1>16, <1>17, <1>18, ThreadStepOK DEF ThreadOK

\* A task to close.
LEMMA StepTriggeringClose ==
  ASSUME IInv, NEW t \in Threads, TriggeringClose(t)
  PROVE  IInv'
<1>1. CASE UNCHANGED <<state, life>>
  BY <1>1, StepCloseQuiet
<1>2. CASE ~close_triggered[t] /\ state[t] = "NORMAL" /\ StopLifeCycle(t)
  <2>1. /\ ThreadRuns(t, "close") /\ close_triggered' = [close_triggered EXCEPT ![t] = TRUE]
        /\ UNCHANGED <<engine_q, engineVars, err_before_ready, extensions, cnt_of_deleted>>
    BY DEF TriggeringClose
  <2> QED
    BY <1>2, <2>1, StepStopLifeCycle
<1> QED
  BY <1>1, <1>2 DEF TriggeringClose

\* A task to stop comes to a thread that has been told to close.
LEMMA StepStopTask ==
  ASSUME IInv, NEW t \in Threads, StopTask(t)
  PROVE  IInv'
<1>1. /\ ThreadRuns(t, "stop") /\ StopLifeCycle(t)
      /\ UNCHANGED <<engine_q, engineVars, err_before_ready, extensions, cnt_of_deleted>>
      /\ close_triggered' = close_triggered
  BY DEF StopTask
<1>2. Types /\ StartOK(t)
  BY DEF IInv, ThreadOK
<1>3. Has(thread_q[t], "stop")
  BY <1>1, <1>2, TailQueue DEF ThreadRuns, Types
<1>4. close_triggered[t] = TRUE
  BY <1>2, <1>3 DEF StartOK, Types
<1>5. close_triggered' = [close_triggered EXCEPT ![t] = TRUE]
  BY <1>1, <1>2, <1>4 DEF Types
<1> QED
  BY <1>1, <1>5, StepStopLifeCycle

\* The last extension is gone.
LEMMA StepAllDeleted ==
  ASSUME IInv, NEW t \in Threads, AllExtensionsDeleted(t)
  PROVE  IInv'
<1> USE DEF engineVars, threadVars
<1>1. /\ ThreadRuns(t, "all_deleted") /\ Take(t, <<"group_deinit_done">>)
  BY DEF AllExtensionsDeleted
<1>2. /\ extensions' = [extensions EXCEPT ![t] = {}]
      /\ UNCHANGED <<engine_q, engineVars, state, close_triggered, err_before_ready,
                     cnt_of_deleted, life>>
  BY DEF AllExtensionsDeleted
<1>3. Types /\ StartOK(t) /\ CloseOK(t) /\ LivesOK(t)
  BY DEF IInv, ThreadOK
<1> DEFINE q == thread_q[t]
           r == thread_q'[t]
<1>4. /\ thread_q' \in [Threads -> Seq(ThreadTasks)]
      /\ \A u \in Threads \ {t} : thread_q'[u] = thread_q[u]
      /\ Has(q, "all_deleted") /\ ~Has(r, "all_deleted")
      /\ \A x : Has(r, x) => Has(q, x) \/ x = "group_deinit_done"
      /\ \A x : Once(q, x) /\ (x = "group_deinit_done" => ~Has(q, x)) => Once(r, x)
      /\ \A x, y : Before(q, x, y) /\ x # "group_deinit_done" => Before(r, x, y)
  <2>1. "group_deinit_done" \in ThreadTasks /\ Once(q, "all_deleted")
    BY <1>3 DEF CloseOK, ThreadTasks
  <2> QED
    BY <1>1, <1>3, <2>1, TakeThen, ZenonT(30)
<1>5. /\ state[t] = "PREPARE_TO_CLOSE" /\ extensions[t] # {} /\ close_triggered[t]
      /\ \A x \in Names : x \in extensions[t] => life[<<t, x>>] = "destroyed"
      /\ ~Leaving(t)
  BY <1>3, <1>4 DEF CloseOK
<1>6. /\ ~Has(q, "start_msg") /\ ~Has(q, "group_init_done") /\ ~Has(q, "start")
      /\ ~Has(q, "stop") /\ ~Has(q, "close") /\ ~Has(engine_q, FindInfo(t))
  BY <1>3, <1>5 DEF StartOK
<1>7. (Creating(t)' <=> Creating(t)) /\ ~Creating(t) /\ Gone(t)' = Gone(t)
  BY <1>2, <1>3, <1>5 DEF Creating, Gone, LivesOK
<1>8. /\ extensions' \in [Threads -> SUBSET Names] /\ extensions'[t] = {}
      /\ \A u \in Threads \ {t} : extensions'[u] = extensions[u]
  BY <1>2, <1>3 DEF Types
<1>9. Types'
  BY <1>2, <1>3, <1>4, <1>8 DEF Types
<1>10. StartOK(t)'
  BY <1>2, <1>3, <1>4, <1>6, <1>7 DEF StartOK
<1>11. ~Has(r, "removed") /\ ~Ended(t)' /\ ~Has(q, "group_deinit_done")
  BY <1>2, <1>4, <1>5 DEF Leaving, Ended
<1>12. CloseOK(t)'
  BY <1>2, <1>3, <1>4, <1>5, <1>8, <1>11 DEF CloseOK, Leaving, Ended
<1>13. LivesOK(t)'
  BY <1>2, <1>3, <1>5, <1>7, <1>8 DEF LivesOK
<1>14. \A u \in Threads \ {t} : Same(u)
  BY <1>2, <1>4, <1>8 DEF Same
<1>15. /\ t \in NotReady' => t \in NotReady
       /\ t \in Destroyed' <=> t \in Destroyed
  BY <1>2, <1>7 DEF NotReady, Destroyed
<1> QED
  BY <1>2, <1>7, <1>9, <1>10, <1>12, <1>13, <1>14, <1>15, ThreadStepOK DEF ThreadOK

\* The group is done with its on_deinit: the engine is asked to remove the
\* thread.
LEMMA StepGroupDeinitDone ==
  ASSUME IInv, NEW t \in Threads, GroupDeinitDone(t)
  PROVE  IInv'
<1> USE DEF engineVars, threadVars
<1>1. ThreadRuns(t, "group_deinit_done") /\ Take(t, << >>)
  BY DEF GroupDeinitDone
<1>2. /\ engine_q' = Append(engine_q, Remove(t))
      /\ UNCHANGED <<engineVars, threadVars, life>>
  BY DEF GroupDeinitDone, PostToEngine, Remove
<1>3. Types /\ StartOK(t) /\ CloseOK(t) /\ LivesOK(t)
  BY DEF IInv, ThreadOK
<1> DEFINE q == thread_q[t]
           r == thread_q'[t]
<1>4. /\ thread_q' \in [Threads -> Seq(ThreadTasks)]
      /\ \A u \in Threads \ {t} : thread_q'[u] = thread_q[u]
      /\ \A x : Has(q, x) <=> Has(r, x) \/ x = "group_deinit_done"
      /\ \A x : Once(q, x) => Once(r, x) /\ (x = "group_deinit_done" => ~Has(r, x))
      /\ \A x, y : Before(q, x, y) => Before(r, x, y) /\ (y = "group_deinit_done" => ~Has(q, x))
  BY <1>1, <1>3, TakeOnly
<1>5. /\ engine_q' \in Seq(EngineTasks)
      /\ \A x : Has(engine_q', x) <=> Has(engine_q, x) \/ x = Remove(t)
      /\ \A x : Once(engine_q, x) /\ (x = Remove(t) => ~Has(engine_q, x)) => Once(engine_q', x)
  BY <1>2, <1>3, EngineTaskKinds, EnginePosted
<1>6. /\ Has(q, "group_deinit_done") /\ ~Has(r, "group_deinit_done")
      /\ ~Has(q, "group_init_done") /\ ~Has(engine_q, Remove(t)) /\ ~Has(q, "removed")
      /\ ~Ended(t) /\ Leaving(t)
  BY <1>3, <1>4 DEF CloseOK, StartOK, Leaving
<1>7. LivesOK(t)' /\ (Creating(t)' <=> Creating(t)) /\ Gone(t)' = Gone(t)
  BY <1>2, <1>3, LivesStay
<1>8. Types'
  BY <1>2, <1>3, <1>4, <1>5 DEF Types
<1>9. StartOK(t)'
  BY <1>2, <1>3, <1>4, <1>5, <1>7, EngineTaskKinds DEF StartOK
<1>10. CloseOK(t)'
  BY <1>2, <1>3, <1>4, <1>5, <1>6, EngineTaskKinds DEF CloseOK, Leaving, Ended
<1>11. \A u \in Threads \ {t} : Same(u)
  BY <1>2, <1>4, <1>5, EngineTaskKinds DEF Same
<1>12. /\ t \in NotReady' => t \in NotReady
       /\ t \in Destroyed' <=> t \in Destroyed
  BY <1>2, <1>5, <1>7, EngineTaskKinds DEF NotReady, Destroyed
<1> QED
  BY <1>2, <1>7, <1>8, <1>9, <1>10, <1>11, <1>12, ThreadStepOK DEF ThreadOK

\* The thread has been removed: its runloop ends.
LEMMA StepRemovedFromEngine ==
  ASSUME IInv, NEW t \in Threads, RemovedFromEngine(t)
  PROVE  IInv'
<1> USE DEF engineVars, threadVars
<1>1. /\ thread_q' = [thread_q EXCEPT ![t] = << >>]
      /\ state' = [state EXCEPT ![t] = "CLOSED"]
      /\ engine_q' = Append(engine_q, Closed(t))
      /\ UNCHANGED <<engineVars, close_triggered, err_before_ready, extensions,
                     cnt_of_deleted, life>>
  BY DEF RemovedFromEngine, NotifyEngineWeAreClosed, SetState, PostToEngine, Closed
<1>2. Types /\ StartOK(t) /\ CloseOK(t) /\ LivesOK(t)
  BY DEF IInv, ThreadOK
<1> DEFINE q == thread_q[t]
           r == thread_q'[t]
<1>3. /\ r = << >> /\ thread_q' \in [Threads -> Seq(ThreadTasks)]
      /\ \A u \in Threads \ {t} : thread_q'[u] = thread_q[u]
  BY <1>1, <1>2 DEF Types
<1>4. \A x, y : ~Has(r, x) /\ Once(r, x) /\ Before(r, x, y)
  BY <1>3, EmptyQueue
<1>5. /\ engine_q' \in Seq(EngineTasks)
      /\ \A x : Has(engine_q', x) <=> Has(engine_q, x) \/ x = Closed(t)
      /\ \A x : Once(engine_q, x) /\ (x = Closed(t) => ~Has(engine_q, x)) => Once(engine_q', x)
  BY <1>1, <1>2, EngineTaskKinds, EnginePosted
<1>6. Has(q, "removed")
  BY <1>2, TailQueue DEF RemovedFromEngine, ThreadRuns, Types
<1>7. /\ Leaving(t) /\ close_triggered[t] /\ is_closing /\ extensions[t] = {} /\ ~Ended(t)
      /\ ~Has(engine_q, Remove(t)) /\ ~Has(engine_q, Closed(t)) /\ t \notin extension_threads
      /\ state[t] \notin {"CREATING", "NORMAL"}
  <2>1. Leaving(t) /\ ~Ended(t)
    BY <1>2, <1>6 DEF CloseOK, Leaving
  <2>2. ~Has(engine_q, Closed(t))
    BY <1>2, <2>1 DEF CloseOK, Ended
  <2> QED
    BY <1>2, <1>6, <2>1, <2>2 DEF CloseOK
<1>8. ~Has(engine_q, FindInfo(t)) /\ ~Creating(t) /\ (Creating(t)' <=> Creating(t))
      /\ Gone(t)' = Gone(t)
  BY <1>1, <1>2, <1>7 DEF StartOK, LivesOK, Creating, Gone
<1>9. /\ state' \in [Threads -> States] /\ state'[t] = "CLOSED"
      /\ \A u \in Threads \ {t} : state'[u] = state[u]
  BY <1>1, <1>2 DEF Types, States
<1>10. Types'
  BY <1>1, <1>2, <1>3, <1>5, <1>9 DEF Types
<1>11. StartOK(t)'
  BY <1>1, <1>2, <1>4, <1>5, <1>8, EngineTaskKinds DEF StartOK
<1>12. CloseOK(t)'
  BY <1>1, <1>2, <1>3, <1>4, <1>5, <1>7, <1>9, EngineTaskKinds DEF CloseOK, Leaving, Ended
<1>13. LivesOK(t)'
  BY <1>1, <1>2, <1>7, <1>8, <1>9 DEF LivesOK
<1>14. \A u \in Threads \ {t} : Same(u)
  BY <1>1, <1>3, <1>5, <1>9, EngineTaskKinds DEF Same
<1>15. t \notin NotReady' /\ t \notin Destroyed /\ t \notin Destroyed'
  BY <1>5, <1>7, <1>8, <1>9, EngineTaskKinds DEF NotReady, Destroyed, Ended
<1> QED
  BY <1>1, <1>8, <1>10, <1>11, <1>12, <1>13, <1>14, <1>15, ThreadStepOK DEF ThreadOK

-----------------------------------------------------------------------------
(* The steps of the addon manager and of the extensions.                   *)

\* One extension moves on.
LEMMA LifeEffect ==
  ASSUME Types, NEW t \in Threads, NEW x \in Names, NEW l \in Lives,
         life' = [life EXCEPT ![<<t, x>>] = l]
  PROVE  /\ life' \in [Exts -> Lives] /\ life'[<<t, x>>] = l
         /\ \A y \in Names \ {x} : life'[<<t, y>>] = life[<<t, y>>]
         /\ \A u \in Threads \ {t}, y \in Names : life'[<<u, y>>] = life[<<u, y>>]
  BY DEF Types, Exts

\* The addon manager has answered for one extension.
LEMMA StepAddonCreated ==
  ASSUME IInv, NEW t \in Threads, NEW x \in Names, AddonCreated(t, x)
  PROVE  IInv'
<1> USE DEF engineVars, threadVars
<1>1. /\ life[<<t, x>>] = "creating"
      /\ UNCHANGED <<thread_q, engineVars, state, close_triggered, cnt_of_deleted>>
  BY DEF AddonCreated
<1>2. PICK l \in {"init", "failed"} : life' = [life EXCEPT ![<<t, x>>] = l]
  BY DEF AddonCreated
<1>3. Types /\ StartOK(t) /\ CloseOK(t) /\ LivesOK(t)
  BY DEF IInv, ThreadOK
<1>4. /\ life' \in [Exts -> Lives] /\ life'[<<t, x>>] = l
      /\ \A y \in Names \ {x} : life'[<<t, y>>] = life[<<t, y>>]
      /\ \A u \in Threads \ {t}, y \in Names : life'[<<u, y>>] = life[<<u, y>>]
  <2>1. l \in Lives
    BY DEF Lives
  <2> QED
    BY <1>2, <1>3, <2>1, LifeEffect
<1>5. Creating(t) /\ state[t] = "CREATING" /\ extensions[t] = {} /\ wanted[t] \subseteq Names
  BY <1>1, <1>3 DEF Creating, LivesOK, Types
<1>6. /\ ~Has(engine_q, FindInfo(t)) /\ ~Has(thread_q[t], "start") /\ ~Has(thread_q[t], "stop")
      /\ ~Has(thread_q[t], "all_deleted") /\ ~Leaving(t)
  BY <1>3, <1>5 DEF StartOK, CloseOK
<1>7. Gone(t)' = Gone(t)
  BY <1>1, <1>4 DEF Gone
<1>8. t \in NotReady /\ (t \in Destroyed' <=> t \in Destroyed)
  BY <1>1, <1>5 DEF NotReady, Destroyed
<1>9. CASE \A y \in wanted[t] \ {x} : life[<<t, y>>] # "creating"
  <2> DEFINE created == {y \in wanted[t] : life'[<<t, y>>] = "init"}
  <2>1. /\ extensions' = [extensions EXCEPT ![t] = created]
        /\ engine_q' = Append(engine_q, FindInfo(t))
        /\ err_before_ready' \in {err_before_ready, err_before_ready \cup {t}}
    <3>1. CreateExtensionsDone(t, life')
      BY <1>9 DEF AddonCreated
    <3> QED
      BY <3>1 DEF CreateExtensionsDone, AddAllCreatedExtensions, PostToEngine, FindInfo
  <2>2. /\ engine_q' \in Seq(EngineTasks)
        /\ \A y : Has(engine_q', y) <=> Has(engine_q, y) \/ y = FindInfo(t)
        /\ \A y : Once(engine_q, y) /\ (y = FindInfo(t) => ~Has(engine_q, y)) =>
                    Once(engine_q', y)
    BY <1>3, <2>1, EngineTaskKinds, EnginePosted
  <2>3. created \subseteq Names
    BY <1>5
  <2>4. /\ extensions' \in [Threads -> SUBSET Names] /\ extensions'[t] = created
        /\ \A u \in Threads \ {t} : extensions'[u] = extensions[u]
    BY <1>3, <2>1, <2>3 DEF Types
  <2>5. ~Creating(t)'
    BY <1>3, <1>4, <1>9 DEF Creating, LivesOK
  <2>6. \A y \in Names :
          /\ life'[<<t, y>>] \in {"absent", "init", "failed"}
          /\ life'[<<t, y>>] = "init" => y \in wanted[t]
    BY <1>1, <1>3, <1>4, <1>5, <2>5 DEF Creating, LivesOK
  <2>7. \A y \in Names : y \in created <=> life'[<<t, y>>] = "init"
    BY <2>6
  <2> HIDE DEF created
  <2>8. Types'
    BY <1>1, <1>3, <1>4, <2>1, <2>2, <2>4 DEF Types
  <2>9. StartOK(t)'
    BY <1>1, <1>3, <1>5, <1>6, <2>2, <2>5 DEF StartOK
  <2>10. ~Leaving(t)'
    BY <1>1, <1>6, <2>2, EngineTaskKinds DEF Leaving, Ended
  <2>11. CloseOK(t)'
    BY <1>1, <1>3, <1>5, <1>6, <2>2, <2>10, EngineTaskKinds DEF CloseOK, Leaving, Ended
  <2>12. LivesOK(t)'
    BY <1>1, <1>5, <2>4, <2>5, <2>6, <2>7 DEF LivesOK
  <2>13. \A u \in Threads \ {t} : Same(u)
    BY <1>1, <1>4, <2>2, <2>4, EngineTaskKinds DEF Same
  <2> QED
    BY <1>1, <1>7, <1>8, <2>8, <2>9, <2>11, <2>12, <2>13, ThreadStepOK DEF ThreadOK
<1>10. CASE ~(\A y \in wanted[t] \ {x} : life[<<t, y>>] # "creating")
  <2>1. /\ UNCHANGED <<extensions, engine_q>>
        /\ err_before_ready' \in {err_before_ready, err_before_ready \cup {t}}
    <3>1. /\ UNCHANGED <<extensions, engine_q>>
          /\ err_before_ready' \in
               {err_before_ready, err_before_ready \cup {u \in {t} : life'[<<u, x>>] = "failed"}}
      BY <1>10 DEF AddonCreated
    <3>2. {u \in {t} : life'[<<u, x>>] = "failed"} \in {{}, {t}}
      OBVIOUS
    <3> QED
      BY <3>1, <3>2
  <2>2. Creating(t)'
    BY <1>4, <1>5, <1>10 DEF Creating
  <2>3. Types'
    BY <1>1, <1>3, <1>4, <2>1 DEF Types
  <2>4. StartOK(t)'
    BY <1>1, <1>3, <1>5, <1>6, <2>1 DEF StartOK
  <2>5. CloseOK(t)'
    BY <1>1, <1>3, <1>5, <1>6, <2>1 DEF CloseOK, Leaving, Ended
  <2>6. LivesOK(t)'
    BY <1>1, <1>3, <1>4, <1>5, <2>1, <2>2 DEF LivesOK
  <2>7. \A u \in Threads \ {t} : Same(u)
    BY <1>1, <1>4, <2>1 DEF Same
  <2> QED
    BY <1>1, <1>7, <1>8, <2>1, <2>3, <2>4, <2>5, <2>6, <2>7, ThreadStepOK DEF ThreadOK
<1> QED
  BY <1>9, <1>10

\* The addon manager has destroyed one extension.
LEMMA StepAddonDestroyed ==
  ASSUME IInv, NEW t \in Threads, NEW x \in Names, AddonDestroyed(t, x)
  PROVE  IInv'
<1> USE DEF engineVars, threadVars
<1>1. /\ life[<<t, x>>] = "deleted" /\ life' = [life EXCEPT ![<<t, x>>] = "destroyed"]
      /\ UNCHANGED <<engine_q, engineVars, threadVars>>
  BY DEF AddonDestroyed
<1>2. Types /\ StartOK(t) /\ CloseOK(t) /\ LivesOK(t)
  BY DEF IInv, ThreadOK
<1>3. /\ life' \in [Exts -> Lives] /\ life'[<<t, x>>] = "destroyed"
      /\ \A y \in Names \ {x} : life'[<<t, y>>] = life[<<t, y>>]
      /\ \A u \in Threads \ {t}, y \in Names : life'[<<u, y>>] = life[<<u, y>>]
  <2>1. "destroyed" \in Lives
    BY DEF Lives
  <2> QED
    BY <1>1, <1>2, <2>1, LifeEffect
<1>4. /\ x \in extensions[t] /\ state[t] = "PREPARE_TO_CLOSE" /\ close_triggered[t]
      /\ ~Leaving(t) /\ ~Has(thread_q[t], "all_deleted") /\ extensions[t] \subseteq Names
  <2>1. x \in extensions[t] /\ extensions[t] \subseteq Names
    BY <1>1, <1>2 DEF LivesOK, Types
  <2>2. ~Leaving(t)
    BY <1>2, <2>1 DEF CloseOK
  <2>3. state[t] = "PREPARE_TO_CLOSE"
    BY <1>1, <1>2, <2>2 DEF LivesOK, Leaving, Ended
  <2> QED
    BY <1>1, <1>2, <2>1, <2>2, <2>3 DEF CloseOK
<1>5. ~Creating(t) /\ ~Creating(t)' /\ Gone(t)' = Gone(t)
  <2>1. ~Creating(t)
    BY <1>2, <1>4 DEF LivesOK
  <2>2. ~Creating(t)'
    BY <1>3, <2>1 DEF Creating
  <2>3. Gone(t)' = Gone(t)
    BY <1>1, <1>3 DEF Gone
  <2> QED
    BY <2>1, <2>2, <2>3
<1>6. LivesOK(t)'
  BY <1>1, <1>2, <1>3, <1>4, <1>5 DEF LivesOK
<1>7. /\ t \in NotReady' => t \in NotReady
      /\ t \in Destroyed' <=> t \in Destroyed
  BY <1>1, <1>5 DEF NotReady, Destroyed
<1> DEFINE q == thread_q[t]
           r == thread_q'[t]
<1>8. /\ thread_q' \in [Threads -> Seq(ThreadTasks)]
      /\ \A u \in Threads \ {t} : thread_q'[u] = thread_q[u]
      /\ \A y : Has(q, y) => Has(r, y)
      /\ \A y : Has(r, y) => Has(q, y) \/ (y = "all_deleted" /\
                  \A z \in Names : z \in extensions[t] => life'[<<t, z>>] = "destroyed")
      /\ \A y : Once(q, y) /\ (y = "all_deleted" => ~Has(q, y)) => Once(r, y)
      /\ \A y, z : Before(q, y, z) /\ y # "all_deleted" => Before(r, y, z)
  <2>1. CASE \A y \in extensions[t] \ {x} : life[<<t, y>>] = "destroyed"
    <3>1. "all_deleted" \in ThreadTasks
      BY DEF ThreadTasks
    <3>2. thread_q' = [thread_q EXCEPT ![t] = Append(@, "all_deleted")]
      BY <2>1 DEF AddonDestroyed
    <3>3. \A z \in Names : z \in extensions[t] => life'[<<t, z>>] = "destroyed"
      BY <1>3, <2>1
    <3>4. /\ thread_q' \in [Threads -> Seq(ThreadTasks)]
          /\ \A u \in Threads \ {t} : thread_q'[u] = thread_q[u]
          /\ \A y : Has(r, y) <=> Has(q, y) \/ y = "all_deleted"
          /\ \A y : Once(q, y) /\ (y = "all_deleted" => ~Has(q, y)) => Once(r, y)
          /\ \A y, z : Before(q, y, z) /\ y # "all_deleted" => Before(r, y, z)
      BY <1>2, <3>1, <3>2, PostToThread
    <3> QED
      BY <3>3, <3>4
  <2>2. CASE ~(\A y \in extensions[t] \ {x} : life[<<t, y>>] = "destroyed")
    <3>1. thread_q' = thread_q
      BY <2>2 DEF AddonDestroyed
    <3> QED
      BY <1>2, <3>1 DEF Types
  <2> QED
    BY <2>1, <2>2
<1>9. Types'
  BY <1>1, <1>2, <1>3, <1>8 DEF Types
<1>10. StartOK(t)'
  BY <1>1, <1>2, <1>5, <1>8 DEF StartOK
<1>11. ~Leaving(t)'
  BY <1>1, <1>4, <1>8 DEF Leaving, Ended
<1>12. CloseOK(t)'
  BY <1>1, <1>2, <1>4, <1>8, <1>11 DEF CloseOK, Leaving, Ended
<1>13. \A u \in Threads \ {t} : Same(u)
  BY <1>1, <1>3, <1>8 DEF Same
<1> QED
  BY <1>1, <1>5, <1>6, <1>7, <1>9, <1>10, <1>12, <1>13, ThreadStepOK DEF ThreadOK

\* One extension of a thread moves on in its life.
LEMMA StepExtension ==
  ASSUME IInv, NEW t \in Threads, NEW x \in Names, NEW l \in Lives,
         life' = [life EXCEPT ![<<t, x>>] = l],
         \/ /\ life[<<t, x>>] \in {"on_xxx", "xxx_done"}
            /\ l \in {"on_xxx", "xxx_done"} \/ (l = "stopping" /\ close_triggered[t])
         \/ life[<<t, x>>] = "stopping" /\ l = "deinit_done"
         \/ life[<<t, x>>] = "deinit_done" /\ l = "deleted",
         cnt_of_deleted' = IF l = "deleted" THEN [cnt_of_deleted EXCEPT ![t] = @ + 1]
                           ELSE cnt_of_deleted,
         UNCHANGED <<engine_q, thread_q, engineVars, state, close_triggered, err_before_ready,
                     extensions>>
  PROVE  IInv'
<1> USE DEF engineVars, threadVars
<1>1. Types /\ StartOK(t) /\ CloseOK(t) /\ LivesOK(t)
  BY DEF IInv, ThreadOK
<1>2. /\ life' \in [Exts -> Lives] /\ life'[<<t, x>>] = l
      /\ \A y \in Names \ {x} : life'[<<t, y>>] = life[<<t, y>>]
      /\ \A u \in Threads \ {t}, y \in Names : life'[<<u, y>>] = life[<<u, y>>]
  BY <1>1, LifeEffect
<1>3. /\ x \in extensions[t] /\ ~Has(thread_q[t], "all_deleted")
      /\ state[t] \in {"NORMAL", "PREPARE_TO_CLOSE", "CLOSED", "DESTROYED"}
  BY <1>1 DEF LivesOK, CloseOK
<1>4. ~Leaving(t) /\ state[t] \in {"NORMAL", "PREPARE_TO_CLOSE"}
  BY <1>1, <1>3 DEF CloseOK, Leaving, Ended
<1>5. ~Creating(t) /\ ~Creating(t)'
  <2>1. ~Creating(t)
    BY <1>1, <1>3 DEF LivesOK
  <2> QED
    BY <1>2, <2>1 DEF Creating
<1>6. LivesOK(t)'
  <2>1. l \in {"stopping", "deinit_done", "deleted"} => state[t] = "PREPARE_TO_CLOSE"
    BY <1>1, <1>4 DEF CloseOK, LivesOK
  <2> QED
    BY <1>1, <1>2, <1>3, <1>4, <1>5, <2>1 DEF LivesOK
<1>7. StartOK(t)'
  BY <1>1, <1>5 DEF StartOK
<1>8. CloseOK(t)'
  BY <1>1, <1>3 DEF CloseOK, Leaving, Ended
<1>9. cnt_of_deleted' \in [Threads -> Nat]
      /\ \A u \in Threads \ {t} : cnt_of_deleted'[u] = cnt_of_deleted[u]
  BY <1>1 DEF Types
<1>10. Types'
  BY <1>1, <1>2, <1>9 DEF Types
<1>11. cnt_of_deleted'[t] = Cardinality(Gone(t)')
  <2>1. cnt_of_deleted[t] = Cardinality(Gone(t))
    BY DEF IInv, Counts
  <2>2. CASE l = "deleted"
    <3>1. Gone(t)' = Gone(t) \cup {x} /\ x \notin Gone(t)
      BY <1>2, <2>2 DEF Gone
    <3>2. IsFiniteSet(Gone(t))
      BY GraphAssumption, FS_Subset DEF Gone
    <3>3. Cardinality(Gone(t)') = Cardinality(Gone(t)) + 1
      BY <3>1, <3>2, FS_AddElement
    <3> QED
      BY <1>1, <2>1, <2>2, <3>3 DEF Types
  <2>3. CASE l # "deleted"
    <3>1. Gone(t)' = Gone(t)
      BY <1>2, <2>3 DEF Gone
    <3> QED
      BY <2>1, <2>3, <3>1
  <2> QED
    BY <2>2, <2>3
<1>12. \A u \in Threads \ {t} : Same(u)
  BY <1>2 DEF Same
<1>13. /\ t \in NotReady' => t \in NotReady
       /\ t \in Destroyed' <=> t \in Destroyed
  BY <1>5 DEF NotReady, Destroyed
<1> QED
  BY <1>6, <1>7, <1>8, <1>9, <1>10, <1>11, <1>12, <1>13, ThreadStepCounts DEF ThreadOK

\* The steps of an extension.
LEMMA StepExtensions ==
  ASSUME IInv, NEW e \in Exts, ExtensionStep(e) \/ ExtensionNext(e)
  PROVE  IInv'
<1> USE DEF engineVars, threadVars
<1>1. PICK t \in Threads, x \in Names : e = <<t, x>>
  BY DEF Exts
<1>2. CASE ExtensionDone(e)
  <2>1. e[1] = t
    BY <1>1
  <2>2. PICK l \in {"stopping", "xxx_done"} :
          /\ life' = [life EXCEPT ![<<t, x>>] = l]
          /\ l = "stopping" => close_triggered[t]
    BY <1>1, <1>2, <2>1 DEF ExtensionDone
  <2>3. l \in Lives /\ life[<<t, x>>] = "on_xxx"
        /\ UNCHANGED <<engine_q, thread_q, engineVars, threadVars>>
    BY <1>1, <1>2 DEF ExtensionDone, Lives
  <2> QED
    BY <2>2, <2>3, StepExtension
<1>3. CASE ExtensionNext(e)
  <2>1. /\ life' = [life EXCEPT ![<<t, x>>] = "on_xxx"] /\ "on_xxx" \in Lives
        /\ life[<<t, x>>] = "xxx_done"
        /\ UNCHANGED <<engine_q, thread_q, engineVars, threadVars>>
    BY <1>1, <1>3 DEF ExtensionNext, Lives
  <2> QED
    BY <2>1, StepExtension
<1>4. CASE ExtensionDeinitDone(e)
  <2>1. /\ life' = [life EXCEPT ![<<t, x>>] = "deinit_done"] /\ "deinit_done" \in Lives
        /\ life[<<t, x>>] = "stopping"
        /\ UNCHANGED <<engine_q, thread_q, engineVars, threadVars>>
    BY <1>1, <1>4 DEF ExtensionDeinitDone, Lives
  <2> QED
    BY <2>1, StepExtension
<1>5. CASE DelExtension(e)
  <2>1. e[1] = t
    BY <1>1
  <2>2. /\ life' = [life EXCEPT ![<<t, x>>] = "deleted"] /\ "deleted" \in Lives
        /\ life[<<t, x>>] = "deinit_done"
        /\ cnt_of_deleted' = [cnt_of_deleted EXCEPT ![t] = @ + 1]
        /\ UNCHANGED <<engine_q, thread_q, engineVars, state, close_triggered,
                       err_before_ready, extensions>>
    BY <1>1, <1>5, <2>1 DEF DelExtension, Lives
  <2> QED
    BY <2>2, StepExtension
<1> QED
  BY <1>2, <1>3, <1>4, <1>5 DEF ExtensionStep

-----------------------------------------------------------------------------
(* The steps of the engine.                                                *)

\* A step that touches no thread.
LEMMA NoThreadStep ==
  ASSUME IInv, Types', \A u \in Threads : Same(u),
         UNCHANGED <<cnt_of_ready, cnt_of_closed, cnt_of_deleted, total_cnt, engine_closed,
                     start_results, is_closing, extension_threads>>
  PROVE  IInv'
<1>1. \A u \in Threads : /\ ThreadOK(u)' /\ Gone(u)' = Gone(u)
                         /\ u \in NotReady' <=> u \in NotReady
                         /\ u \in Destroyed' <=> u \in Destroyed
  BY OtherThread DEF IInv
<1>2. NotReady' \subseteq NotReady
  BY <1>1 DEF NotReady
<1>3. Destroyed' = Destroyed
  <2>1. Destroyed \subseteq Threads /\ Destroyed' \subseteq Threads
    BY DEF Destroyed
  <2> QED
    BY <1>1, <2>1
<1>4. \A u \in Threads : cnt_of_deleted'[u] = Cardinality(Gone(u)')
  BY <1>1 DEF IInv, Counts
<1>5. Counts'
  BY <1>2, <1>3, <1>4, CountsStay DEF IInv
<1> QED
  BY <1>1, <1>5 DEF IInv

\* The engine is asked to close.
LEMMA StepCloseEngineAsync ==
  ASSUME IInv, CloseEngineAsync
  PROVE  IInv'
<1> USE DEF threadVars
<1>1. /\ engine_q' = Append(engine_q, <<"close">>)
      /\ UNCHANGED <<thread_q, wanted, is_closing, extension_threads, cnt_of_ready,
                     cnt_of_closed, total_cnt, engine_closed, start_results, threadVars, life>>
  BY DEF CloseEngineAsync, PostToEngine
<1>2. Types
  BY DEF IInv
<1>3. /\ engine_q' \in Seq(EngineTasks)
      /\ \A x : Has(engine_q', x) <=> Has(engine_q, x) \/ x = <<"close">>
      /\ \A x : Once(engine_q, x) /\ (x = <<"close">> => ~Has(engine_q, x)) => Once(engine_q', x)
  BY <1>1, <1>2, EngineTaskKinds, EnginePosted
<1>4. close_requests' \in 0 .. MaxCloseRequests
  BY <1>2, GraphAssumption DEF CloseEngineAsync, Types
<1>5. Types'
  BY <1>1, <1>2, <1>3, <1>4 DEF Types
<1>6. \A u \in Threads : Same(u)
  BY <1>1, <1>3, EngineTaskKinds DEF Same
<1> QED
  BY <1>1, <1>5, <1>6, NoThreadStep

\* The engine begins to close, or is closing already.
LEMMA StepCloseEngine ==
  ASSUME IInv, CloseEngine
  PROVE  IInv'
<1> USE DEF threadVars
<1>1. /\ EngineRuns(<<"close">>) /\ engine_q' = Tail(engine_q) /\ is_closing' = TRUE
      /\ UNCHANGED <<wanted, close_requests, extension_threads, cnt_of_ready, start_results,
                     threadVars, life>>
  BY DEF CloseEngine
<1>2. Types
  BY DEF IInv
<1>3. /\ engine_q' \in Seq(EngineTasks)
      /\ \A x : Has(engine_q, x) <=> Has(engine_q', x) \/ x = <<"close">>
      /\ \A x : Once(engine_q, x) => Once(engine_q', x)
  BY <1>1, <1>2, EngineTaken
<1>4. CASE is_closing
  <2>1. UNCHANGED <<cnt_of_closed, total_cnt, engine_closed, thread_q>>
    BY <1>4 DEF CloseEngine
  <2>2. is_closing' = is_closing
    BY <1>1, <1>2, <1>4 DEF Types
  <2>3. Types'
    BY <1>1, <1>2, <1>3, <2>1 DEF Types
  <2>4. \A u \in Threads : Same(u)
    BY <1>1, <1>3, <2>1, <2>2, EngineTaskKinds DEF Same
  <2> QED
    BY <1>1, <2>1, <2>2, <2>3, <2>4, NoThreadStep
<1>5. CASE ~is_closing
  <2>1. ten_extension_context_close
    BY <1>5 DEF CloseEngine
  <2>2. \A u \in Threads : ~close_triggered[u] /\ ~Leaving(u) /\ ~Has(thread_q[u], "close")
    BY <1>5 DEF IInv, ThreadOK, CloseOK, StartOK
  <2>3. extension_threads = Threads
    <3>1. \A u \in Threads : u \in extension_threads
      BY <2>2 DEF IInv, ThreadOK, CloseOK, Leaving
    <3> QED
      BY <1>2, <3>1 DEF Types
  <2>4. \A u \in Threads : thread_q'[u] = Append(thread_q[u], "close")
    BY <2>1, <2>3 DEF ten_extension_context_close
  <2>5. \A u \in Threads :
          /\ thread_q'[u] \in Seq(ThreadTasks)
          /\ \A x : Has(thread_q'[u], x) <=> Has(thread_q[u], x) \/ x = "close"
          /\ \A x : Once(thread_q[u], x) /\ (x = "close" => ~Has(thread_q[u], x)) =>
                      Once(thread_q'[u], x)
          /\ \A x, y : Before(thread_q[u], x, y) /\ x # "close" => Before(thread_q'[u], x, y)
    <3>1. "close" \in ThreadTasks /\ \A u \in Threads : thread_q[u] \in Seq(ThreadTasks)
      BY <1>2 DEF Types, ThreadTasks
    <3> TAKE u \in Threads
    <3>2. thread_q[u] \in Seq(ThreadTasks) /\ thread_q'[u] = Append(thread_q[u], "close")
      BY <2>4, <3>1
    <3> QED
      BY <3>1, <3>2, AppendQueue
  <2>6. /\ Cardinality(Threads) \in Nat
        /\ cnt_of_closed' = 0 /\ total_cnt' = Cardinality(Threads)
        /\ engine_closed' = (Threads = {})
    BY <2>1, <2>3, GraphAssumption, FS_CardinalityType DEF ten_extension_context_close
  <2>7. Types'
    <3>1. thread_q' \in [Threads -> Seq(ThreadTasks)]
      <4>1. thread_q' = [u \in Threads |-> thread_q'[u]]
        BY <2>1 DEF ten_extension_context_close
      <4> QED
        BY <2>5, <4>1
    <3>2. engine_closed' \in BOOLEAN
      BY <2>6
    <3> QED
      BY <1>1, <1>2, <1>3, <2>6, <3>1, <3>2 DEF Types
  <2>8. ASSUME NEW u \in Threads
        PROVE  /\ ThreadOK(u)' /\ Gone(u)' = Gone(u)
               /\ u \in NotReady' <=> u \in NotReady
               /\ u \notin Destroyed'
    <3>1. StartOK(u) /\ CloseOK(u) /\ LivesOK(u)
      BY DEF IInv, ThreadOK
    <3>2. LivesOK(u)' /\ (Creating(u)' <=> Creating(u)) /\ Gone(u)' = Gone(u)
      BY <1>1, <3>1, LivesStay
    <3>3. /\ Has(engine_q', FindInfo(u)) <=> Has(engine_q, FindInfo(u))
          /\ Has(engine_q', Remove(u)) <=> Has(engine_q, Remove(u))
          /\ Has(engine_q', Closed(u)) <=> Has(engine_q, Closed(u))
      BY <1>3, EngineTaskKinds
    <3>4. StartOK(u)'
      BY <1>1, <1>3, <2>2, <2>5, <3>1, <3>2, <3>3 DEF StartOK
    <3>5. CloseOK(u)'
      BY <1>1, <1>3, <2>2, <2>5, <3>1, <3>3 DEF CloseOK, Leaving, Ended
    <3>6. u \in NotReady' <=> u \in NotReady
      BY <1>1, <3>2, <3>3 DEF NotReady
    <3>7. u \notin Destroyed'
      BY <1>1, <2>2 DEF Destroyed, Leaving, Ended
    <3> QED
      BY <3>2, <3>4, <3>5, <3>6, <3>7 DEF ThreadOK
  <2>9. Counts'
    <3>1. Destroyed' = {}
      BY <2>8 DEF Destroyed
    <3>2. NotReady' = NotReady
      <4>1. NotReady \subseteq Threads /\ NotReady' \subseteq Threads
        BY DEF NotReady
      <4> QED
        BY <2>8, <4>1
    <3>3. \A u \in Threads : cnt_of_deleted'[u] = Cardinality(Gone(u)')
      BY <1>1, <2>8 DEF IInv, Counts
    <3>4. engine_closed' => Destroyed' = Threads
      BY <2>6, <3>1
    <3>5. cnt_of_closed' = Cardinality(Destroyed')
      BY <2>6, <3>1, FS_EmptySet
    <3> QED
      BY <1>1, <2>6, <3>2, <3>3, <3>4, <3>5 DEF IInv, Counts
  <2> QED
    BY <2>7, <2>8, <2>9 DEF IInv
<1> QED
  BY <1>4, <1>5

\* The engine looks up the extensions of a thread and lets it go on.
LEMMA StepFindExtensionInfo ==
  ASSUME IInv, NEW t \in Threads, FindExtensionInfo(t)
  PROVE  IInv'
<1> USE DEF threadVars
<1>1. EngineRuns(FindInfo(t))
  BY DEF FindExtensionInfo, FindInfo
<1>2. UNCHANGED <<wanted, is_closing, close_requests, extension_threads, cnt_of_closed,
                  total_cnt, engine_closed, threadVars, life>>
  BY DEF FindExtensionInfo
<1>3. Types /\ StartOK(t) /\ CloseOK(t) /\ LivesOK(t)
  BY DEF IInv, ThreadOK
<1> DEFINE s == Tail(engine_q)
           q == thread_q[t]
           r == thread_q'[t]
<1>4. /\ s \in Seq(EngineTasks)
      /\ \A x : Has(engine_q, x) <=> Has(s, x) \/ x = FindInfo(t)
      /\ \A x : Once(engine_q, x) => Once(s, x) /\ (x = FindInfo(t) => ~Has(s, x))
  BY <1>1, <1>3, EngineTaken
<1>5. /\ Has(engine_q, FindInfo(t)) /\ ~Has(s, FindInfo(t))
      /\ state[t] = "CREATING" /\ ~Creating(t) /\ ~Has(q, "start") /\ ~Has(q, "stop")
  BY <1>3, <1>4 DEF StartOK
<1>6. LivesOK(t)' /\ (Creating(t)' <=> Creating(t)) /\ Gone(t)' = Gone(t)
  BY <1>2, <1>3, LivesStay
<1>7. ~Leaving(t)
  BY <1>3, <1>5 DEF CloseOK
<1>8. ASSUME NEW task \in {"start", "stop"}, task = "stop" => close_triggered[t],
             thread_q' = [thread_q EXCEPT ![t] = Append(@, task)],
             engine_q' = s \/ engine_q' = Append(s, <<"close">>)
      PROVE  /\ engine_q' \in Seq(EngineTasks) /\ thread_q' \in [Threads -> Seq(ThreadTasks)]
             /\ \A u \in Threads \ {t} : Same(u)
             /\ ThreadOK(t)' /\ t \in NotReady /\ t \notin NotReady'
             /\ (t \in Destroyed' <=> t \in Destroyed)
  <2>1. /\ thread_q' \in [Threads -> Seq(ThreadTasks)]
        /\ \A u \in Threads \ {t} : thread_q'[u] = thread_q[u]
        /\ \A x : Has(r, x) <=> Has(q, x) \/ x = task
        /\ \A x : Once(q, x) /\ (x = task => ~Has(q, x)) => Once(r, x)
        /\ \A x, y : Before(q, x, y) /\ x # task => Before(r, x, y)
    <3>1. task \in ThreadTasks
      BY DEF ThreadTasks
    <3> QED
      BY <1>3, <1>8, <3>1, PostToThread
  <2> HIDE DEF s
  <2>2. /\ engine_q' \in Seq(EngineTasks)
        /\ \A x : x # <<"close">> => (Has(engine_q', x) <=> Has(s, x))
        /\ \A x : x # <<"close">> /\ Once(s, x) => Once(engine_q', x)
    <3>1. CASE engine_q' = s
      BY <1>4, <3>1
    <3>2. CASE engine_q' = Append(s, <<"close">>)
      BY <1>4, <3>2, EngineTaskKinds, AppendQueue
    <3> QED
      BY <1>8, <3>1, <3>2
  <2>3. /\ ~Has(engine_q', FindInfo(t)) /\ Once(engine_q', FindInfo(t))
        /\ Has(engine_q', Remove(t)) <=> Has(engine_q, Remove(t))
        /\ Has(engine_q', Closed(t)) <=> Has(engine_q, Closed(t))
        /\ Once(engine_q, Remove(t)) => Once(engine_q', Remove(t))
        /\ Once(engine_q, Closed(t)) => Once(engine_q', Closed(t))
    BY <1>3, <1>4, <1>5, <2>2, EngineTaskKinds DEF StartOK
  <2>4. StartOK(t)'
    BY <1>2, <1>3, <1>5, <1>6, <1>8, <2>1, <2>3 DEF StartOK
  <2>5. ~Leaving(t)'
    BY <1>2, <1>7, <2>1, <2>3 DEF Leaving, Ended
  <2>6. CloseOK(t)'
    BY <1>2, <1>3, <1>5, <1>7, <2>1, <2>3, <2>5 DEF CloseOK, Leaving, Ended
  <2>7. \A u \in Threads \ {t} : Same(u)
    BY <1>2, <1>4, <2>1, <2>2, EngineTaskKinds DEF Same
  <2>8. t \in NotReady /\ t \notin NotReady' /\ (t \in Destroyed' <=> t \in Destroyed)
    BY <1>2, <1>5, <1>6, <2>3 DEF NotReady, Destroyed
  <2> QED
    BY <1>6, <2>1, <2>2, <2>4, <2>6, <2>7, <2>8 DEF ThreadOK
<1>9. CASE /\ close_triggered[t] /\ thread_q' = [thread_q EXCEPT ![t] = Append(@, "stop")]
           /\ engine_q' = s /\ UNCHANGED <<cnt_of_ready, start_results>>
  <2>1. /\ engine_q' \in Seq(EngineTasks) /\ thread_q' \in [Threads -> Seq(ThreadTasks)]
        /\ \A u \in Threads \ {t} : Same(u)
        /\ ThreadOK(t)' /\ t \notin NotReady' /\ (t \in Destroyed' <=> t \in Destroyed)
    BY <1>8, <1>9
  <2>2. Types'
    BY <1>2, <1>3, <1>9, <2>1 DEF Types
  <2> QED
    BY <1>2, <1>6, <1>9, <2>1, <2>2, ThreadStepOK
<1>10. CASE CheckIfAllReady(s) /\ thread_q' = [thread_q EXCEPT ![t] = Append(@, "start")]
  <2> DEFINE all == cnt_of_ready' = Cardinality(extension_threads)
  <2>1. /\ cnt_of_ready' = cnt_of_ready + 1
        /\ engine_q' = s \/ engine_q' = Append(s, <<"close">>)
        /\ ~all => start_results' = start_results
        /\ all => \E x \in {"ok", "error"} : start_results' = Append(start_results, x)
    BY <1>10 DEF CheckIfAllReady
  <2>2. /\ engine_q' \in Seq(EngineTasks) /\ thread_q' \in [Threads -> Seq(ThreadTasks)]
        /\ \A u \in Threads \ {t} : Same(u)
        /\ ThreadOK(t)' /\ t \in NotReady /\ t \notin NotReady'
        /\ (t \in Destroyed' <=> t \in Destroyed)
    BY <1>8, <1>10, <2>1
  <2>3. /\ cnt_of_ready \in Nat /\ Cardinality(extension_threads) \in Nat
        /\ start_results \in Seq({"ok", "error"}) /\ Len(start_results) <= 1
        /\ start_results # << >> => cnt_of_ready >= Cardinality(extension_threads)
    BY <1>3, GraphAssumption, FS_Subset, FS_CardinalityType DEF IInv, Counts, Types
  <2>4. /\ start_results' \in Seq({"ok", "error"}) /\ Len(start_results') <= 1
        /\ start_results' # << >> => cnt_of_ready' >= Cardinality(extension_threads')
    <3>1. CASE all
      <4>1. start_results = << >>
        BY <2>1, <2>3, <3>1
      <4>2. PICK x \in {"ok", "error"} : start_results' = Append(<< >>, x)
        BY <2>1, <3>1, <4>1
      <4> QED
        BY <1>2, <2>1, <2>3, <3>1, <4>2
    <3>2. CASE ~all
      BY <1>2, <2>1, <2>3, <3>2
    <3> QED
      BY <3>1, <3>2
  <2>5. Types'
    BY <1>2, <1>3, <2>1, <2>2, <2>3, <2>4 DEF Types
  <2>6. \A u \in Threads \ {t} : /\ ThreadOK(u)' /\ Gone(u)' = Gone(u)
                                 /\ u \in NotReady' <=> u \in NotReady
                                 /\ u \in Destroyed' <=> u \in Destroyed
    BY <2>2, OtherThread DEF IInv
  <2>7. NotReady' = NotReady \ {t} /\ Destroyed' = Destroyed
    <3>1. /\ NotReady \subseteq Threads /\ NotReady' \subseteq Threads
          /\ Destroyed \subseteq Threads /\ Destroyed' \subseteq Threads
      BY DEF NotReady, Destroyed
    <3>2. NotReady' = NotReady \ {t}
      <4>1. t \notin NotReady' /\ \A u \in Threads \ {t} : u \in NotReady' <=> u \in NotReady
        BY <2>2, <2>6
      <4> QED
        BY <3>1, <4>1
    <3>3. Destroyed' = Destroyed
      <4>1. \A u \in Threads : u \in Destroyed' <=> u \in Destroyed
        BY <2>2, <2>6
      <4> QED
        BY <3>1, <4>1
    <3> QED
      BY <3>2, <3>3
  <2>8. cnt_of_ready' + Cardinality(NotReady') <= Cardinality(Threads)
    <3>1. IsFiniteSet(NotReady) /\ Cardinality(Threads) \in Nat
      BY GraphAssumption, FS_Subset, FS_CardinalityType DEF NotReady
    <3>2. Cardinality(NotReady') = Cardinality(NotReady) - 1 /\ Cardinality(NotReady) \in Nat
      BY <2>2, <2>7, <3>1, FS_RemoveElement, FS_CardinalityType
    <3>3. cnt_of_ready + Cardinality(NotReady) <= Cardinality(Threads)
      BY DEF IInv, Counts
    <3> QED
      BY <2>1, <2>3, <3>1, <3>2, <3>3
  <2>9. \A u \in Threads : cnt_of_deleted'[u] = Cardinality(Gone(u)')
    BY <1>2, <1>6, <2>6 DEF IInv, Counts
  <2>10. Counts'
    BY <1>2, <2>4, <2>7, <2>8, <2>9 DEF IInv, Counts
  <2> QED
    BY <2>2, <2>5, <2>6, <2>10 DEF IInv
<1> QED
  BY <1>9, <1>10 DEF FindExtensionInfo

\* The engine removes a thread from its list.
LEMMA StepRemoveThread ==
  ASSUME IInv, NEW t \in Threads, RemoveThread(t)
  PROVE  IInv'
<1> USE DEF threadVars
<1>1. EngineRuns(Remove(t)) /\ engine_q' = Tail(engine_q)
  BY DEF RemoveThread, Remove
<1>2. /\ extension_threads' = extension_threads \ {t}
      /\ UNCHANGED <<wanted, is_closing, close_requests, cnt_of_ready, cnt_of_closed, total_cnt,
                     engine_closed, start_results, threadVars, life>>
  BY DEF RemoveThread
<1>3. Types /\ StartOK(t) /\ CloseOK(t) /\ LivesOK(t)
  BY DEF IInv, ThreadOK
<1> DEFINE q == thread_q[t]
           r == thread_q'[t]
<1>4. /\ engine_q' \in Seq(EngineTasks)
      /\ \A x : Has(engine_q, x) <=> Has(engine_q', x) \/ x = Remove(t)
      /\ \A x : Once(engine_q, x) => Once(engine_q', x) /\ (x = Remove(t) => ~Has(engine_q', x))
  BY <1>1, <1>3, EngineTaken
<1>5. /\ thread_q' \in [Threads -> Seq(ThreadTasks)]
      /\ \A u \in Threads \ {t} : thread_q'[u] = thread_q[u]
      /\ \A x : Has(r, x) <=> Has(q, x) \/ x = "removed"
      /\ \A x : Once(q, x) /\ (x = "removed" => ~Has(q, x)) => Once(r, x)
      /\ \A x, y : Before(q, x, y) /\ x # "removed" => Before(r, x, y)
  <2>1. /\ "removed" \in ThreadTasks
        /\ thread_q' = [thread_q EXCEPT ![t] = Append(@, "removed")]
    BY DEF ThreadTasks, RemoveThread
  <2> QED
    BY <1>3, <2>1, PostToThread
<1>6. /\ Has(engine_q, Remove(t)) /\ ~Has(engine_q', Remove(t)) /\ Leaving(t)
      /\ ~Has(q, "group_init_done") /\ ~Has(q, "removed") /\ ~Ended(t)
      /\ ~Has(q, "group_deinit_done")
  BY <1>3, <1>4 DEF CloseOK, Leaving
<1>7. LivesOK(t)' /\ (Creating(t)' <=> Creating(t)) /\ Gone(t)' = Gone(t)
  BY <1>2, <1>3, LivesStay
<1>8. Types'
  BY <1>2, <1>3, <1>4, <1>5 DEF Types
<1>9. StartOK(t)'
  BY <1>2, <1>3, <1>4, <1>5, <1>7, EngineTaskKinds DEF StartOK
<1>10. CloseOK(t)'
  BY <1>2, <1>3, <1>4, <1>5, <1>6, EngineTaskKinds DEF CloseOK, Leaving, Ended
<1>11. \A u \in Threads \ {t} : Same(u)
  BY <1>2, <1>4, <1>5, EngineTaskKinds DEF Same
<1>12. /\ t \in NotReady' => t \in NotReady
       /\ t \in Destroyed' <=> t \in Destroyed
  BY <1>2, <1>4, <1>7, EngineTaskKinds DEF NotReady, Destroyed
<1> QED
  BY <1>2, <1>7, <1>8, <1>9, <1>10, <1>11, <1>12, ThreadStepOK DEF ThreadOK

\* The engine joins a thread that has ended.
LEMMA StepThreadClosed ==
  ASSUME IInv, NEW t \in Threads, ThreadClosed(t)
  PROVE  IInv'
<1>1. EngineRuns(Closed(t)) /\ engine_q' = Tail(engine_q)
  BY DEF ThreadClosed, Closed
<1>2. /\ state' = [state EXCEPT ![t] = "DESTROYED"]
      /\ cnt_of_closed' = cnt_of_closed + 1
      /\ engine_closed' = (cnt_of_closed' = total_cnt)
  BY DEF ThreadClosed, SetState, ten_extension_context_on_close
<1>3. UNCHANGED <<thread_q, wanted, is_closing, close_requests, extension_threads,
                  cnt_of_ready, total_cnt, start_results, close_triggered, err_before_ready,
                  extensions, cnt_of_deleted, life>>
  BY DEF ThreadClosed
<1>4. Types /\ StartOK(t) /\ CloseOK(t) /\ LivesOK(t)
  BY DEF IInv, ThreadOK
<1>5. /\ engine_q' \in Seq(EngineTasks)
      /\ \A x : Has(engine_q, x) <=> Has(engine_q', x) \/ x = Closed(t)
      /\ \A x : Once(engine_q, x) => Once(engine_q', x) /\ (x = Closed(t) => ~Has(engine_q', x))
  BY <1>1, <1>4, EngineTaken
<1>6. /\ Has(engine_q, Closed(t)) /\ ~Has(engine_q', Closed(t)) /\ state[t] = "CLOSED"
      /\ Leaving(t) /\ Ended(t)
  BY <1>4, <1>5 DEF CloseOK, Leaving, Ended
<1>7. /\ state' \in [Threads -> States] /\ state'[t] = "DESTROYED"
      /\ \A u \in Threads \ {t} : state'[u] = state[u]
  BY <1>2, <1>4 DEF Types, States
<1>8. Ended(t)' /\ (Creating(t)' <=> Creating(t)) /\ Gone(t)' = Gone(t)
  BY <1>3, <1>7 DEF Ended, Creating, Gone
<1>9. Types'
  <2>1. cnt_of_closed' \in Nat /\ engine_closed' \in BOOLEAN
    BY <1>2, <1>4 DEF Types
  <2> QED
    BY <1>3, <1>4, <1>5, <1>7, <2>1 DEF Types
<1>10. ThreadOK(t)'
  <2>1. StartOK(t)'
    BY <1>3, <1>4, <1>5, <1>6, <1>7, <1>8, EngineTaskKinds DEF StartOK
  <2>2. CloseOK(t)'
    BY <1>3, <1>4, <1>5, <1>6, <1>7, <1>8, EngineTaskKinds DEF CloseOK, Leaving
  <2>3. LivesOK(t)'
    BY <1>3, <1>4, <1>6, <1>7, <1>8 DEF LivesOK
  <2> QED
    BY <2>1, <2>2, <2>3 DEF ThreadOK
<1>11. \A u \in Threads \ {t} : Same(u)
  BY <1>3, <1>5, <1>7, EngineTaskKinds DEF Same
<1>12. \A u \in Threads \ {t} : /\ ThreadOK(u)' /\ Gone(u)' = Gone(u)
                                /\ u \in NotReady' <=> u \in NotReady
                                /\ u \in Destroyed' <=> u \in Destroyed
  BY <1>11, OtherThread DEF IInv
<1>13. t \notin NotReady' /\ t \notin Destroyed /\ t \in Destroyed'
  <2>1. ~Creating(t) /\ ~Has(engine_q, FindInfo(t))
    BY <1>4, <1>6 DEF LivesOK, StartOK
  <2> QED
    BY <1>5, <1>6, <1>7, <1>8, <2>1 DEF NotReady, Destroyed
<1>14. NotReady' \subseteq NotReady /\ Destroyed' = Destroyed \cup {t}
  <2>1. /\ NotReady \subseteq Threads /\ NotReady' \subseteq Threads
        /\ Destroyed \subseteq Threads /\ Destroyed' \subseteq Threads
    BY DEF NotReady, Destroyed
  <2> QED
    BY <1>12, <1>13, <2>1
<1>15. Counts'
  <2>1. /\ IsFiniteSet(NotReady) /\ IsFiniteSet(Destroyed) /\ Cardinality(Threads) \in Nat
    BY GraphAssumption, FS_Subset, FS_CardinalityType DEF NotReady, Destroyed
  <2>2. cnt_of_closed' = Cardinality(Destroyed')
    <3>1. Cardinality(Destroyed') = Cardinality(Destroyed) + 1
      BY <1>13, <1>14, <2>1, FS_AddElement
    <3>2. cnt_of_closed = Cardinality(Destroyed)
      BY DEF IInv, Counts
    <3> QED
      BY <1>2, <3>1, <3>2
  <2>3. cnt_of_ready' + Cardinality(NotReady') <= Cardinality(Threads)
    <3>1. /\ Cardinality(NotReady) \in Nat /\ Cardinality(NotReady') \in Nat
          /\ Cardinality(NotReady') <= Cardinality(NotReady)
      BY <1>14, <2>1, FS_Subset, FS_CardinalityType
    <3>2. cnt_of_ready + Cardinality(NotReady) <= Cardinality(Threads) /\ cnt_of_ready \in Nat
      BY <1>4 DEF IInv, Counts, Types
    <3> QED
      BY <1>3, <2>1, <3>1, <3>2
  <2>4. is_closing /\ total_cnt = Cardinality(Threads)
    BY <1>4, <1>6 DEF CloseOK, IInv, Counts
  <2>5. engine_closed' => is_closing' /\ Destroyed' = Threads
    <3> SUFFICES ASSUME engine_closed' PROVE Destroyed' = Threads
      BY <1>3, <2>4
    <3>1. Cardinality(Destroyed') = Cardinality(Threads)
      BY <1>2, <2>2, <2>4
    <3>2. Destroyed' \subseteq Threads
      BY DEF Destroyed
    <3> QED
      BY <3>1, <3>2, GraphAssumption, FS_Subset
  <2>6. \A u \in Threads : cnt_of_deleted'[u] = Cardinality(Gone(u)')
    BY <1>3, <1>8, <1>12 DEF IInv, Counts
  <2> QED
    BY <1>3, <2>2, <2>3, <2>4, <2>5, <2>6 DEF IInv, Counts
<1> QED
  BY <1>9, <1>10, <1>12, <1>15 DEF IInv

-----------------------------------------------------------------------------
(* The invariant holds, and what follows from it.                          *)

\* The graph is about to start: every thread has its first task.
LEMMA InitIInv == Init => IInv
<1> SUFFICES ASSUME Init PROVE IInv
  OBVIOUS
<1>1. /\ engine_q = << >> /\ \A t \in Threads : thread_q[t] = <<"start_msg">>
      /\ \A t \in Threads : state[t] = "INIT" /\ extensions[t] = {} /\ ~close_triggered[t]
      /\ \A t \in Threads, x \in Names : life[<<t, x>>] = "absent"
  <2>1. \A t \in Threads, x \in Names : <<t, x>> \in Exts
    BY DEF Exts
  <2> QED
    BY <2>1 DEF Init
<1>2. Types
  <2>1. /\ engine_q \in Seq(EngineTasks) /\ start_results \in Seq({"ok", "error"})
        /\ thread_q \in [Threads -> Seq(ThreadTasks)]
    <3>1. <<"start_msg">> \in Seq(ThreadTasks)
      BY DEF ThreadTasks
    <3> QED
      BY <3>1 DEF Init
  <2>2. /\ state \in [Threads -> States] /\ life \in [Exts -> Lives]
        /\ cnt_of_deleted \in [Threads -> Nat] /\ extensions \in [Threads -> SUBSET Names]
        /\ close_triggered \in [Threads -> BOOLEAN] /\ close_requests \in 0 .. MaxCloseRequests
    BY GraphAssumption DEF Init, States, Lives
  <2> QED
    BY <2>1, <2>2 DEF Init, Types
<1>3. ASSUME NEW t \in Threads PROVE ThreadOK(t)
  <2>1. \A x : ~Has(engine_q, x) /\ Once(engine_q, x)
    BY <1>1, EmptyQueue
  <2>2. /\ \A x : Has(thread_q[t], x) <=> x = "start_msg"
        /\ \A x : Once(thread_q[t], x)
    <3>1. thread_q[t] = <<"start_msg">>
      BY <1>1
    <3>2. Len(<<"start_msg">>) = 1 /\ <<"start_msg">>[1] = "start_msg"
      OBVIOUS
    <3> QED
      BY <3>1, <3>2 DEF Has, Once
  <2>3. ~Creating(t) /\ ~Leaving(t) /\ ~Ended(t)
    BY <1>1, <2>1, <2>2 DEF Creating, Leaving, Ended
  <2>4. \A x, y : y # "start_msg" => Before(thread_q[t], x, y)
    BY <2>2 DEF Before, Has
  <2>5. StartOK(t)
    BY <1>1, <2>1, <2>2, <2>3, <2>4 DEF StartOK
  <2>6. CloseOK(t)
    BY <1>1, <2>1, <2>2, <2>3 DEF CloseOK, Init
  <2>7. LivesOK(t)
    BY <1>1, <2>3 DEF LivesOK
  <2> QED
    BY <2>5, <2>6, <2>7 DEF ThreadOK
<1>4. Counts
  <2>1. Cardinality({}) = 0 /\ Cardinality(Threads) \in Nat
    BY GraphAssumption, FS_EmptySet, FS_CardinalityType
  <2>2. Destroyed = {} /\ NotReady = Threads /\ \A t \in Threads : Gone(t) = {}
    BY <1>1 DEF Destroyed, NotReady, Gone
  <2>3. /\ \A t \in Threads : cnt_of_deleted[t] = 0
        /\ cnt_of_ready = 0 /\ cnt_of_closed = 0 /\ total_cnt = 0
        /\ start_results = << >> /\ Len(start_results) <= 1
    BY DEF Init
  <2>4. ~is_closing /\ ~engine_closed
    BY DEF Init
  <2>5. \A t \in Threads : cnt_of_deleted[t] = Cardinality(Gone(t))
    BY <2>1, <2>2, <2>3
  <2>6. /\ cnt_of_closed = Cardinality(Destroyed)
        /\ cnt_of_ready + Cardinality(NotReady) <= Cardinality(Threads)
    BY <2>1, <2>2, <2>3
  <2> QED
    BY <2>3, <2>4, <2>5, <2>6 DEF Counts
<1> QED
  BY <1>2, <1>3, <1>4 DEF IInv

\* Every step keeps the invariant.
LEMMA NextIInv == IInv /\ [Next]_vars => IInv'
<1> SUFFICES ASSUME IInv, [Next]_vars PROVE IInv'
  OBVIOUS
<1>1. ASSUME NEW t \in Threads, ThreadStep(t) PROVE IInv'
  BY <1>1, StepStartMsg, StepGroupInitDone, StepStartLifeCycle, StepTriggeringClose,
     StepStopTask, StepAllDeleted, StepGroupDeinitDone, StepRemovedFromEngine
  DEF ThreadStep
<1>2. CASE EngineStep
  BY <1>2, StepCloseEngine, StepFindExtensionInfo, StepRemoveThread, StepThreadClosed
  DEF EngineStep
<1>3. ASSUME NEW t \in Threads, NEW x \in Names, AddonStep(t, x) PROVE IInv'
  BY <1>3, StepAddonCreated, StepAddonDestroyed DEF AddonStep
<1>4. CASE UNCHANGED vars
  <2>1. Types'
    BY <1>4 DEF vars, IInv, Types
  <2>2. \A u \in Threads : Same(u)
    BY <1>4 DEF vars, Same
  <2> QED
    BY <1>4, <2>1, <2>2, NoThreadStep DEF vars
<1> QED
  BY <1>1, <1>2, <1>3, <1>4, StepCloseEngineAsync, StepExtensions DEF Next

\* The invariant holds in every behaviour, whatever the number of threads.
THEOREM Invariance == Spec => []IInv
  BY InitIInv, NextIInv, PTL DEF Spec

\* The engine has the extensions of a thread for itself while it looks up
\* their infos: whenever the close comes, the thread meanwhile neither starts,
\* stops nor deletes any of them.
THEOREM FindInfoAlone == Spec => []FindInfoExclusive
<1>1. IInv => FindInfoExclusive
  <2> SUFFICES ASSUME IInv, NEW t \in Threads, InEngineQueue(<<"find_info", t>>)
               PROVE  /\ state[t] = "CREATING"
                      /\ \A x \in extensions[t] : life[<<t, x>>] = "init"
    BY DEF FindInfoExclusive
  <2>1. Has(engine_q, FindInfo(t))
    BY DEF InEngineQueue, Has, FindInfo
  <2>2. state[t] = "CREATING" /\ extensions[t] \subseteq Names
    BY <2>1 DEF IInv, ThreadOK, StartOK, Types
  <2> QED
    BY <2>2 DEF IInv, ThreadOK, LivesOK
<1> QED
  BY <1>1, Invariance, PTL

\* A graph closes from the inside, for any number of threads and extensions
\* and whatever the race between start and close: a thread that has ended has
\* no extension left and no task refers to it, the engine ends after all its
\* threads, and no counter of the engine passes its total.
THEOREM InsideOut == Spec => []ClosesInOrder
<1>1. IInv => ClosesInOrder
  <2> SUFFICES ASSUME IInv PROVE ClosesInOrder
    OBVIOUS
  <2>1. TypeOK
    <3>1. /\ Cardinality(Threads) \in Nat /\ Cardinality(Names) \in Nat
          /\ Cardinality(Destroyed) \in Nat /\ Cardinality(Destroyed) <= Cardinality(Threads)
          /\ Cardinality(NotReady) \in Nat
      BY GraphAssumption, FS_Subset, FS_CardinalityType DEF Destroyed, NotReady
    <3>2. /\ cnt_of_ready \in 0 .. Cardinality(Threads)
          /\ cnt_of_closed \in 0 .. Cardinality(Threads)
          /\ total_cnt \in 0 .. Cardinality(Threads)
      BY <3>1 DEF IInv, Counts, Types
    <3>3. cnt_of_deleted \in [Threads -> 0 .. Cardinality(Names)]
      <4>1. \A t \in Threads : cnt_of_deleted[t] \in 0 .. Cardinality(Names)
        <5> TAKE t \in Threads
        <5>1. /\ Cardinality(Gone(t)) \in Nat /\ Cardinality(Gone(t)) <= Cardinality(Names)
          BY GraphAssumption, FS_Subset, FS_CardinalityType DEF Gone
        <5> QED
          BY <3>1, <5>1 DEF IInv, Counts
      <4> QED
        BY <4>1 DEF IInv, Types
    <3> QED
      BY <3>2, <3>3 DEF IInv, Types, TypeOK
  <2>2. ASSUME NEW t \in Threads, Ended(t) PROVE NoTaskOf(t) /\ ExtensionsGone(t)
    <3>1. StartOK(t) /\ CloseOK(t) /\ LivesOK(t) /\ Types
      BY DEF IInv, ThreadOK
    <3>2. /\ thread_q[t] = << >> /\ ~Has(engine_q, Remove(t)) /\ extensions[t] = {}
          /\ state[t] \notin {"CREATING", "NORMAL"}
          /\ Has(engine_q, Closed(t)) => state[t] = "CLOSED"
      BY <2>2, <3>1 DEF CloseOK, Leaving
    <3>3. ~Has(engine_q, FindInfo(t)) /\ ~Creating(t)
      BY <3>1, <3>2 DEF StartOK, LivesOK
    <3>4. ExtensionsGone(t)
      BY <3>1, <3>2, <3>3 DEF ExtensionsGone, LivesOK
    <3>5. ASSUME NEW i \in 1 .. Len(engine_q), engine_q[i] # <<"close">>, engine_q[i][2] = t
          PROVE  state[t] = "CLOSED" /\ engine_q[i][1] = "closed"
      <4>1. engine_q[i] \in EngineTasks
        BY <3>1 DEF Types
      <4>2. PICK k \in {"find_info", "remove", "closed"}, u \in Threads : engine_q[i] = <<k, u>>
        BY <3>5, <4>1 DEF EngineTasks
      <4>3. engine_q[i] = <<k, t>>
        BY <3>5, <4>2
      <4>4. Has(engine_q, <<k, t>>)
        BY <4>3 DEF Has
      <4> QED
        BY <3>2, <3>3, <4>3, <4>4 DEF FindInfo, Remove, Closed
    <3> QED
      BY <3>2, <3>4, <3>5 DEF NoTaskOf
  <2>3. ASSUME engine_closed
        PROVE  extension_threads = {} /\ \A t \in Threads : state[t] = "DESTROYED"
    <3>1. \A t \in Threads : state[t] = "DESTROYED"
      BY <2>3 DEF IInv, Counts, Destroyed
    <3>2. \A t \in Threads : t \notin extension_threads
      BY <3>1 DEF IInv, ThreadOK, CloseOK, Ended
    <3> QED
      BY <3>1, <3>2 DEF IInv, Types
  <2> QED
    BY <2>1, <2>2, <2>3 DEF ClosesInOrder
<1> QED
  BY <1>1, Invariance, PTL

\* The start_graph command is answered at most once, although threads leave
\* the list while others join the count it is compared with: the safety half
\* of StartIsAnswered.
THEOREM StartAnsweredAtMostOnce == Spec => [](Len(start_results) <= 1)
<1>1. IInv => Len(start_results) <= 1
  BY DEF IInv, Counts
<1> QED
  BY <1>1, Invariance, PTL
=============================================================================
