---------------------------- MODULE ThreadProofs ----------------------------
(***************************************************************************)
(* Theorems about what the threads of an app rest on: lock mode            *)
(* (LockMode), for any sets of threads and of proxies, and the runloop     *)
(* (Runloop), for any sets of threads and of tasks.                        *)
(***************************************************************************)
EXTENDS LockMode, Runloop, FiniteSetTheorems, QueueLemmas

-----------------------------------------------------------------------------
(* Lock mode: its inductive invariant.                                     *)

\* The tasks of lock mode.
Acquire(t) == <<"acquire", t>>
Deleted(p) == <<"deleted", p>>
Release == <<"release">>
Notify == <<"notify">>

\* Only a notification may be queued more than once.
TasksOnce == \A x \in Tasks : x # Notify => Once(tasks, x)

\* A thread has lock_mode_lock from TakeLockModeLock to ReleaseLockMode, the
\* lock of its proxy while it waits, in a notify and while it leaves; the
\* owner a proxy remembers is one of its threads.
LocksFollowThreads ==
  /\ \A t \in Threads :
       /\ lock_mode_lock = t <=> at[t] \in {"want_lock", "wait", "owner", "sync"}
       /\ lock[ProxyOf[t]] = t <=> at[t] \in {"wait", "sync", "leaving"}
       /\ at[t] \notin {"out", "gone"} => Holds(t)
  /\ \A p \in Proxies :
       /\ lock[p] # None => ProxyOf[lock[p]] = p
       /\ acquired[p] # None =>
            /\ ProxyOf[acquired[p]] = p
            /\ at[acquired[p]] \in {"wait", "owner", "sync", "leaving"}

\* in_lock_mode is set as long as the task that clears it is in the queue.
\* Meanwhile the extension thread is about to block, blocked, or has got
\* lock_mode_lock itself.
FlagFollowsTask ==
  /\ in_lock_mode <=> Has(tasks, Release)
  /\ ext_at \in {"acquire", "blocked"} => in_lock_mode
  /\ ext_at = "release" => ~in_lock_mode
  /\ lock_mode_lock = Ext <=>
       \/ ext_at = "release"
       \/ in_lock_mode /\ ext_at \notin {"acquire", "blocked"}

\* The thread that waits has its task in the queue until the extension thread
\* runs it, and is woken last; a thread uses the TEN world only while the
\* extension thread is blocked.
WaitingThread ==
  /\ ext_at = "acquire" =>
       lock_mode_lock \in Threads /\ at[lock_mode_lock] = "wait"
         /\ lock_mode_lock \notin completed
  /\ \A t \in Threads :
       /\ t \in completed => at[t] = "wait" /\ ext_at = "blocked"
       /\ at[t] \in {"owner", "sync"} => ext_at = "blocked"
       /\ Has(tasks, Acquire(t)) => at[t] = "wait" /\ t \notin completed /\ ~in_lock_mode

\* A proxy that is deleted or about to be has no holder.  Lock mode ends
\* before the last proxy goes: the task that ends it is in front of the
\* deletion of the proxy it was begun with.
ProxiesOutliveLockMode ==
  /\ \A p \in Proxies : Has(tasks, Deleted(p)) \/ p \in destroyed => holders[p] = {}
  /\ in_lock_mode => \E p \in Proxies : p \notin destroyed /\ Before(tasks, Release, Deleted(p))
  /\ ext_at = "release" => \E p \in Proxies : p \notin destroyed

\* The queue of tasks is well formed.
ModeQueue(s) ==
  /\ s \in Seq(Tasks)
  /\ \A i, j \in 1 .. Len(s) : s[i] = s[j] /\ s[i] # <<"notify">> => i = j
  /\ \A x \in Tasks : x # Notify => Once(s, x)

\* The inductive invariant of lock mode.
IInv ==
  /\ TypeOK /\ TasksOnce
  /\ LocksFollowThreads /\ FlagFollowsTask /\ WaitingThread /\ ProxiesOutliveLockMode

-----------------------------------------------------------------------------
(* The queue of tasks.                                                     *)

\* The tasks of different kinds are different, and so are those of one kind
\* for different threads or proxies.
LEMMA TaskKinds ==
  /\ Release \in Tasks /\ Notify \in Tasks /\ Release # Notify
  /\ \A t \in Threads : Acquire(t) \in Tasks /\ Acquire(t) # Release /\ Acquire(t) # Notify
  /\ \A p \in Proxies : Deleted(p) \in Tasks /\ Deleted(p) # Release /\ Deleted(p) # Notify
  /\ \A t \in Threads, p \in Proxies : Acquire(t) # Deleted(p)
  /\ \A t, u \in Threads : Acquire(t) = Acquire(u) => t = u
  /\ \A p, q \in Proxies : Deleted(p) = Deleted(q) => p = q
  BY DEF Tasks, Acquire, Deleted, Release, Notify

\* The queue of a state that satisfies the invariant, and back.
LEMMA QueueOfState == TypeOK /\ TasksOnce => ModeQueue(tasks)
  BY DEF TypeOK, TasksOnce, ModeQueue

\* A task is in the queue once, by its place or by its name.
LEMMA OnceEach ==
  ASSUME NEW s \in Seq(Tasks), \A x \in Tasks : x # Notify => Once(s, x)
  PROVE  ModeQueue(s)
<1> SUFFICES ASSUME NEW i \in 1 .. Len(s), NEW j \in 1 .. Len(s), s[i] = s[j], s[i] # Notify
             PROVE  i = j
  BY DEF ModeQueue, Notify
<1>1. s[i] \in Tasks
  OBVIOUS
<1> QED
  BY <1>1 DEF Once

\* A task is posted at the end.
LEMMA PostBack ==
  ASSUME NEW s, ModeQueue(s), NEW e \in Tasks, e = Notify \/ ~Has(s, e)
  PROVE  /\ ModeQueue(Append(s, e))
         /\ \A x : Has(Append(s, e), x) <=> Has(s, x) \/ x = e
         /\ \A x, y : Before(s, x, y) /\ x # e => Before(Append(s, e), x, y)
<1>1. s \in Seq(Tasks)
  BY DEF ModeQueue
<1>2. /\ Append(s, e) \in Seq(Tasks)
      /\ \A x : Has(Append(s, e), x) <=> Has(s, x) \/ x = e
      /\ \A x, y : Before(s, x, y) /\ x # e => Before(Append(s, e), x, y)
  BY <1>1, AppendQueue
<1>3. \A x \in Tasks : x # Notify => Once(Append(s, e), x)
  BY <1>1, AppendQueue DEF ModeQueue
<1> QED
  BY <1>2, <1>3, OnceEach

\* A task is posted in front.
LEMMA PostFront ==
  ASSUME NEW s, ModeQueue(s), NEW e \in Tasks, ~Has(s, e)
  PROVE  /\ ModeQueue(<<e>> \o s)
         /\ \A x : Has(<<e>> \o s, x) <=> Has(s, x) \/ x = e
         /\ \A x, y : Before(s, x, y) /\ y # e => Before(<<e>> \o s, x, y)
<1>1. s \in Seq(Tasks)
  BY DEF ModeQueue
<1>2. /\ <<e>> \o s \in Seq(Tasks)
      /\ \A x : Has(<<e>> \o s, x) <=> Has(s, x) \/ x = e
      /\ \A x, y : Before(s, x, y) /\ y # e => Before(<<e>> \o s, x, y)
  BY <1>1, ConsQueue
<1>3. \A x \in Tasks : x # Notify => Once(<<e>> \o s, x)
  BY <1>1, ConsQueue DEF ModeQueue
<1> QED
  BY <1>2, <1>3, OnceEach

\* The first task is taken.
LEMMA TakeFirst ==
  ASSUME NEW s, ModeQueue(s), s # << >>
  PROVE  /\ ModeQueue(Tail(s))
         /\ \A x : Has(s, x) <=> Has(Tail(s), x) \/ x = Head(s)
         /\ \A x \in Tasks : x = Head(s) /\ x # Notify => ~Has(Tail(s), x)
         /\ \A x, y : Before(s, x, y) => Before(Tail(s), x, y) /\ (y = Head(s) => ~Has(s, x))
<1>1. s \in Seq(Tasks)
  BY DEF ModeQueue
<1>2. /\ Tail(s) \in Seq(Tasks)
      /\ \A x : Has(s, x) <=> Has(Tail(s), x) \/ x = Head(s)
      /\ \A x, y : Before(s, x, y) => Before(Tail(s), x, y) /\ (y = Head(s) => ~Has(s, x))
  BY <1>1, TailQueue
<1>3. \A x \in Tasks : x # Notify => Once(Tail(s), x) /\ (x = Head(s) => ~Has(Tail(s), x))
  BY <1>1, TailQueue DEF ModeQueue
<1> QED
  BY <1>2, <1>3, OnceEach

-----------------------------------------------------------------------------
(* The invariant holds.                                                    *)

\* No task is posted and no thread is in lock mode at the start.
LEMMA InitIInv == Init => IInv
<1> SUFFICES ASSUME Init PROVE IInv
  OBVIOUS
<1> USE LockModeAssumption
<1>1. tasks \in Seq(Tasks) /\ Len(tasks) = 0
  BY DEF Init
<1>2. TypeOK
  <2>1. holders \in [Proxies -> SUBSET (Threads \cup {Ext})]
    BY DEF Init
  <2>2. calls \in 0 .. MaxCalls
    BY DEF Init
  <2>3. \A i, j \in 1 .. Len(tasks) : tasks[i] = tasks[j] /\ tasks[i] # <<"notify">> => i = j
    BY <1>1
  <2> QED
    BY <1>1, <2>1, <2>2, <2>3 DEF Init, TypeOK, ThreadAt, ExtAt
<1>3. TasksOnce
  BY <1>1 DEF TasksOnce, Once
<1>4. \A x : ~Has(tasks, x)
  BY <1>1 DEF Has
<1>5. LocksFollowThreads
  BY DEF Init, LocksFollowThreads
<1>6. FlagFollowsTask
  BY <1>4 DEF Init, FlagFollowsTask
<1>7. WaitingThread
  BY <1>4 DEF Init, WaitingThread
<1>8. ProxiesOutliveLockMode
  BY <1>4 DEF Init, ProxiesOutliveLockMode
<1> QED
  BY <1>2, <1>3, <1>5, <1>6, <1>7, <1>8 DEF IInv

\* A step that leaves the queue alone leaves what the queue holds alone.
LEMMA SameQueue ==
  ASSUME tasks' = tasks
  PROVE  /\ TasksOnce => TasksOnce'
         /\ \A x : Has(tasks, x)' <=> Has(tasks, x)
         /\ \A x, y : Before(tasks, x, y)' <=> Before(tasks, x, y)
  BY DEF TasksOnce, Once, Has, Before

\* Every step keeps the invariant: first the steps that leave the queue alone,
\* then the ones that post or take a task.
LEMMA NextIInv == IInv /\ [Next]_vars => IInv'
<1> SUFFICES ASSUME IInv, [Next]_vars PROVE IInv'
  OBVIOUS
<1> USE LockModeAssumption DEF IInv
<1>1. ASSUME NEW t \in Threads, WantLockMode(t) PROVE IInv'
  <2>1. tasks' = tasks
    BY <1>1 DEF WantLockMode, Moves, Call, Holds
  <2>2. TypeOK'
    BY <1>1 DEF WantLockMode, Moves, Call, Holds, TypeOK, ThreadAt, ExtAt
  <2>3. LocksFollowThreads'
    BY <1>1 DEF WantLockMode, Moves, Call, Holds, LocksFollowThreads, TypeOK
  <2>4. FlagFollowsTask'
    BY <1>1, <2>1, SameQueue
    DEF WantLockMode, Moves, Call, Holds, FlagFollowsTask, LocksFollowThreads, TypeOK
  <2>5. WaitingThread'
    BY <1>1, <2>1, SameQueue
    DEF WantLockMode, Moves, Call, Holds, WaitingThread, LocksFollowThreads, TypeOK
  <2>6. ProxiesOutliveLockMode'
    BY <1>1, <2>1, SameQueue
    DEF WantLockMode, Moves, Call, Holds, ProxiesOutliveLockMode, TypeOK
  <2> QED
    BY <2>1, <2>2, <2>3, <2>4, <2>5, <2>6, SameQueue
<1>2. ASSUME NEW t \in Threads, TakeLockModeLock(t) PROVE IInv'
  <2>1. tasks' = tasks
    BY <1>2 DEF TakeLockModeLock, Moves, Holds
  <2>2. TypeOK'
    BY <1>2 DEF TakeLockModeLock, Moves, Holds, TypeOK, ThreadAt, ExtAt
  <2>3. LocksFollowThreads'
    BY <1>2 DEF TakeLockModeLock, Moves, Holds, LocksFollowThreads, TypeOK
  <2>4. FlagFollowsTask'
    BY <1>2, <2>1, SameQueue
    DEF TakeLockModeLock, Moves, Holds, FlagFollowsTask, LocksFollowThreads, TypeOK
  <2>5. WaitingThread'
    BY <1>2, <2>1, SameQueue
    DEF TakeLockModeLock, Moves, Holds, WaitingThread, LocksFollowThreads, TypeOK
  <2>6. ProxiesOutliveLockMode'
    BY <1>2, <2>1, SameQueue DEF TakeLockModeLock, Moves, Holds, ProxiesOutliveLockMode, TypeOK
  <2> QED
    BY <2>1, <2>2, <2>3, <2>4, <2>5, <2>6, SameQueue
<1>3. ASSUME NEW t \in Threads, EnterLockMode(t) PROVE IInv'
  <2>1. tasks' = tasks
    BY <1>3 DEF EnterLockMode, Moves, SetLock, Holds
  <2>2. TypeOK'
    BY <1>3 DEF EnterLockMode, Moves, SetLock, Holds, TypeOK, ThreadAt, ExtAt
  <2>3. LocksFollowThreads'
    BY <1>3 DEF EnterLockMode, Moves, SetLock, Holds, LocksFollowThreads, TypeOK
  <2>4. FlagFollowsTask'
    BY <1>3, <2>1, SameQueue
    DEF EnterLockMode, Moves, SetLock, Holds, FlagFollowsTask, LocksFollowThreads, TypeOK
  <2>5. WaitingThread'
    BY <1>3, <2>1, SameQueue
    DEF EnterLockMode, Moves, SetLock, Holds, WaitingThread, LocksFollowThreads, TypeOK
  <2>6. ProxiesOutliveLockMode'
    BY <1>3, <2>1, SameQueue
    DEF EnterLockMode, Moves, SetLock, Holds, ProxiesOutliveLockMode, TypeOK
  <2> QED
    BY <2>1, <2>2, <2>3, <2>4, <2>5, <2>6, SameQueue
<1>4. ASSUME NEW t \in Threads, SyncNotify(t) PROVE IInv'
  <2>1. tasks' = tasks
    BY <1>4 DEF SyncNotify, Moves, SetLock, Holds
  <2>2. TypeOK'
    BY <1>4 DEF SyncNotify, Moves, SetLock, Holds, TypeOK, ThreadAt, ExtAt
  <2>3. LocksFollowThreads'
    BY <1>4 DEF SyncNotify, Moves, SetLock, Holds, LocksFollowThreads, TypeOK
  <2>4. FlagFollowsTask'
    BY <1>4, <2>1, SameQueue
    DEF SyncNotify, Moves, SetLock, Holds, FlagFollowsTask, LocksFollowThreads, TypeOK
  <2>5. WaitingThread'
    BY <1>4, <2>1, SameQueue
    DEF SyncNotify, Moves, SetLock, Holds, WaitingThread, LocksFollowThreads, TypeOK
  <2>6. ProxiesOutliveLockMode'
    BY <1>4, <2>1, SameQueue
    DEF SyncNotify, Moves, SetLock, Holds, ProxiesOutliveLockMode, TypeOK
  <2> QED
    BY <2>1, <2>2, <2>3, <2>4, <2>5, <2>6, SameQueue
<1>5. ASSUME NEW t \in Threads, SyncNotifyDone(t) PROVE IInv'
  <2>1. tasks' = tasks
    BY <1>5 DEF SyncNotifyDone, Moves, SetLock, Holds
  <2>2. TypeOK'
    BY <1>5 DEF SyncNotifyDone, Moves, SetLock, Holds, TypeOK, ThreadAt, ExtAt
  <2>3. LocksFollowThreads'
    BY <1>5 DEF SyncNotifyDone, Moves, SetLock, Holds, LocksFollowThreads, TypeOK
  <2>4. FlagFollowsTask'
    BY <1>5, <2>1, SameQueue
    DEF SyncNotifyDone, Moves, SetLock, Holds, FlagFollowsTask, LocksFollowThreads, TypeOK
  <2>5. WaitingThread'
    BY <1>5, <2>1, SameQueue
    DEF SyncNotifyDone, Moves, SetLock, Holds, WaitingThread, LocksFollowThreads, TypeOK
  <2>6. ProxiesOutliveLockMode'
    BY <1>5, <2>1, SameQueue
    DEF SyncNotifyDone, Moves, SetLock, Holds, ProxiesOutliveLockMode, TypeOK
  <2> QED
    BY <2>1, <2>2, <2>3, <2>4, <2>5, <2>6, SameQueue
<1>6. ASSUME NEW t \in Threads, ReleaseLockMode(t) PROVE IInv'
  <2>1. tasks' = tasks
    BY <1>6 DEF ReleaseLockMode, Moves, SetLock, Holds
  <2>2. TypeOK'
    BY <1>6 DEF ReleaseLockMode, Moves, SetLock, Holds, TypeOK, ThreadAt, ExtAt
  <2>3. LocksFollowThreads'
    BY <1>6 DEF ReleaseLockMode, Moves, SetLock, Holds, LocksFollowThreads, TypeOK
  <2>4. FlagFollowsTask'
    BY <1>6, <2>1, SameQueue
    DEF ReleaseLockMode, Moves, SetLock, Holds, FlagFollowsTask, LocksFollowThreads, TypeOK
  <2>5. WaitingThread'
    BY <1>6, <2>1, SameQueue
    DEF ReleaseLockMode, Moves, SetLock, Holds, WaitingThread, LocksFollowThreads, TypeOK
  <2>6. ProxiesOutliveLockMode'
    BY <1>6, <2>1, SameQueue
    DEF ReleaseLockMode, Moves, SetLock, Holds, ProxiesOutliveLockMode, TypeOK
  <2> QED
    BY <2>1, <2>2, <2>3, <2>4, <2>5, <2>6, SameQueue
<1>7. ASSUME NEW t \in Threads, ForgetOwner(t) PROVE IInv'
  <2>1. tasks' = tasks
    BY <1>7 DEF ForgetOwner, Moves, SetLock, Holds
  <2>2. TypeOK'
    BY <1>7 DEF ForgetOwner, Moves, SetLock, Holds, TypeOK, ThreadAt, ExtAt
  <2>3. LocksFollowThreads'
    BY <1>7 DEF ForgetOwner, Moves, SetLock, Holds, LocksFollowThreads, TypeOK
  <2>4. FlagFollowsTask'
    BY <1>7, <2>1, SameQueue
    DEF ForgetOwner, Moves, SetLock, Holds, FlagFollowsTask, LocksFollowThreads, TypeOK
  <2>5. WaitingThread'
    BY <1>7, <2>1, SameQueue
    DEF ForgetOwner, Moves, SetLock, Holds, WaitingThread, LocksFollowThreads, TypeOK
  <2>6. ProxiesOutliveLockMode'
    BY <1>7, <2>1, SameQueue
    DEF ForgetOwner, Moves, SetLock, Holds, ProxiesOutliveLockMode, TypeOK
  <2> QED
    BY <2>1, <2>2, <2>3, <2>4, <2>5, <2>6, SameQueue
<1>8. ASSUME NEW t \in Threads, NEW u \in Threads, AcquireProxy(t, u) PROVE IInv'
  <2>1. tasks' = tasks
    BY <1>8 DEF AcquireProxy, Call, Holds
  <2>2. TypeOK'
    BY <1>8 DEF AcquireProxy, Call, Holds, TypeOK, ThreadAt, ExtAt
  <2>3. LocksFollowThreads'
    BY <1>8 DEF AcquireProxy, Call, Holds, LocksFollowThreads, TypeOK
  <2>4. FlagFollowsTask'
    BY <1>8, <2>1, SameQueue
    DEF AcquireProxy, Call, Holds, FlagFollowsTask, LocksFollowThreads, TypeOK
  <2>5. WaitingThread'
    BY <1>8, <2>1, SameQueue
    DEF AcquireProxy, Call, Holds, WaitingThread, LocksFollowThreads, TypeOK
  <2>6. ProxiesOutliveLockMode'
    BY <1>8, <2>1, SameQueue DEF AcquireProxy, Call, Holds, ProxiesOutliveLockMode, TypeOK
  <2> QED
    BY <2>1, <2>2, <2>3, <2>4, <2>5, <2>6, SameQueue
<1>9. CASE NotifyDone
  <2>1. tasks' = tasks
    BY <1>9 DEF NotifyDone, ExtMoves, Holds
  <2>2. TypeOK'
    BY <1>9 DEF NotifyDone, ExtMoves, Holds, TypeOK, ThreadAt, ExtAt
  <2>3. LocksFollowThreads'
    BY <1>9 DEF NotifyDone, ExtMoves, Holds, LocksFollowThreads, TypeOK
  <2>4. FlagFollowsTask'
    BY <1>9, <2>1, SameQueue
    DEF NotifyDone, ExtMoves, Holds, FlagFollowsTask, LocksFollowThreads, TypeOK
  <2>5. WaitingThread'
    BY <1>9, <2>1, SameQueue
    DEF NotifyDone, ExtMoves, Holds, WaitingThread, LocksFollowThreads, TypeOK
  <2>6. ProxiesOutliveLockMode'
    BY <1>9, <2>1, SameQueue DEF NotifyDone, ExtMoves, Holds, ProxiesOutliveLockMode, TypeOK
  <2> QED
    BY <2>1, <2>2, <2>3, <2>4, <2>5, <2>6, SameQueue
<1>10. ASSUME NEW p \in Proxies, ExtWantsLock(p) PROVE IInv'
  <2>1. tasks' = tasks
    BY <1>10 DEF ExtWantsLock, ExtMoves, Holds
  <2>2. TypeOK'
    BY <1>10 DEF ExtWantsLock, ExtMoves, Holds, TypeOK, ThreadAt, ExtAt
  <2>3. LocksFollowThreads'
    BY <1>10 DEF ExtWantsLock, ExtMoves, Holds, LocksFollowThreads, TypeOK
  <2>4. FlagFollowsTask'
    BY <1>10, <2>1, SameQueue
    DEF ExtWantsLock, ExtMoves, Holds, FlagFollowsTask, LocksFollowThreads, TypeOK
  <2>5. WaitingThread'
    BY <1>10, <2>1, SameQueue
    DEF ExtWantsLock, ExtMoves, Holds, WaitingThread, LocksFollowThreads, TypeOK
  <2>6. ProxiesOutliveLockMode'
    BY <1>10, <2>1, SameQueue DEF ExtWantsLock, ExtMoves, Holds, ProxiesOutliveLockMode, TypeOK
  <2> QED
    BY <2>1, <2>2, <2>3, <2>4, <2>5, <2>6, SameQueue
<1>11. ASSUME NEW t \in Threads, WakeThread(t) PROVE IInv'
  <2>1. tasks' = tasks
    BY <1>11 DEF WakeThread, ExtMoves, Holds
  <2>2. TypeOK'
    BY <1>11 DEF WakeThread, ExtMoves, Holds, TypeOK, ThreadAt, ExtAt
  <2>3. LocksFollowThreads'
    BY <1>11 DEF WakeThread, ExtMoves, Holds, LocksFollowThreads, TypeOK
  <2>4. FlagFollowsTask'
    BY <1>11, <2>1, SameQueue
    DEF WakeThread, ExtMoves, Holds, FlagFollowsTask, LocksFollowThreads, TypeOK
  <2>5. WaitingThread'
    BY <1>11, <2>1, SameQueue
    DEF WakeThread, ExtMoves, WaitingThread, LocksFollowThreads, FlagFollowsTask, TypeOK
  <2>6. ProxiesOutliveLockMode'
    BY <1>11, <2>1, SameQueue DEF WakeThread, ExtMoves, Holds, ProxiesOutliveLockMode, TypeOK
  <2> QED
    BY <2>1, <2>2, <2>3, <2>4, <2>5, <2>6, SameQueue
<1>12. CASE ResumeWithLock
  <2>1. tasks' = tasks
    BY <1>12 DEF ResumeWithLock, ExtMoves, Holds
  <2>2. TypeOK'
    BY <1>12 DEF ResumeWithLock, ExtMoves, Holds, TypeOK, ThreadAt, ExtAt
  <2>3. LocksFollowThreads'
    BY <1>12 DEF ResumeWithLock, ExtMoves, Holds, LocksFollowThreads, TypeOK
  <2>4. FlagFollowsTask'
    BY <1>12, <2>1, SameQueue
    DEF ResumeWithLock, ExtMoves, Holds, FlagFollowsTask, LocksFollowThreads, TypeOK
  <2>5. WaitingThread'
    BY <1>12, <2>1, SameQueue
    DEF ResumeWithLock, ExtMoves, Holds, WaitingThread, LocksFollowThreads, TypeOK
  <2>6. ProxiesOutliveLockMode'
    BY <1>12, <2>1, SameQueue
    DEF ResumeWithLock, ExtMoves, Holds, ProxiesOutliveLockMode, TypeOK
  <2> QED
    BY <2>1, <2>2, <2>3, <2>4, <2>5, <2>6, SameQueue
<1>13. CASE GiveLockBack
  <2>1. tasks' = tasks
    BY <1>13 DEF GiveLockBack, ExtMoves, Holds
  <2>2. TypeOK'
    BY <1>13 DEF GiveLockBack, ExtMoves, Holds, TypeOK, ThreadAt, ExtAt
  <2>3. LocksFollowThreads'
    BY <1>13 DEF GiveLockBack, ExtMoves, Holds, LocksFollowThreads, FlagFollowsTask, TypeOK
  <2>4. FlagFollowsTask'
    BY <1>13, <2>1, SameQueue
    DEF GiveLockBack, ExtMoves, Holds, FlagFollowsTask, LocksFollowThreads, TypeOK
  <2>5. WaitingThread'
    BY <1>13, <2>1, SameQueue
    DEF GiveLockBack, ExtMoves, Holds, WaitingThread, LocksFollowThreads, TypeOK
  <2>6. ProxiesOutliveLockMode'
    BY <1>13, <2>1, SameQueue DEF GiveLockBack, ExtMoves, Holds, ProxiesOutliveLockMode, TypeOK
  <2> QED
    BY <2>1, <2>2, <2>3, <2>4, <2>5, <2>6, SameQueue
<1>14. ASSUME NEW t \in Threads, AsyncNotify(t) PROVE IInv'
  <2>0. /\ tasks' = Append(tasks, Notify) /\ ModeQueue(tasks)
        /\ (Notify = Notify \/ ~Has(tasks, Notify))
    BY <1>14, QueueOfState DEF AsyncNotify, Notify
  <2>1. /\ ModeQueue(tasks')
        /\ \A x : Has(tasks', x) <=> Has(tasks, x) \/ x = Notify
        /\ \A x, y : Before(tasks, x, y) /\ x # Notify => Before(tasks', x, y)
    BY <2>0, TaskKinds, PostBack
  <2>2. TypeOK' /\ TasksOnce'
    BY <1>14, <2>1 DEF AsyncNotify, Call, Holds, ModeQueue, TypeOK, TasksOnce, ThreadAt, ExtAt
  <2>3. LocksFollowThreads'
    BY <1>14 DEF AsyncNotify, Call, Holds, LocksFollowThreads, TypeOK
  <2>4. FlagFollowsTask'
    BY <1>14, <2>1, TaskKinds
    DEF AsyncNotify, Call, Holds, FlagFollowsTask, LocksFollowThreads, TypeOK
  <2>5. WaitingThread'
    BY <1>14, <2>1, TaskKinds
    DEF AsyncNotify, Call, Holds, WaitingThread, FlagFollowsTask, LocksFollowThreads, TypeOK
  <2>6. ProxiesOutliveLockMode'
    BY <1>14, <2>1, TaskKinds
    DEF AsyncNotify, Call, Holds, ProxiesOutliveLockMode, FlagFollowsTask, TypeOK
  <2> QED
    BY <2>2, <2>3, <2>4, <2>5, <2>6
<1>15. CASE RunNotify
  <2>0. Head(tasks) = Notify /\ tasks # << >> /\ tasks' = Tail(tasks) /\ ModeQueue(tasks)
    BY <1>15, QueueOfState DEF RunNotify, Runs, Notify
  <2>1. /\ ModeQueue(tasks')
        /\ \A x : Has(tasks, x) <=> Has(tasks, x)' \/ x = Notify
        /\ Notify # Notify => ~Has(tasks', Notify)
        /\ \A x, y : Before(tasks, x, y) => Before(tasks', x, y) /\ (y = Notify => ~Has(tasks, x))
    BY <2>0, TaskKinds, TakeFirst
  <2>2. TypeOK' /\ TasksOnce'
    BY <1>15, <2>1 DEF RunNotify, Runs, Holds, ModeQueue, TypeOK, TasksOnce, ThreadAt, ExtAt
  <2>3. LocksFollowThreads'
    BY <1>15 DEF RunNotify, Runs, Holds, LocksFollowThreads, TypeOK
  <2>4. FlagFollowsTask'
    BY <1>15, <2>1, TaskKinds
    DEF RunNotify, Runs, Holds, FlagFollowsTask, LocksFollowThreads, TypeOK
  <2>5. WaitingThread'
    BY <1>15, <2>1, TaskKinds
    DEF RunNotify, Runs, Holds, WaitingThread, FlagFollowsTask, LocksFollowThreads, TypeOK
  <2>6. ProxiesOutliveLockMode'
    BY <1>15, <2>1, TaskKinds
    DEF RunNotify, Runs, Holds, ProxiesOutliveLockMode, FlagFollowsTask, TypeOK
  <2> QED
    BY <2>2, <2>3, <2>4, <2>5, <2>6
<1>16. CASE ReleaseTask
  <2>0. Head(tasks) = Release /\ tasks # << >> /\ tasks' = Tail(tasks) /\ ModeQueue(tasks)
    BY <1>16, QueueOfState DEF ReleaseTask, Runs, Release
  <2>1. /\ ModeQueue(tasks')
        /\ \A x : Has(tasks, x) <=> Has(tasks, x)' \/ x = Release
        /\ Release # Notify => ~Has(tasks', Release)
        /\ \A x, y : Before(tasks, x, y) =>
             Before(tasks', x, y) /\ (y = Release => ~Has(tasks, x))
    BY <2>0, TaskKinds, TakeFirst
  <2>2. TypeOK' /\ TasksOnce'
    BY <1>16, <2>1 DEF ReleaseTask, Runs, Holds, ModeQueue, TypeOK, TasksOnce, ThreadAt, ExtAt
  <2>3. LocksFollowThreads'
    BY <1>16 DEF ReleaseTask, Runs, Holds, LocksFollowThreads, TypeOK
  <2>4. FlagFollowsTask'
    BY <1>16, <2>1, TaskKinds
    DEF ReleaseTask, Runs, Holds, FlagFollowsTask, LocksFollowThreads, TypeOK
  <2>5. WaitingThread'
    BY <1>16, <2>1, TaskKinds
    DEF ReleaseTask, Runs, Holds, WaitingThread, FlagFollowsTask, LocksFollowThreads, TypeOK
  <2>6. ProxiesOutliveLockMode'
    BY <1>16, <2>1, TaskKinds
    DEF ReleaseTask, Runs, Holds, ProxiesOutliveLockMode, FlagFollowsTask, TypeOK
  <2> QED
    BY <2>2, <2>3, <2>4, <2>5, <2>6
<1>17. ASSUME NEW p \in Proxies, DeletedTask(p) PROVE IInv'
  <2>0. Head(tasks) = Deleted(p) /\ tasks # << >> /\ tasks' = Tail(tasks) /\ ModeQueue(tasks)
    BY <1>17, QueueOfState DEF DeletedTask, Runs, Deleted
  <2>1. /\ ModeQueue(tasks')
        /\ \A x : Has(tasks, x) <=> Has(tasks, x)' \/ x = Deleted(p)
        /\ Deleted(p) # Notify => ~Has(tasks', Deleted(p))
        /\ \A x, y : Before(tasks, x, y) =>
             Before(tasks', x, y) /\ (y = Deleted(p) => ~Has(tasks, x))
    BY <2>0, TaskKinds, TakeFirst
  <2>2. TypeOK' /\ TasksOnce'
    BY <1>17, <2>1 DEF DeletedTask, Runs, Holds, ModeQueue, TypeOK, TasksOnce, ThreadAt, ExtAt
  <2>3. LocksFollowThreads'
    BY <1>17 DEF DeletedTask, Runs, Holds, LocksFollowThreads, TypeOK
  <2>4. FlagFollowsTask'
    BY <1>17, <2>1, TaskKinds
    DEF DeletedTask, Runs, Holds, FlagFollowsTask, LocksFollowThreads, TypeOK
  <2>5. WaitingThread'
    BY <1>17, <2>1, TaskKinds
    DEF DeletedTask, Runs, Holds, WaitingThread, FlagFollowsTask, LocksFollowThreads, TypeOK
  <2>6. ProxiesOutliveLockMode'
    BY <1>17, <2>1, TaskKinds
    DEF DeletedTask, Runs, Holds, ProxiesOutliveLockMode, FlagFollowsTask, TypeOK
  <2> QED
    BY <2>2, <2>3, <2>4, <2>5, <2>6
<1>18. ASSUME NEW t \in Threads, ReleaseProxy(t) PROVE IInv'
  <2>1. /\ ProxyOf[t] \in Proxies /\ lock[ProxyOf[t]] = None /\ t \in holders[ProxyOf[t]]
        /\ holders' = [holders EXCEPT ![ProxyOf[t]] = @ \ {t}]
        /\ tasks' = IF holders'[ProxyOf[t]] = {}
                    THEN Append(tasks, Deleted(ProxyOf[t])) ELSE tasks
        /\ UNCHANGED <<lock_mode_lock, in_lock_mode, lock, acquired, destroyed, completed, calls>>
    BY <1>18 DEF ReleaseProxy, DropHolder, Deleted, TypeOK
  <2>2. ~Has(tasks, Deleted(ProxyOf[t])) /\ ProxyOf[t] \notin destroyed
    BY <2>1 DEF ProxiesOutliveLockMode
  <2>3. /\ ModeQueue(tasks')
        /\ \A x : Has(tasks', x) <=>
             Has(tasks, x) \/ (holders'[ProxyOf[t]] = {} /\ x = Deleted(ProxyOf[t]))
        /\ \A x, y : Before(tasks, x, y) /\ x # Deleted(ProxyOf[t]) => Before(tasks', x, y)
    <3>1. CASE holders'[ProxyOf[t]] = {}
      BY <2>1, <2>2, <3>1, TaskKinds, PostBack, QueueOfState
    <3>2. CASE holders'[ProxyOf[t]] # {}
      BY <2>1, <3>2, QueueOfState DEF Has, Before
    <3> QED
      BY <3>1, <3>2
  <2>4. TypeOK' /\ TasksOnce'
    BY <1>18, <2>1, <2>3 DEF ReleaseProxy, Moves, ModeQueue, TypeOK, TasksOnce, ThreadAt, ExtAt
  <2>5. LocksFollowThreads'
    BY <1>18, <2>1 DEF ReleaseProxy, Moves, Holds, LocksFollowThreads, TypeOK
  <2>6. FlagFollowsTask'
    BY <1>18, <2>1, <2>3, TaskKinds DEF ReleaseProxy, Moves, FlagFollowsTask, TypeOK
  <2>7. WaitingThread'
    BY <1>18, <2>1, <2>3, TaskKinds
    DEF ReleaseProxy, Moves, WaitingThread, LocksFollowThreads, TypeOK
  <2>8. ProxiesOutliveLockMode'
    BY <1>18, <2>1, <2>2, <2>3, TaskKinds
    DEF ReleaseProxy, Moves, ProxiesOutliveLockMode, TypeOK
  <2> QED
    BY <2>4, <2>5, <2>6, <2>7, <2>8
<1>19. ASSUME NEW p \in Proxies, ExtReleaseProxy(p) PROVE IInv'
  <2>1. /\ p \in Proxies /\ lock[p] = None /\ Ext \in holders[p]
        /\ holders' = [holders EXCEPT ![p] = @ \ {Ext}]
        /\ tasks' = IF holders'[p] = {} THEN Append(tasks, Deleted(p)) ELSE tasks
        /\ UNCHANGED <<lock_mode_lock, in_lock_mode, lock, acquired, destroyed, completed, calls>>
    BY <1>19 DEF ExtReleaseProxy, DropHolder, Deleted, TypeOK
  <2>2. ~Has(tasks, Deleted(p)) /\ p \notin destroyed
    BY <2>1 DEF ProxiesOutliveLockMode
  <2>3. /\ ModeQueue(tasks')
        /\ \A x : Has(tasks', x) <=> Has(tasks, x) \/ (holders'[p] = {} /\ x = Deleted(p))
        /\ \A x, y : Before(tasks, x, y) /\ x # Deleted(p) => Before(tasks', x, y)
    <3>1. CASE holders'[p] = {}
      BY <2>1, <2>2, <3>1, TaskKinds, PostBack, QueueOfState
    <3>2. CASE holders'[p] # {}
      BY <2>1, <3>2, QueueOfState DEF Has, Before
    <3> QED
      BY <3>1, <3>2
  <2>4. TypeOK' /\ TasksOnce'
    BY <1>19, <2>1, <2>3
    DEF ExtReleaseProxy, ExtMoves, ModeQueue, TypeOK, TasksOnce, ThreadAt, ExtAt
  <2>5. LocksFollowThreads'
    BY <1>19, <2>1 DEF ExtReleaseProxy, ExtMoves, Holds, LocksFollowThreads, TypeOK
  <2>6. FlagFollowsTask'
    BY <1>19, <2>1, <2>3, TaskKinds DEF ExtReleaseProxy, ExtMoves, FlagFollowsTask, TypeOK
  <2>7. WaitingThread'
    BY <1>19, <2>1, <2>3, TaskKinds
    DEF ExtReleaseProxy, ExtMoves, WaitingThread, LocksFollowThreads, TypeOK
  <2>8. ProxiesOutliveLockMode'
    BY <1>19, <2>1, <2>2, <2>3, TaskKinds
    DEF ExtReleaseProxy, ExtMoves, ProxiesOutliveLockMode, TypeOK
  <2> QED
    BY <2>4, <2>5, <2>6, <2>7, <2>8
<1>20. ASSUME NEW t \in Threads, DecideToWait(t) PROVE IInv'
  <2>1. /\ lock[ProxyOf[t]] = None /\ at[t] = "want_lock" /\ lock_mode_lock = t /\ Holds(t)
        /\ acquired' = [acquired EXCEPT ![ProxyOf[t]] = t]
        /\ UNCHANGED <<lock_mode_lock, in_lock_mode, holders, destroyed, completed, ext_at,
                       calls>>
    BY <1>20 DEF DecideToWait, Moves, LocksFollowThreads
  <2>2. CASE in_lock_mode
    <3>1. at' = [at EXCEPT ![t] = "owner"] /\ tasks' = tasks /\ lock' = lock
      BY <1>20, <2>2 DEF DecideToWait, Moves
    <3>2. ext_at = "blocked"
      BY <2>1, <2>2 DEF FlagFollowsTask, WaitingThread
    <3>3. TypeOK' /\ TasksOnce'
      BY <2>1, <3>1, SameQueue DEF TypeOK, ThreadAt
    <3>4. LocksFollowThreads'
      BY <2>1, <3>1 DEF LocksFollowThreads, Holds, TypeOK
    <3>5. FlagFollowsTask'
      BY <2>1, <3>1, SameQueue DEF FlagFollowsTask
    <3>6. WaitingThread'
      BY <2>1, <3>1, <3>2, SameQueue DEF WaitingThread, TypeOK
    <3>7. ProxiesOutliveLockMode'
      BY <2>1, <3>1, SameQueue DEF ProxiesOutliveLockMode
    <3> QED
      BY <3>3, <3>4, <3>5, <3>6, <3>7
  <2>3. CASE ~in_lock_mode
    <3>1. /\ at' = [at EXCEPT ![t] = "wait"] /\ tasks' = <<Acquire(t)>> \o tasks
          /\ lock' = [lock EXCEPT ![ProxyOf[t]] = t]
      BY <1>20, <2>3 DEF DecideToWait, Moves, SetLock, Acquire
    <3>2. ~Has(tasks, Acquire(t)) /\ t \notin completed
      BY <2>1 DEF WaitingThread
    <3>3. /\ ModeQueue(tasks')
          /\ \A x : Has(tasks', x) <=> Has(tasks, x) \/ x = Acquire(t)
      BY <3>1, <3>2, TaskKinds, PostFront, QueueOfState
    <3>4. TypeOK' /\ TasksOnce'
      BY <2>1, <3>1, <3>3 DEF ModeQueue, TasksOnce, TypeOK, ThreadAt
    <3>5. LocksFollowThreads'
      BY <2>1, <3>1 DEF LocksFollowThreads, Holds, TypeOK
    <3>6. FlagFollowsTask'
      BY <2>1, <3>3, TaskKinds DEF FlagFollowsTask
    <3>7. WaitingThread'
      BY <2>1, <2>3, <3>1, <3>2, <3>3, TaskKinds DEF WaitingThread, FlagFollowsTask, TypeOK
    <3>8. ProxiesOutliveLockMode'
      BY <2>1, <2>3, <3>3, TaskKinds DEF ProxiesOutliveLockMode, FlagFollowsTask
    <3> QED
      BY <3>4, <3>5, <3>6, <3>7, <3>8
  <2> QED
    BY <2>2, <2>3
<1>21. ASSUME NEW t \in Threads, AcquireTask(t) PROVE IInv'
  <2>1. /\ ext_at = "idle" /\ tasks # << >> /\ Head(tasks) = Acquire(t) /\ ext_at' = "acquire"
        /\ tasks' = Append(Tail(tasks), Release) /\ in_lock_mode'
        /\ UNCHANGED <<lock_mode_lock, lock, acquired, holders, destroyed, completed, at, calls>>
    BY <1>21 DEF AcquireTask, Runs, Acquire, Release
  <2>2. /\ ModeQueue(Tail(tasks))
        /\ \A x : Has(tasks, x) <=> Has(Tail(tasks), x) \/ x = Acquire(t)
        /\ ~Has(Tail(tasks), Acquire(t))
    BY <2>1, TaskKinds, TakeFirst, QueueOfState
  <2>3. at[t] = "wait" /\ lock_mode_lock = t /\ t \notin completed /\ ~in_lock_mode /\ Holds(t)
    BY <2>2 DEF WaitingThread, LocksFollowThreads
  <2>4. ~Has(Tail(tasks), Release)
    BY <2>2, <2>3 DEF FlagFollowsTask
  <2>5. /\ ModeQueue(tasks')
        /\ \A x : Has(tasks', x) <=> Has(Tail(tasks), x) \/ x = Release
    BY <2>1, <2>2, <2>4, TaskKinds, PostBack
  <2>6. TypeOK' /\ TasksOnce'
    BY <2>1, <2>5 DEF ModeQueue, TasksOnce, TypeOK, ExtAt
  <2>7. LocksFollowThreads'
    BY <2>1 DEF LocksFollowThreads, Holds
  <2>8. FlagFollowsTask'
    BY <2>1, <2>3, <2>5 DEF FlagFollowsTask
  <2>9. \A u \in Threads : ~Has(tasks', Acquire(u))
    <3> SUFFICES ASSUME NEW u \in Threads, Has(tasks', Acquire(u)) PROVE FALSE
      OBVIOUS
    <3>1. Has(Tail(tasks), Acquire(u)) /\ Has(tasks, Acquire(u))
      BY <2>2, <2>5, TaskKinds
    <3>2. u = t
      BY <2>3, <3>1 DEF WaitingThread, LocksFollowThreads
    <3> QED
      BY <2>2, <3>1, <3>2
  <2>10. WaitingThread'
    BY <2>1, <2>3, <2>9 DEF WaitingThread
  <2>11. \A p \in Proxies : Has(tasks', Deleted(p)) => Has(tasks, Deleted(p))
    BY <2>2, <2>5, TaskKinds
  <2>12. ProxyOf[t] \in Proxies /\ ProxyOf[t] \notin destroyed /\ ~Has(tasks, Deleted(ProxyOf[t]))
    BY <2>3 DEF ProxiesOutliveLockMode, Holds
  <2>13. Before(tasks', Release, Deleted(ProxyOf[t]))
    BY <2>11, <2>12 DEF Before, Has
  <2>14. ProxiesOutliveLockMode'
    BY <2>1, <2>11, <2>12, <2>13 DEF ProxiesOutliveLockMode
  <2> QED
    BY <2>6, <2>7, <2>8, <2>10, <2>14
<1>22. CASE UNCHANGED vars
  <2>1. TypeOK' /\ TasksOnce'
    BY <1>22, SameQueue DEF vars, TypeOK
  <2>2. LocksFollowThreads'
    BY <1>22 DEF vars, LocksFollowThreads, Holds
  <2>3. FlagFollowsTask' /\ WaitingThread' /\ ProxiesOutliveLockMode'
    BY <1>22, SameQueue DEF vars, FlagFollowsTask, WaitingThread, ProxiesOutliveLockMode
  <2> QED
    BY <2>1, <2>2, <2>3
<1> QED
  BY <1>1, <1>2, <1>3, <1>4, <1>5, <1>6, <1>7, <1>8, <1>9, <1>10, <1>11,
     <1>12, <1>13, <1>14, <1>15, <1>16, <1>17, <1>18, <1>19, <1>20, <1>21, <1>22
  DEF Next, ExtStep, ThreadStep, ThreadCall

\* The inductive invariant holds in every state.
THEOREM Invariance == Spec => []IInv
  BY InitIInv, NextIInv, PTL DEF Spec

-----------------------------------------------------------------------------
(* The properties.                                                         *)

\* A thread outside uses the TEN world only while it has lock_mode_lock and
\* the extension thread is blocked: no two threads are in it.
THEOREM OneThreadInWorld == Spec => []WorldExclusive
<1>1. ASSUME IInv PROVE WorldExclusive
  <2>1. ASSUME NEW x \in InWorld, NEW y \in InWorld PROVE x = y
    BY <1>1 DEF InWorld, IInv, LocksFollowThreads, WaitingThread
  <2>2. CASE InWorld = {}
    BY <2>2, FS_EmptySet DEF WorldExclusive
  <2>3. CASE InWorld # {}
    <3>1. PICK x : InWorld = {x}
      BY <2>1, <2>3
    <3>2. Cardinality(InWorld) = 1
      BY <3>1, FS_Singleton
    <3> QED
      BY <3>2 DEF WorldExclusive
  <2> QED
    BY <2>2, <2>3
<1> QED
  BY <1>1, Invariance, PTL

\* The assertions of ten_env_proxy_acquire_lock_mode never fail.
THEOREM AssertionsHold == Spec => []LockModeAssertions
<1>1. ASSUME IInv PROVE LockModeAssertions
  BY <1>1, LockModeAssumption
  DEF IInv, LockModeAssertions, LocksFollowThreads, FlagFollowsTask, WaitingThread, TypeOK
<1> QED
  BY <1>1, Invariance, PTL

\* No proxy is deleted while a thread has a use for it, and lock mode is over
\* when the last one is.
THEOREM ProxiesOutlive == Spec => []ProxyOutlivesUse
<1>1. ASSUME IInv PROVE ProxyOutlivesUse
  <2> USE LockModeAssumption
  <2>1. ASSUME NEW p \in destroyed
        PROVE  /\ holders[p] = {} /\ lock[p] = None /\ acquired[p] = None
               /\ \A t \in Threads : ProxyOf[t] = p => at[t] \in {"out", "gone"}
    <3>1. p \in Proxies /\ holders[p] = {}
      BY <1>1 DEF IInv, TypeOK, ProxiesOutliveLockMode
    <3>2. \A t \in Threads : ProxyOf[t] = p => at[t] \in {"out", "gone"}
      BY <1>1, <3>1 DEF IInv, LocksFollowThreads, Holds
    <3>3. lock[p] = None
      BY <1>1, <3>1, <3>2 DEF IInv, LocksFollowThreads, TypeOK
    <3>4. acquired[p] = None
      BY <1>1, <3>1, <3>2 DEF IInv, LocksFollowThreads, TypeOK
    <3> QED
      BY <3>1, <3>2, <3>3, <3>4
  <2>2. ASSUME destroyed = Proxies PROVE LockModeIsOver
    <3>1. ~in_lock_mode /\ ext_at # "release"
      BY <1>1, <2>2 DEF IInv, ProxiesOutliveLockMode
    <3>2. \A i \in 1 .. Len(tasks) : tasks[i] # <<"release">>
      BY <1>1, <3>1 DEF IInv, FlagFollowsTask, Has, Release
    <3>3. lock_mode_lock # Ext
      BY <1>1, <3>1 DEF IInv, FlagFollowsTask
    <3>4. lock_mode_lock \notin Threads
      BY <1>1, <2>1, <2>2 DEF IInv, LocksFollowThreads
    <3>5. lock_mode_lock = None
      BY <1>1, <3>3, <3>4 DEF IInv, TypeOK
    <3> QED
      BY <3>1, <3>2, <3>5 DEF LockModeIsOver
  <2> QED
    BY <2>1, <2>2 DEF ProxyOutlivesUse
<1> QED
  BY <1>1, Invariance, PTL

-----------------------------------------------------------------------------
(* The runloop: its inductive invariant.                                   *)

\* A thread that owes a notification holds the lock, and the loop has not
\* been told to stop: ten_runloop_stop needs the lock to set destroying.
NotifyUnderLock == notify => loop_lock # NoOne /\ ~destroying

\* The signal is closed only by the stop, and the loop ends only with it.
SignalFollowsStop ==
  /\ signal_state # "INIT" => destroying
  /\ loop_at = "stopped" => signal_state = "CLOSED" /\ loop_tasks = << >> /\ loop_lock = NoOne

\* The inductive invariant of the runloop.
LoopInv == LoopTypeOK /\ NotifyUnderLock /\ SignalFollowsStop /\ NoLostWakeup

\* A new list starts empty, with no one to wake.
LEMMA LoopInitInv == LoopInit => LoopInv
<1> SUFFICES ASSUME LoopInit PROVE LoopInv
  OBVIOUS
<1>1. /\ loop_tasks \in Seq(LoopTasks)
      /\ \A i, j \in 1 .. Len(loop_tasks) : loop_tasks[i] = loop_tasks[j] => i = j
  BY DEF LoopInit
<1>2. LoopTypeOK
  BY <1>1 DEF LoopInit, LoopTypeOK
<1>3. NotifyUnderLock /\ SignalFollowsStop /\ NoLostWakeup
  BY DEF LoopInit, NotifyUnderLock, SignalFollowsStop, NoLostWakeup
<1> QED
  BY <1>2, <1>3 DEF LoopInv

\* What ten_runloop_post_task_at does to the list: the task is put in front
\* or at the end, and no task is in the list twice.
LEMMA PostedList ==
  ASSUME LoopTypeOK, NEW t \in Unposted, NEW front \in BOOLEAN,
         NEW s, s = IF front THEN <<t>> \o loop_tasks ELSE Append(loop_tasks, t)
  PROVE  /\ s \in Seq(LoopTasks) /\ s # << >>
         /\ \A i, j \in 1 .. Len(s) : s[i] = s[j] => i = j
<1>1. /\ t \in LoopTasks /\ loop_tasks \in Seq(LoopTasks)
      /\ \A i \in 1 .. Len(loop_tasks) : loop_tasks[i] # t
      /\ \A i, j \in 1 .. Len(loop_tasks) : loop_tasks[i] = loop_tasks[j] => i = j
  BY DEF Unposted, LoopTypeOK
<1>2. CASE front
  <2>1. s = <<t>> \o loop_tasks
    BY <1>2
  <2>2. /\ s \in Seq(LoopTasks) /\ Len(s) = 1 + Len(loop_tasks) /\ Len(loop_tasks) \in Nat
        /\ s[1] = t
        /\ \A i \in 1 .. Len(s) : i # 1 => s[i] = loop_tasks[i - 1]
    BY <1>1, <2>1
  <2>3. \A i \in 1 .. Len(s) : i # 1 => i - 1 \in 1 .. Len(loop_tasks)
    BY <2>2
  <2>4. s # << >>
    BY <2>2
  <2>5. ASSUME NEW i \in 1 .. Len(s), NEW j \in 1 .. Len(s), s[i] = s[j] PROVE i = j
    <3>1. i = 1 <=> j = 1
      BY <1>1, <2>2, <2>3, <2>5
    <3>2. i # 1 /\ j # 1 => i - 1 = j - 1
      BY <1>1, <2>2, <2>3, <2>5, ZenonT(60)
    <3> QED
      BY <2>2, <3>1, <3>2
  <2> QED
    BY <2>2, <2>4, <2>5
<1>3. CASE ~front
  <2>1. s = Append(loop_tasks, t)
    BY <1>3
  <2>2. /\ s \in Seq(LoopTasks) /\ Len(s) = Len(loop_tasks) + 1
        /\ s[Len(loop_tasks) + 1] = t
        /\ \A i \in 1 .. Len(loop_tasks) : s[i] = loop_tasks[i]
    BY <1>1, <2>1
  <2> QED
    BY <1>1, <2>2, SMTT(60)
<1> QED
  BY <1>2, <1>3

\* What is left of the list when its first task is taken.
LEMMA TakenList ==
  ASSUME LoopTypeOK, loop_tasks # << >>
  PROVE  /\ Head(loop_tasks) \in LoopTasks /\ Tail(loop_tasks) \in Seq(LoopTasks)
         /\ \A i, j \in 1 .. Len(Tail(loop_tasks)) :
              Tail(loop_tasks)[i] = Tail(loop_tasks)[j] => i = j
<1>1. /\ Head(loop_tasks) \in LoopTasks /\ Tail(loop_tasks) \in Seq(LoopTasks)
      /\ Len(Tail(loop_tasks)) = Len(loop_tasks) - 1 /\ Len(loop_tasks) \in Nat
      /\ \A i \in 1 .. Len(Tail(loop_tasks)) : Tail(loop_tasks)[i] = loop_tasks[i + 1]
  BY HeadTailProperties DEF LoopTypeOK
<1> QED
  BY <1>1 DEF LoopTypeOK

\* Every step keeps the invariant.
LEMMA LoopNextInv == LoopInv /\ [LoopNext]_loop_vars => LoopInv'
<1> SUFFICES ASSUME LoopInv, [LoopNext]_loop_vars PROVE LoopInv'
  OBVIOUS
<1> USE RunloopAssumption DEF LoopInv
<1>1. ASSUME NEW c \in Callers, NEW t \in LoopTasks, NEW front \in BOOLEAN,
             PostTask(c, t, front)
      PROVE  LoopInv'
  <2>1. t \in Unposted /\ c # NoOne /\ loop_lock = NoOne
    BY <1>1 DEF PostTask, Callers
  <2>2. CASE destroying
    BY <1>1, <2>2
    DEF PostTask, LoopTypeOK, NotifyUnderLock, SignalFollowsStop, NoLostWakeup
  <2>3. CASE ~destroying
    <3>1. /\ loop_tasks' \in Seq(LoopTasks) /\ loop_tasks' # << >>
          /\ \A i, j \in 1 .. Len(loop_tasks') : loop_tasks'[i] = loop_tasks'[j] => i = j
      BY <1>1, <2>1, <2>3, PostedList DEF PostTask
    <3>2. /\ notify' = (loop_tasks = << >>) /\ loop_lock' = c
          /\ UNCHANGED <<refused, destroying, signal, signal_state, loop_at, task, done>>
      BY <1>1, <2>3 DEF PostTask
    <3>3. LoopTypeOK'
      BY <3>1, <3>2 DEF LoopTypeOK
    <3>4. (NotifyUnderLock /\ SignalFollowsStop /\ NoLostWakeup)'
      BY <2>1, <2>3, <3>2 DEF NotifyUnderLock, SignalFollowsStop, NoLostWakeup, LoopTypeOK
    <3> QED
      BY <3>3, <3>4
  <2> QED
    BY <2>2, <2>3
<1>2. CASE TakeTask
  <2>1. LoopTypeOK'
    BY <1>2, TakenList DEF TakeTask, LoopTypeOK
  <2> QED
    BY <1>2, <2>1 DEF TakeTask, NotifyUnderLock, SignalFollowsStop, NoLostWakeup
<1>3. CASE EndTask
  BY <1>3 DEF EndTask, LoopMoves, LoopTypeOK, NotifyUnderLock, SignalFollowsStop, NoLostWakeup
<1>4. CASE RunLoop \/ Callback \/ EndCallback \/ FlushEnd
  BY <1>4 DEF RunLoop, Callback, EndCallback, FlushEnd, LoopMoves, LoopTypeOK, NotifyUnderLock,
    SignalFollowsStop, NoLostWakeup
<1>5. CASE TaskAvailable
  <2>1. LoopTypeOK'
    BY <1>5 DEF TaskAvailable, LoopMoves, LoopTypeOK
  <2>2. (NotifyUnderLock /\ SignalFollowsStop /\ NoLostWakeup)'
    BY <1>5 DEF TaskAvailable, LoopMoves, NotifyUnderLock, SignalFollowsStop, NoLostWakeup
  <2> QED
    BY <2>1, <2>2
<1>6. CASE SignalClosed
  <2>1. LoopTypeOK'
    BY <1>6 DEF SignalClosed, LoopMoves, LoopTypeOK
  <2>2. (NotifyUnderLock /\ SignalFollowsStop /\ NoLostWakeup)'
    BY <1>6 DEF SignalClosed, LoopMoves, NotifyUnderLock, SignalFollowsStop, NoLostWakeup
  <2> QED
    BY <2>1, <2>2
<1>7. CASE StopLoop
  <2>1. LoopTypeOK'
    BY <1>7 DEF StopLoop, LoopTypeOK
  <2>2. (NotifyUnderLock /\ SignalFollowsStop /\ NoLostWakeup)'
    BY <1>7 DEF StopLoop, MayCall, NotifyUnderLock, SignalFollowsStop, NoLostWakeup
  <2> QED
    BY <2>1, <2>2
<1>8. CASE CloseSignal
  <2>1. LoopTypeOK'
    BY <1>8 DEF CloseSignal, LoopTypeOK
  <2>2. (NotifyUnderLock /\ SignalFollowsStop /\ NoLostWakeup)'
    BY <1>8 DEF CloseSignal, MayCall, NotifyUnderLock, SignalFollowsStop, NoLostWakeup
  <2> QED
    BY <2>1, <2>2
<1>9. ASSUME NEW c \in Callers, PostNotify(c) PROVE LoopInv'
  BY <1>9, ZenonT(60) DEF PostNotify, LoopTypeOK, NotifyUnderLock, SignalFollowsStop, NoLostWakeup
<1>10. CASE UNCHANGED loop_vars
  BY <1>10 DEF loop_vars, LoopTypeOK, NotifyUnderLock, SignalFollowsStop, NoLostWakeup
<1> QED
  BY <1>1, <1>2, <1>3, <1>4, <1>5, <1>6, <1>7, <1>8, <1>9,
     <1>10
  DEF LoopNext, LoopStep

\* The inductive invariant holds in every reachable state.
THEOREM LoopInvariance == LoopSpec => []LoopInv
  BY LoopInitInv, LoopNextInv, PTL DEF LoopSpec

\* The loop never goes to sleep on accepted tasks without a notification that
\* is pending or about to be sent, however many threads post and although a
\* post notifies an empty list only.
THEOREM WakesUp == LoopSpec => []NoLostWakeup
<1>1. LoopInv => NoLostWakeup
  BY DEF LoopInv
<1> QED
  BY <1>1, LoopInvariance, PTL

\* The assertions of ten_runloop_async_uv_notify and of
\* task_available_signal_closed hold: no closing signal is notified and no
\* accepted task is left when the loop has stopped.
THEOREM StopIsSafe == LoopSpec => []StopAssertions
<1>1. LoopInv => StopAssertions
  BY DEF LoopInv, NotifyUnderLock, SignalFollowsStop, StopAssertions, LoopTypeOK
<1> QED
  BY <1>1, LoopInvariance, PTL

-----------------------------------------------------------------------------
(* The refinement of TaskQueue.                                            *)

\* Every step of the loop is a step of the queue or leaves it alone.
LEMMA LoopNextImplements == LoopInv /\ [LoopNext]_loop_vars => [Queue!QNext]_(Queue!qvars)
<1> SUFFICES ASSUME LoopInv, [LoopNext]_loop_vars PROVE [Queue!QNext]_(Queue!qvars)
  OBVIOUS
<1> USE RunloopAssumption DEF LoopInv
<1>1. ASSUME NEW c \in Callers, NEW t \in LoopTasks, NEW front \in BOOLEAN,
             PostTask(c, t, front)
      PROVE  Queue!QNext
  <2>1. t \in Queue!New
    BY <1>1 DEF PostTask, Unposted, Queue!New, Queue!Queued
  <2>2. CASE destroying
    <3>1. Queue!Refuse(t)
      BY <1>1, <2>1, <2>2 DEF PostTask, Queue!Refuse
    <3> QED
      BY <3>1 DEF Queue!QNext
  <2>3. CASE ~destroying
    <3>1. Queue!Accept(t)
      BY <1>1, <2>1, <2>3 DEF PostTask, Queue!Accept
    <3> QED
      BY <3>1 DEF Queue!QNext
  <2> QED
    BY <2>2, <2>3
<1>2. CASE TakeTask
  <2>1. task = NoOne /\ task' = Head(loop_tasks) /\ task' \in LoopTasks
    BY <1>2, TakenList DEF TakeTask, LoopTypeOK
  <2>2. Queue!Run
    BY <1>2, <2>1 DEF TakeTask, Queue!Run
  <2> QED
    BY <2>2 DEF Queue!QNext
<1>3. CASE EndTask
  <2>1. task # NoOne
    BY <1>3 DEF EndTask, LoopMoves, LoopTypeOK
  <2>2. Queue!Finish
    BY <1>3, <2>1 DEF EndTask, Queue!Finish
  <2> QED
    BY <2>2 DEF Queue!QNext
<1>4. CASE StopLoop
  <2>1. Queue!Close
    BY <1>4 DEF StopLoop, Queue!Close
  <2> QED
    BY <2>1 DEF Queue!QNext
<1>5. CASE UNCHANGED <<loop_tasks, task, done, refused, destroying>>
  BY <1>5 DEF Queue!qvars
<1> QED
  BY <1>1, <1>2, <1>3, <1>4, <1>5
  DEF LoopNext, LoopStep, RunLoop, Callback, EndCallback, FlushEnd, TaskAvailable, SignalClosed,
      CloseSignal, PostNotify, loop_vars

\* The runloop is a queue: it runs the tasks it has accepted one at a time in
\* the order of its list, each of them once, and refuses all others once it
\* has been told to stop.
THEOREM ImplementsTaskQueue == LoopSpec => Queue!QSafety
<1>1. LoopInit => Queue!QInit
  BY RunloopAssumption DEF LoopInit, Queue!QInit
<1> QED
  BY <1>1, LoopNextImplements, LoopInvariance, PTL DEF LoopSpec, Queue!QSafety
=============================================================================
