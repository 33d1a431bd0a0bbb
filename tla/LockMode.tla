------------------------------ MODULE LockMode ------------------------------
(***************************************************************************)
(* Lock mode: a thread outside of the TEN world stops the extension thread *)
(* and uses the TEN world in its place (ten_env_proxy/internal/            *)
(* {acquire_lock_mode, release_lock_mode, notify}.c, ten_env_proxy.c and   *)
(* extension_thread/msg_interface/common.c).                               *)
(*                                                                         *)
(* Two kinds of locks and a flag make the hand-over: lock_mode_lock of the *)
(* extension thread, the lock of the proxy, and in_lock_mode, which says   *)
(* that the extension thread is blocked or about to block.  The extension  *)
(* thread also holds lock_mode_lock itself, from the moment it runs again  *)
(* until its release task gives other threads their turn.                  *)
(***************************************************************************)
EXTENDS Naturals, Sequences, FiniteSets

CONSTANTS
  Threads,  \* threads outside of the TEN world
  Proxies,  \* ten_env_proxy instances of one extension thread
  ProxyOf,  \* the proxy each thread works with
  ExtHeld,  \* proxies that the extension thread itself holds and releases
  Ext,      \* the extension thread
  None,     \* no thread
  MaxCalls  \* bound on the calls the threads make between them

(* The proxies a binding releases in the extension thread are not used for *)
(* lock mode: the extension thread would wait for the lock of a proxy      *)
(* whose holder waits for the extension thread.                            *)
ASSUME LockModeAssumption ==
  /\ ProxyOf \in [Threads -> Proxies] /\ ExtHeld \subseteq Proxies
  /\ {Ext, None} \cap Threads = {} /\ Ext # None /\ MaxCalls \in Nat
  /\ Proxies \cap {"idle", "user", "acquire", "blocked", "release"} = {}

VARIABLES
  tasks,          \* tasks in the runloop of the extension thread
  lock_mode_lock, \* the thread that holds extension_thread->lock_mode_lock
  in_lock_mode,   \* extension_thread->in_lock_mode
  lock,           \* the thread that holds the lock of each proxy
  acquired,       \* acquired_lock_mode_thread of each proxy
  holders,        \* the threads counted by thread_cnt of each proxy
  destroyed,      \* proxies that have been destroyed
  completed,      \* threads whose suspend_result->completed is set
  at,             \* where each thread is
  ext_at,         \* where the extension thread is; a proxy if it waits for its lock
  calls           \* calls made so far

vars == <<tasks, lock_mode_lock, in_lock_mode, lock, acquired, holders, destroyed,
          completed, at, ext_at, calls>>

Tasks == {<<"acquire", t>> : t \in Threads} \cup {<<"deleted", p>> : p \in Proxies}
           \cup {<<"release">>, <<"notify">>}
ThreadAt == {"out", "want_mode", "want_lock", "wait", "owner", "sync", "leaving", "gone"}
ExtAt == {"idle", "user", "acquire", "blocked", "release"} \cup ExtHeld

\* Several threads may hold a proxy from the start (initial_thread_cnt).
Init ==
  /\ tasks = << >> /\ lock_mode_lock = None /\ in_lock_mode = FALSE
  /\ lock = [p \in Proxies |-> None] /\ acquired = [p \in Proxies |-> None]
  /\ holders \in [Proxies -> (SUBSET (Threads \cup {Ext})) \ {{}}]
  /\ \A p \in Proxies :
       /\ \A t \in Threads \cap holders[p] : ProxyOf[t] = p
       /\ Ext \in holders[p] <=> p \in ExtHeld
  /\ destroyed = {} /\ completed = {}
  /\ at = [t \in Threads |-> "out"] /\ ext_at = "idle"
  /\ calls = 0

-----------------------------------------------------------------------------
(* Helpers.                                                                *)

Moves(t, from, to) == at[t] = from /\ at' = [at EXCEPT ![t] = to]
ExtMoves(from, to) == ext_at = from /\ ext_at' = to
Holds(t) == t \in holders[ProxyOf[t]]
SetLock(p, t) == lock' = [lock EXCEPT ![p] = t]
Call == calls < MaxCalls /\ calls' = calls + 1
Runs(task) == ext_at = "idle" /\ tasks # << >> /\ Head(tasks) = task

-----------------------------------------------------------------------------
(* The threads outside.                                                    *)

\* ten_env_proxy_acquire_lock_mode is called ...
WantLockMode(t) ==
  /\ Holds(t) /\ ProxyOf[t] \notin ExtHeld /\ Call
  /\ Moves(t, "out", "want_mode")
  /\ UNCHANGED <<tasks, lock_mode_lock, in_lock_mode, lock, acquired, holders, destroyed,
                 completed, ext_at>>

\* ... wins the competition for lock_mode_lock ...
TakeLockModeLock(t) ==
  /\ lock_mode_lock = None
  /\ lock_mode_lock' = t /\ Moves(t, "want_mode", "want_lock")
  /\ UNCHANGED <<tasks, in_lock_mode, lock, acquired, holders, destroyed, completed, ext_at,
                 calls>>

\* ... and, with the lock of the proxy, either finds the extension thread
\* blocked already or posts a task in front of all others and waits for it.
DecideToWait(t) ==
  /\ lock[ProxyOf[t]] = None
  /\ acquired' = [acquired EXCEPT ![ProxyOf[t]] = t]
  /\ \/ /\ in_lock_mode
        /\ Moves(t, "want_lock", "owner") /\ UNCHANGED <<tasks, lock>>
     \/ /\ ~in_lock_mode
        /\ Moves(t, "want_lock", "wait") /\ SetLock(ProxyOf[t], t)
        /\ tasks' = <<<<"acquire", t>>>> \o tasks
  /\ UNCHANGED <<lock_mode_lock, in_lock_mode, holders, destroyed, completed, ext_at, calls>>

\* The event is set: the lock of the proxy is given back, lock_mode_lock kept.
EnterLockMode(t) ==
  /\ t \in completed
  /\ Moves(t, "wait", "owner") /\ SetLock(ProxyOf[t], None)
  /\ completed' = completed \ {t}
  /\ UNCHANGED <<tasks, lock_mode_lock, in_lock_mode, acquired, holders, destroyed, ext_at,
                 calls>>

\* ten_env_proxy_notify, sync: the owner runs notify_func under the lock.
SyncNotify(t) ==
  /\ Moves(t, "owner", "sync")
  /\ lock[ProxyOf[t]] = None /\ acquired[ProxyOf[t]] = t
  /\ SetLock(ProxyOf[t], t)
  /\ UNCHANGED <<tasks, lock_mode_lock, in_lock_mode, acquired, holders, destroyed, completed,
                 ext_at, calls>>

SyncNotifyDone(t) ==
  /\ Moves(t, "sync", "owner") /\ SetLock(ProxyOf[t], None)
  /\ UNCHANGED <<tasks, lock_mode_lock, in_lock_mode, acquired, holders, destroyed, completed,
                 ext_at, calls>>

\* ten_env_proxy_notify, async: a task at the end of the queue.
AsyncNotify(t) ==
  /\ Holds(t) /\ at[t] \in {"out", "owner", "sync"} /\ Call
  /\ tasks' = Append(tasks, <<"notify">>)
  /\ UNCHANGED <<lock_mode_lock, in_lock_mode, lock, acquired, holders, destroyed, completed,
                 at, ext_at>>

\* ten_env_proxy_release_lock_mode: lock_mode_lock is free for others ...
ReleaseLockMode(t) ==
  /\ lock[ProxyOf[t]] = None /\ acquired[ProxyOf[t]] = t
  /\ Moves(t, "owner", "leaving") /\ SetLock(ProxyOf[t], t) /\ lock_mode_lock' = None
  /\ UNCHANGED <<tasks, in_lock_mode, acquired, holders, destroyed, completed, ext_at, calls>>

\* ... before the proxy forgets its owner.
ForgetOwner(t) ==
  /\ Moves(t, "leaving", "out")
  /\ acquired' = [acquired EXCEPT ![ProxyOf[t]] = None] /\ SetLock(ProxyOf[t], None)
  /\ UNCHANGED <<tasks, lock_mode_lock, in_lock_mode, holders, destroyed, completed, ext_at,
                 calls>>

\* ten_env_proxy_acquire: a holder passes the proxy to another thread.
AcquireProxy(t, u) ==
  /\ at[t] = "out" /\ Holds(t) /\ at[u] = "out" /\ ProxyOf[u] = ProxyOf[t] /\ ~Holds(u)
  /\ lock[ProxyOf[t]] = None /\ Call
  /\ holders' = [holders EXCEPT ![ProxyOf[t]] = @ \cup {u}]
  /\ UNCHANGED <<tasks, lock_mode_lock, in_lock_mode, lock, acquired, destroyed, completed, at,
                 ext_at>>

\* Mutant: the last but one holder deletes the proxy.
DropHolderEarly(p, t) ==
  /\ lock[p] = None /\ t \in holders[p]
  /\ holders' = [holders EXCEPT ![p] = @ \ {t}]
  /\ tasks' = IF Cardinality(holders[p]) = 2 \/ holders[p] = {t}
              THEN Append(tasks, <<"deleted", p>>) ELSE tasks

\* ten_env_proxy_release: the last holder has the proxy deleted.
DropHolder(p, t) ==
  /\ lock[p] = None /\ t \in holders[p]
  /\ holders' = [holders EXCEPT ![p] = @ \ {t}]
  /\ tasks' = IF holders'[p] = {} THEN Append(tasks, <<"deleted", p>>) ELSE tasks

ReleaseProxy(t) ==
  /\ DropHolder(ProxyOf[t], t) /\ Moves(t, "out", "gone")
  /\ UNCHANGED <<lock_mode_lock, in_lock_mode, lock, acquired, destroyed, completed, ext_at,
                 calls>>

-----------------------------------------------------------------------------
(* The extension thread.                                                   *)

\* A task of the user: a message or an async notify.
RunNotify ==
  /\ Runs(<<"notify">>) /\ ext_at' = "user" /\ tasks' = Tail(tasks)
  /\ UNCHANGED <<lock_mode_lock, in_lock_mode, lock, acquired, holders, destroyed, completed,
                 at, calls>>

NotifyDone ==
  /\ ExtMoves("user", "idle")
  /\ UNCHANGED <<tasks, lock_mode_lock, in_lock_mode, lock, acquired, holders, destroyed,
                 completed, at, calls>>

\* A callback of the user releases a proxy that the extension thread holds.
ExtWantsLock(p) ==
  /\ p \in ExtHeld /\ Ext \in holders[p] /\ ExtMoves("user", p)
  /\ UNCHANGED <<tasks, lock_mode_lock, in_lock_mode, lock, acquired, holders, destroyed,
                 completed, at, calls>>

ExtReleaseProxy(p) ==
  /\ DropHolder(p, Ext) /\ ExtMoves(p, "user")
  /\ UNCHANGED <<lock_mode_lock, in_lock_mode, lock, acquired, destroyed, completed, at, calls>>

\* Mutant: the thread that waits is woken before the flag is set.
AcquireTaskWakesFirst(t) ==
  /\ Runs(<<"acquire", t>>) /\ ext_at' = "acquire"
  /\ tasks' = Append(Tail(tasks), <<"release">>)
  /\ completed' = completed \cup {t}
  /\ UNCHANGED <<lock_mode_lock, in_lock_mode, lock, acquired, holders, destroyed, at, calls>>

\* ten_extension_thread_process_acquire_lock_mode_task: the task that will
\* give lock_mode_lock back is posted, the flag set ...
AcquireTask(t) ==
  /\ Runs(<<"acquire", t>>) /\ ext_at' = "acquire"
  /\ tasks' = Append(Tail(tasks), <<"release">>) /\ in_lock_mode' = TRUE
  /\ UNCHANGED <<lock_mode_lock, lock, acquired, holders, destroyed, completed, at, calls>>

\* ... the thread that waits is told ...
WakeThread(t) ==
  /\ at[t] = "wait" /\ ExtMoves("acquire", "blocked")
  /\ completed' = completed \cup {t}
  /\ UNCHANGED <<tasks, lock_mode_lock, in_lock_mode, lock, acquired, holders, destroyed, at,
                 calls>>

\* ... and the extension thread is blocked until it gets the lock.
ResumeWithLock ==
  /\ lock_mode_lock = None
  /\ ExtMoves("blocked", "idle") /\ lock_mode_lock' = Ext
  /\ UNCHANGED <<tasks, in_lock_mode, lock, acquired, holders, destroyed, completed, at, calls>>

\* Mutant: the lock is given back before the flag is cleared.
ReleaseTaskUnlocksFirst ==
  /\ Runs(<<"release">>) /\ ext_at' = "release"
  /\ tasks' = Tail(tasks) /\ lock_mode_lock' = None
  /\ UNCHANGED <<in_lock_mode, lock, acquired, holders, destroyed, completed, at, calls>>

\* ten_extension_thread_process_release_lock_mode_task: first the flag ...
ReleaseTask ==
  /\ Runs(<<"release">>) /\ ext_at' = "release"
  /\ tasks' = Tail(tasks) /\ in_lock_mode' = FALSE
  /\ UNCHANGED <<lock_mode_lock, lock, acquired, holders, destroyed, completed, at, calls>>

\* Mutant: the lock is kept.
GiveLockBackNot ==
  /\ ExtMoves("release", "idle")
  /\ UNCHANGED <<tasks, lock_mode_lock, in_lock_mode, lock, acquired, holders, destroyed,
                 completed, at, calls>>

\* ... then the lock.
GiveLockBack ==
  /\ ExtMoves("release", "idle") /\ lock_mode_lock' = None
  /\ UNCHANGED <<tasks, in_lock_mode, lock, acquired, holders, destroyed, completed, at, calls>>

\* ten_notify_proxy_is_deleted
DeletedTask(p) ==
  /\ Runs(<<"deleted", p>>) /\ tasks' = Tail(tasks)
  /\ destroyed' = destroyed \cup {p}
  /\ UNCHANGED <<lock_mode_lock, in_lock_mode, lock, acquired, holders, completed, at, ext_at,
                 calls>>

-----------------------------------------------------------------------------

ThreadStep(t) ==
  \/ TakeLockModeLock(t) \/ DecideToWait(t) \/ EnterLockMode(t)
  \/ SyncNotifyDone(t) \/ ForgetOwner(t)

ThreadCall(t) ==
  \/ WantLockMode(t) \/ SyncNotify(t) \/ AsyncNotify(t) \/ ReleaseProxy(t)
  \/ \E u \in Threads : AcquireProxy(t, u)

ExtStep ==
  \/ RunNotify \/ NotifyDone \/ ResumeWithLock \/ ReleaseTask \/ GiveLockBack
  \/ \E p \in Proxies : ExtReleaseProxy(p) \/ DeletedTask(p)
  \/ \E t \in Threads : AcquireTask(t) \/ WakeThread(t)

Next ==
  \/ ExtStep \/ \E p \in Proxies : ExtWantsLock(p)
  \/ \E t \in Threads : ThreadStep(t) \/ ReleaseLockMode(t) \/ ThreadCall(t)

Spec == Init /\ [][Next]_vars

(* Threads go on with the calls they have made, callbacks return, and a    *)
(* thread in lock mode leaves it at some time; the number of calls is      *)
(* finite, so that a mutex without any order of waiters is fair enough.    *)
Fairness ==
  /\ WF_vars(ExtStep)
  /\ \A t \in Threads : WF_vars(ThreadStep(t)) /\ SF_vars(ReleaseLockMode(t))

FairSpec == Spec /\ Fairness

-----------------------------------------------------------------------------
(* Properties.                                                             *)

\* The type invariant: a task of lock mode or of a proxy is posted once.
TypeOK ==
  /\ tasks \in Seq(Tasks)
  /\ \A i, j \in 1 .. Len(tasks) : tasks[i] = tasks[j] /\ tasks[i] # <<"notify">> => i = j
  /\ lock_mode_lock \in Threads \cup {Ext, None} /\ in_lock_mode \in BOOLEAN
  /\ lock \in [Proxies -> Threads \cup {None}]
  /\ acquired \in [Proxies -> Threads \cup {None}]
  /\ holders \in [Proxies -> SUBSET (Threads \cup {Ext})]
  /\ destroyed \subseteq Proxies /\ completed \subseteq Threads
  /\ at \in [Threads -> ThreadAt] /\ ext_at \in ExtAt
  /\ calls \in 0 .. MaxCalls

\* Who uses the TEN world: the extension thread in a callback, a thread
\* outside after ten_env_proxy_acquire_lock_mode has returned.
InWorld ==
  {t \in Threads : at[t] \in {"owner", "sync"}}
    \cup {e \in {Ext} : ext_at \notin {"idle", "acquire", "blocked", "release"}}

\* The TEN world is used by one thread at a time: the purpose of lock mode.
WorldExclusive == Cardinality(InWorld) <= 1

\* ten_env_proxy_acquire_lock_mode asserts that the proxy has no owner when
\* it has got both locks, and that in_lock_mode is set when it is woken.
LockModeAssertions ==
  /\ TypeOK
  /\ \A t \in Threads :
       /\ at[t] = "want_lock" /\ lock[ProxyOf[t]] = None => acquired[ProxyOf[t]] = None
       /\ at[t] = "wait" /\ t \in completed => in_lock_mode

\* lock_mode_lock is free and no task is left that would unlock it.
LockModeIsOver ==
  ~in_lock_mode /\ lock_mode_lock = None /\ \A i \in 1 .. Len(tasks) : tasks[i] # <<"release">>

\* A proxy outlives every use of it, and its mutex is free when it is
\* destroyed; when the last proxy is gone, and the extension may go, lock mode
\* is over.
ProxyOutlivesUse ==
  /\ \A p \in destroyed :
       /\ holders[p] = {} /\ lock[p] = None /\ acquired[p] = None
       /\ \A t \in Threads : ProxyOf[t] = p => at[t] \in {"out", "gone"}
  /\ destroyed = Proxies => LockModeIsOver

\* A thread that asks for lock mode gets it, and the extension thread leaves
\* lock mode and runs what is left to run.
LockModeProgress ==
  /\ \A t \in Threads : at[t] = "want_mode" ~> at[t] = "owner"
  /\ (in_lock_mode \/ tasks # << >>) ~> (~in_lock_mode /\ tasks = << >>)
=============================================================================
