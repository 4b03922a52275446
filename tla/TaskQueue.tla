----------------------------- MODULE TaskQueue -----------------------------
(***************************************************************************)
(* xk::core::async::TaskQueue (core/include/async/task-queue.h and         *)
(* core/src/async/task-queue.cpp): a deque of task handlers guarded by a   *)
(* mutex, with a condition variable on which pop sleeps while the queue is *)
(* empty and open.                                                         *)
(*                                                                         *)
(* A call of an operation is a record in op, at and arg; pc says how far   *)
(* the calling thread has got:                                             *)
(*   lock    before Lock lock(m_mutex), blocking or with std::try_to_lock; *)
(*   held    inside the critical section;                                  *)
(*   asleep  in m_conditionVariable.wait, the mutex released;              *)
(*   relock  woken, about to take the mutex again inside wait;             *)
(*   notify  after the critical section, before notify_one or notify_all.  *)
(* A call that has returned leaves its result in ret and, for the two      *)
(* operations that take a task, the handler it moved out in arg.           *)
(*                                                                         *)
(* One step is one visible effect on shared memory: taking the mutex, the  *)
(* body of a critical section with the release that ends it, a             *)
(* notification.  Several queues are modelled at once because the          *)
(* scheduler owns one for each of its threads.                             *)
(*                                                                         *)
(* A definition whose name ends in an underscore is a slip that the code   *)
(* does not make: the definition of that name, after it, with one plausible*)
(* mistake.  They serve to show that the properties notice it.             *)
(***************************************************************************)
EXTENDS Naturals, Sequences, FiniteSets

CONSTANTS
    Queues,          \* the TaskQueue objects
    Threads,         \* the threads that call them
    Tasks,           \* the task handlers that are pushed
    None,            \* no task, no thread, no queue
    SpuriousTryLock  \* whether try_lock may fail on a free mutex, as the
                     \* C++ standard allows and common builds do not

ASSUME QueueAssumption ==
    /\ IsFiniteSet(Threads)
    /\ None \notin Queues \cup Threads \cup Tasks
    /\ SpuriousTryLock \in BOOLEAN

VARIABLES
    m_taskQueue,  \* queue -> the deque of handlers
    m_isClosed,   \* queue -> the closed flag
    m_mutex,      \* queue -> the thread that holds the mutex, or None
    op,           \* thread -> the operation it is executing, or "none"
    at,           \* thread -> the queue it is executing it on
    pc,           \* thread -> where it is in that operation
    arg,          \* thread -> the handler it pushes, or the one it has popped
    ret           \* thread -> the result of its last call

queueVars == <<m_taskQueue, m_isClosed, m_mutex>>
callVars == <<op, at, pc, arg, ret>>
qvars == <<m_taskQueue, m_isClosed, m_mutex, op, at, pc, arg, ret>>

Operations == {"push", "tryPush", "pop", "tryPop", "close"}
Pushing == {"push", "tryPush"}
Popping == {"pop", "tryPop"}
Trying == {"tryPush", "tryPop"}

QueueInit ==
    /\ m_taskQueue = [q \in Queues |-> << >>]
    /\ m_isClosed = [q \in Queues |-> FALSE]
    /\ m_mutex = [q \in Queues |-> None]
    /\ op = [t \in Threads |-> "none"]
    /\ at = [t \in Threads |-> None]
    /\ pc = [t \in Threads |-> "idle"]
    /\ arg = [t \in Threads |-> None]
    /\ ret = [t \in Threads |-> FALSE]

-----------------------------------------------------------------------------
Idle(t) == op[t] = "none"

\* The waiters of the condition variable of q.
Sleepers(q) == {t \in Threads : at[t] = q /\ pc[t] = "asleep"}

\* Thread t calls operation o of q; k is the handler a push is given.
Call(t, o, q, k) ==
    /\ Idle(t)
    /\ op' = [op EXCEPT ![t] = o]
    /\ at' = [at EXCEPT ![t] = q]
    /\ pc' = [pc EXCEPT ![t] = "lock"]
    /\ arg' = [arg EXCEPT ![t] = k]
    /\ ret' = [ret EXCEPT ![t] = FALSE]
    /\ UNCHANGED queueVars

\* Slip: the handler is pushed after it was moved away.
CallPush_(t, o, q, k) == o \in Pushing /\ k \in Tasks /\ Call(t, o, q, None)
CallPush(t, o, q, k) == o \in Pushing /\ k \in Tasks /\ Call(t, o, q, k)
CallPop(t, o, q) == o \in Popping /\ Call(t, o, q, None)
CallClose(t, q) == Call(t, "close", q, None)

\* The call of t returns b, with handler k moved out of the queue.
Return(t, b, k) ==
    /\ op' = [op EXCEPT ![t] = "none"]
    /\ at' = [at EXCEPT ![t] = None]
    /\ pc' = [pc EXCEPT ![t] = "idle"]
    /\ arg' = [arg EXCEPT ![t] = k]
    /\ ret' = [ret EXCEPT ![t] = b]

Unlock(q) == m_mutex' = [m_mutex EXCEPT ![q] = None]

\* The mutex is taken: by a blocking lock, by a successful try_to_lock, or
\* by wait before it returns.
Lock(t) ==
    /\ pc[t] \in {"lock", "relock"}
    /\ m_mutex[at[t]] = None
    /\ m_mutex' = [m_mutex EXCEPT ![at[t]] = t]
    /\ pc' = [pc EXCEPT ![t] = "held"]
    /\ UNCHANGED <<m_taskQueue, m_isClosed, op, at, arg, ret>>

\* Slip: the failure to take the mutex is reported as success.
TryLockFails_(t) ==
    /\ pc[t] = "lock"
    /\ op[t] \in Trying
    /\ SpuriousTryLock \/ m_mutex[at[t]] # None
    /\ Return(t, TRUE, None)
    /\ UNCHANGED queueVars

\* tryPush and tryPop return false at once when try_to_lock fails.
TryLockFails(t) ==
    /\ pc[t] = "lock"
    /\ op[t] \in Trying
    /\ SpuriousTryLock \/ m_mutex[at[t]] # None
    /\ Return(t, FALSE, None)
    /\ UNCHANGED queueVars

\* Slip: emplace_front.
Enqueue_(t) ==
    /\ pc[t] = "held"
    /\ op[t] \in Pushing
    /\ m_taskQueue' = [m_taskQueue EXCEPT ![at[t]] = <<arg[t]>> \o @]
    /\ Unlock(at[t])
    /\ pc' = [pc EXCEPT ![t] = "notify"]
    /\ UNCHANGED <<m_isClosed, op, at, arg, ret>>

\* push and tryPush: emplace_back, then the lock goes out of scope.
Enqueue(t) ==
    /\ pc[t] = "held"
    /\ op[t] \in Pushing
    /\ m_taskQueue' = [m_taskQueue EXCEPT ![at[t]] = Append(@, arg[t])]
    /\ Unlock(at[t])
    /\ pc' = [pc EXCEPT ![t] = "notify"]
    /\ UNCHANGED <<m_isClosed, op, at, arg, ret>>

\* Slip: notify_one is forgotten.
NotifyOne_(t) ==
    /\ pc[t] = "notify"
    /\ op[t] \in Pushing
    /\ Return(t, TRUE, None)
    /\ UNCHANGED queueVars

\* notify_one wakes one waiter, any of them, and is lost if there is none.
NotifyOne(t) ==
    /\ pc[t] = "notify"
    /\ op[t] \in Pushing
    /\ op' = [op EXCEPT ![t] = "none"]
    /\ at' = [at EXCEPT ![t] = None]
    /\ arg' = [arg EXCEPT ![t] = None]
    /\ ret' = [ret EXCEPT ![t] = TRUE]
    /\ \/ /\ Sleepers(at[t]) = {}
          /\ pc' = [pc EXCEPT ![t] = "idle"]
       \/ \E s \in Sleepers(at[t]) :
             pc' = [pc EXCEPT ![t] = "idle", ![s] = "relock"]
    /\ UNCHANGED queueVars

\* close: the flag is set under the mutex.
SetClosed(t) ==
    /\ pc[t] = "held"
    /\ op[t] = "close"
    /\ m_isClosed' = [m_isClosed EXCEPT ![at[t]] = TRUE]
    /\ Unlock(at[t])
    /\ pc' = [pc EXCEPT ![t] = "notify"]
    /\ UNCHANGED <<m_taskQueue, op, at, arg, ret>>

\* Slip: notify_one in close.
NotifyAll_(t) ==
    /\ pc[t] = "notify"
    /\ op[t] = "close"
    /\ op' = [op EXCEPT ![t] = "none"]
    /\ at' = [at EXCEPT ![t] = None]
    /\ ret' = [ret EXCEPT ![t] = TRUE]
    /\ \/ Sleepers(at[t]) = {} /\ pc' = [pc EXCEPT ![t] = "idle"]
       \/ \E s \in Sleepers(at[t]) :
             pc' = [pc EXCEPT ![t] = "idle", ![s] = "relock"]
    /\ UNCHANGED <<m_taskQueue, m_isClosed, m_mutex, arg>>

\* close: every waiter is woken after the mutex is released.
NotifyAll(t) ==
    /\ pc[t] = "notify"
    /\ op[t] = "close"
    /\ op' = [op EXCEPT ![t] = "none"]
    /\ at' = [at EXCEPT ![t] = None]
    /\ ret' = [ret EXCEPT ![t] = TRUE]
    /\ pc' = [s \in Threads |-> IF s = t THEN "idle"
                                ELSE IF s \in Sleepers(at[t]) THEN "relock"
                                ELSE pc[s]]
    /\ UNCHANGED <<m_taskQueue, m_isClosed, m_mutex, arg>>

\* pop and tryPop move the front handler out, closed queue or not.
Dequeue(t) ==
    /\ pc[t] = "held"
    /\ op[t] \in Popping
    /\ m_taskQueue[at[t]] # << >>
    /\ m_taskQueue' = [m_taskQueue EXCEPT ![at[t]] = Tail(@)]
    /\ Unlock(at[t])
    /\ Return(t, TRUE, Head(m_taskQueue[at[t]]))
    /\ UNCHANGED m_isClosed

\* tryPop returns false on any empty queue, pop only on one that is closed.
ReturnEmpty(t) ==
    /\ pc[t] = "held"
    /\ op[t] \in Popping
    /\ m_taskQueue[at[t]] = << >>
    /\ op[t] = "tryPop" \/ m_isClosed[at[t]]
    /\ Unlock(at[t])
    /\ Return(t, FALSE, None)
    /\ UNCHANGED <<m_taskQueue, m_isClosed>>

\* Slip: pop waits while the queue is empty, closed or not.
Wait_(t) ==
    /\ pc[t] = "held"
    /\ op[t] = "pop"
    /\ m_taskQueue[at[t]] = << >>
    /\ Unlock(at[t])
    /\ pc' = [pc EXCEPT ![t] = "asleep"]
    /\ UNCHANGED <<m_taskQueue, m_isClosed, op, at, arg, ret>>

\* pop waits while the queue is empty and open: wait releases the mutex and
\* puts the thread to sleep in one step.
Wait(t) ==
    /\ pc[t] = "held"
    /\ op[t] = "pop"
    /\ m_taskQueue[at[t]] = << >>
    /\ ~m_isClosed[at[t]]
    /\ Unlock(at[t])
    /\ pc' = [pc EXCEPT ![t] = "asleep"]
    /\ UNCHANGED <<m_taskQueue, m_isClosed, op, at, arg, ret>>

\* A condition variable may wake a waiter that nobody notified.
SpuriousWakeup(t) ==
    /\ pc[t] = "asleep"
    /\ pc' = [pc EXCEPT ![t] = "relock"]
    /\ UNCHANGED <<m_taskQueue, m_isClosed, m_mutex, op, at, arg, ret>>

\* The steps of t that the code is bound to take, and all its steps.
QueueProgress(t) ==
    \/ Lock(t)
    \/ TryLockFails(t)
    \/ Enqueue(t)
    \/ NotifyOne(t)
    \/ SetClosed(t)
    \/ NotifyAll(t)
    \/ Dequeue(t)
    \/ ReturnEmpty(t)
    \/ Wait(t)

QueueStep(t) == QueueProgress(t) \/ SpuriousWakeup(t)

QueueNext ==
    \E t \in Threads :
        \/ QueueStep(t)
        \/ \E q \in Queues :
              \/ \E o \in Pushing, k \in Tasks : CallPush(t, o, q, k)
              \/ \E o \in Popping : CallPop(t, o, q)
              \/ CallClose(t, q)

QueueSpec == QueueInit /\ [][QueueNext]_qvars

-----------------------------------------------------------------------------
(***************************************************************************)
(* Properties.                                                             *)
(***************************************************************************)

\* What a thread is doing makes sense: it is at a queue exactly while it
\* executes an operation, only pop sleeps, only push and close notify.
CallsWellFormed ==
    \A t \in Threads :
        /\ IF op[t] = "none" THEN pc[t] = "idle" /\ at[t] = None
                            ELSE pc[t] # "idle" /\ at[t] \in Queues
        /\ op[t] \in Pushing => arg[t] \in Tasks
        /\ op[t] \in Popping \cup {"close"} => arg[t] = None
        /\ pc[t] \in {"asleep", "relock"} => op[t] = "pop"
        /\ pc[t] = "notify" => op[t] \in Pushing \cup {"close"}

\* Every variable has its type, and calls are well formed.
QueueTypeOK ==
    /\ m_taskQueue \in [Queues -> Seq(Tasks)]
    /\ m_isClosed \in [Queues -> BOOLEAN]
    /\ m_mutex \in [Queues -> Threads \cup {None}]
    /\ op \in [Threads -> Operations \cup {"none"}]
    /\ at \in [Threads -> Queues \cup {None}]
    /\ pc \in [Threads -> {"idle", "lock", "held", "asleep", "relock", "notify"}]
    /\ arg \in [Threads -> Tasks \cup {None}]
    /\ ret \in [Threads -> BOOLEAN]
    /\ CallsWellFormed

\* The threads at q whose next steps make up for a handler in the queue: a
\* pusher that has yet to notify, a pop that was woken and one that holds the
\* mutex.
Helpers(q) ==
    {t \in Threads : /\ at[t] = q
                     /\ \/ op[t] \in Pushing /\ pc[t] = "notify"
                        \/ op[t] = "pop" /\ pc[t] \in {"relock", "held"}}

\* The threads that have closed q and have yet to notify its waiters.
Closers(q) ==
    {t \in Threads : at[t] = q /\ op[t] = "close" /\ pc[t] = "notify"}

\* No wake-up is lost.  While pop sleeps on q, every handler in q has a helper
\* of its own that will come for it or wake a sleeper for it (notify_one after
\* the unlock in push and tryPush), and if q is closed its notify_all is still
\* to come (close): nobody sleeps beside a handler, or on a closed queue,
\* for good.
NoLostWakeup ==
    \A q \in Queues : Sleepers(q) # {} =>
        /\ Len(m_taskQueue[q]) =< Cardinality(Helpers(q))
        /\ m_isClosed[q] => Closers(q) # {}

-----------------------------------------------------------------------------
(***************************************************************************)
(* Progress.  A thread is scheduled while it has something to do, and a    *)
(* thread that waits for a mutex that is free again and again gets it in   *)
(* the end: the standard does not promise the second, the mutexes of the   *)
(* platforms the code is built on do well enough in practice.              *)
(***************************************************************************)
QueueFairness ==
    \A t \in Threads : WF_qvars(QueueProgress(t)) /\ SF_qvars(Lock(t))

\* A pop that waits on a queue returns once the queue is closed, whether or
\* not a handler is left for it (close notifies all, pop tests m_isClosed).
CloseReleasesPoppers ==
    \A q \in Queues, t \in Threads :
        m_isClosed[q] /\ at[t] = q /\ op[t] = "pop" ~> op[t] = "none"

PopPending(q) == \E t \in Threads : at[t] = q /\ op[t] = "pop"

Queued(k, q) == \E i \in DOMAIN m_taskQueue[q] : m_taskQueue[q][i] = k

\* As long as some pop is pending on q, a handler pushed onto q is taken in
\* the end: the wake-ups of push and tryPush suffice to drain the queue.
PendingPopTakesTask ==
    \A q \in Queues, k \in Tasks :
        Queued(k, q) /\ PopPending(q) ~> ~Queued(k, q) \/ ~PopPending(q)

\* The queues implement FifoTaskQueue: a call has taken effect when it has
\* left its critical section, and its caller sees the result when it returns.
Fifo == INSTANCE FifoTaskQueue WITH
    items <- m_taskQueue,
    closed <- m_isClosed,
    effected <- [t \in Threads |-> pc[t] = "notify"]

\* Safety: each operation of a queue is one atomic step of a FIFO queue.
FifoSafe == Fifo!SafeSpec

\* Safety and progress: every call but a pop on an open, empty queue returns.
FifoLive == Fifo!Spec
=============================================================================
