--------------------------- MODULE TaskScheduler ---------------------------
(***************************************************************************)
(* xk::core::async::TaskScheduler (core/include/async/task-scheduler.h and *)
(* core/src/async/task-scheduler.cpp): m_threadCount worker threads, each  *)
(* with a TaskQueue of its own, that steal from one another's queues.      *)
(* The queues are those of module TaskQueue; queue i belongs to worker i.  *)
(*                                                                         *)
(* The threads are the workers, the clients, which call schedule and async *)
(* from outside the pool, and the owner, which runs the constructor and    *)
(* the destructor (for DefaultTaskScheduler, the thread that first calls   *)
(* it and the thread that ends the process).  A member of Tasks stands for *)
(* one call of schedule: the handler it is given.  What a task does is up  *)
(* to it: it may schedule others and wait for futures of those.            *)
(*                                                                         *)
(* ctl says what a thread executes, between its calls of queue operations: *)
(*   worker  unborn, scan (the loop of tryPop), own (its blocking pop),    *)
(*           user (the handler it took), exited;                           *)
(*   client  user;                                                         *)
(*   owner   spawn, up, closing, joining, gone;                            *)
(* and, called from user, submit (the loop of tryPush in schedule), force  *)
(* (the push after it) and await (future::get).                            *)
(*                                                                         *)
(* When the program is terminated or its behaviour is undefined, aborted   *)
(* is set and nothing further is said.                                     *)
(***************************************************************************)
EXTENDS TaskQueue

CONSTANTS
    m_threadCount,
    ScheduleTryCycles,
    ThreadIdLimit,   \* 2^w for the w bits of ThreadId, uint_fast32_t
    Clients,
    Owner,
    AsyncTasks,      \* the tasks scheduled by async, whose future someone has
    ThrowingTasks,   \* the tasks that end in an exception
    EmptyTasks,      \* the calls of schedule that pass an empty std::function
    NestedWait,      \* whether a task may wait for those it scheduled
    SpawnMayFail     \* whether the constructor may fail to start a thread

Workers == 0 .. m_threadCount - 1

ASSUME SchedulerAssumption ==
    /\ m_threadCount \in Nat
    /\ ScheduleTryCycles \in Nat
    /\ ThreadIdLimit \in Nat \ {0}
    /\ Queues = Workers
    /\ Threads = Workers \cup Clients \cup {Owner}
    /\ Workers \cap Clients = {}
    /\ Owner \notin Workers \cup Clients
    /\ AsyncTasks \cup ThrowingTasks \cup EmptyTasks \subseteq Tasks
    /\ AsyncTasks \cap EmptyTasks = {}
    /\ NestedWait \in BOOLEAN
    /\ SpawnMayFail \in BOOLEAN

VARIABLES
    m_activeThreadId,  \* the counter that fetch_add increments, modulo 2^w
    ctl,               \* thread -> what it executes
    offset,            \* thread -> the loop variable of the loop it is in
    base,              \* thread -> threadId in schedule, the counter's value
    task,              \* thread -> the task it schedules or awaits, or None
    running,           \* worker -> the task whose handler it executes, or None
    issuer,            \* task -> the client or task that scheduled it, or None
    runs,              \* task -> how many times its handler was called
    finished,          \* the tasks whose handler has returned
    aborted            \* std::terminate or undefined behaviour

svars == <<m_activeThreadId, ctl, offset, base, task, running, issuer, runs,
           finished, aborted>>
vars == <<m_taskQueue, m_isClosed, m_mutex, op, at, pc, arg, ret,
          m_activeThreadId, ctl, offset, base, task, running, issuer, runs,
          finished, aborted>>

Controls == {"unborn", "scan", "own", "user", "exited", "submit", "force",
             "await", "spawn", "up", "closing", "joining", "gone"}

SchedulerInit ==
    /\ QueueInit
    /\ m_activeThreadId = 0
    /\ ctl = [t \in Threads |-> IF t \in Workers THEN "unborn"
                                ELSE IF t = Owner THEN "spawn" ELSE "user"]
    /\ offset = [t \in Threads |-> 0]
    /\ base = [t \in Threads |-> 0]
    /\ task = [t \in Threads |-> None]
    /\ running = [w \in Workers |-> None]
    /\ issuer = [k \in Tasks |-> None]
    /\ runs = [k \in Tasks |-> 0]
    /\ finished = {}
    /\ aborted = FALSE

-----------------------------------------------------------------------------
(***************************************************************************)
(* Helpers.                                                                *)
(***************************************************************************)

Issued == {k \in Tasks : issuer[k] # None}

\* Thread t executes o and goes on with o2, its loop variable at i.
Goto(t, o2, i) ==
    /\ ctl' = [ctl EXCEPT ![t] = o2]
    /\ offset' = [offset EXCEPT ![t] = i]

\* Slip: the offset is left out.
Index_(b, i) == b % m_threadCount

\* The index of the queue that iteration i of a loop visits, from queue b on:
\* (b + i) % m_threadCount, the sum in the arithmetic of ThreadId.
Index(b, i) == ((b + i) % ThreadIdLimit) % m_threadCount

\* Slip: a loop goes on after a call that returned true.
Retrying_(t) == Idle(t)

\* t is at the head of its loop: it has made no call in it yet, or the last
\* one returned false.
Retrying(t) == Idle(t) /\ (offset[t] = 0 \/ ~ret[t])

\* The last call that t made in its loop returned true.
Succeeded(t) == Idle(t) /\ offset[t] > 0 /\ ret[t]

\* The program is terminated, or does what the standard leaves undefined.
Abort ==
    /\ aborted' = TRUE
    /\ UNCHANGED qvars
    /\ UNCHANGED <<m_activeThreadId, ctl, offset, base, task, running, issuer,
                   runs, finished>>

-----------------------------------------------------------------------------
(***************************************************************************)
(* The worker threads: TaskScheduler::run.                                 *)
(***************************************************************************)

\* The next iteration of the loop that tries every queue from the own one on.
Scan(w) ==
    /\ ctl[w] = "scan"
    /\ Retrying(w)
    /\ offset[w] < m_threadCount
    /\ CallPop(w, "tryPop", Index(w, offset[w]))
    /\ Goto(w, "scan", offset[w] + 1)
    /\ UNCHANGED <<m_activeThreadId, base, task, running, issuer, runs,
                   finished, aborted>>

\* !taskHandler: no queue gave a handler, or the one it gave is empty.
PopOwn(w) ==
    /\ ctl[w] = "scan"
    /\ \/ Retrying(w) /\ offset[w] >= m_threadCount
       \/ Succeeded(w) /\ arg[w] \in EmptyTasks
    /\ CallPop(w, "pop", w)
    /\ Goto(w, "own", m_threadCount)
    /\ UNCHANGED <<m_activeThreadId, base, task, running, issuer, runs,
                   finished, aborted>>

\* taskHandler() begins.
Run(w) ==
    /\ ctl[w] \in {"scan", "own"}
    /\ Succeeded(w)
    /\ arg[w] \notin EmptyTasks
    /\ running' = [running EXCEPT ![w] = arg[w]]
    /\ runs' = [runs EXCEPT ![arg[w]] = @ + 1]
    /\ Goto(w, "user", 0)
    /\ UNCHANGED qvars
    /\ UNCHANGED <<m_activeThreadId, base, task, issuer, finished, aborted>>

\* taskHandler() of an empty std::function throws bad_function_call.
RunEmpty(w) ==
    /\ ctl[w] = "own"
    /\ Succeeded(w)
    /\ arg[w] \in EmptyTasks
    /\ Abort

\* Slip: after a handler the worker goes straight to its own queue.
Finish_(w) ==
    /\ ctl[w] = "user"
    /\ running[w] \notin ThrowingTasks \ AsyncTasks
    /\ finished' = finished \cup {running[w]}
    /\ running' = [running EXCEPT ![w] = None]
    /\ Goto(w, "scan", m_threadCount)
    /\ ret' = [ret EXCEPT ![w] = FALSE]
    /\ UNCHANGED <<m_taskQueue, m_isClosed, m_mutex, op, at, pc, arg>>
    /\ UNCHANGED <<m_activeThreadId, base, task, issuer, runs, aborted>>

\* taskHandler() returns.  The handler that async schedules has then run its
\* packaged_task, which makes the future ready, with a value or an exception,
\* and deleted it.
Finish(w) ==
    /\ ctl[w] = "user"
    /\ running[w] \notin ThrowingTasks \ AsyncTasks
    /\ finished' = finished \cup {running[w]}
    /\ running' = [running EXCEPT ![w] = None]
    /\ Goto(w, "scan", 0)
    /\ UNCHANGED qvars
    /\ UNCHANGED <<m_activeThreadId, base, task, issuer, runs, aborted>>

\* An exception that leaves a handler leaves the thread: std::terminate.
Throw(w) ==
    /\ ctl[w] = "user"
    /\ running[w] \in ThrowingTasks \ AsyncTasks
    /\ Abort

\* pop says that the own queue is done.
Quit(w) ==
    /\ ctl[w] = "own"
    /\ Idle(w)
    /\ ~ret[w]
    /\ Goto(w, "exited", 0)
    /\ UNCHANGED qvars
    /\ UNCHANGED <<m_activeThreadId, base, task, running, issuer, runs,
                   finished, aborted>>

-----------------------------------------------------------------------------
(***************************************************************************)
(* schedule and async, called by a client or by a running handler.         *)
(***************************************************************************)

\* Who calls schedule when t does: the client, or the task that t runs.
Caller(t) == IF t \in Clients THEN t ELSE running[t]

\* The counter is read and incremented at once: fetch_add(1).
FetchAdd(t) ==
    /\ base' = [base EXCEPT ![t] = m_activeThreadId]
    /\ m_activeThreadId' = (m_activeThreadId + 1) % ThreadIdLimit

\* schedule(k).  A client does not call it once the destructor has begun, nor
\* before the constructor has returned; a handler may at any time.
Schedule(t, k) ==
    /\ ctl[t] = "user"
    /\ t \in Clients => ctl[Owner] = "up"
    /\ issuer[k] = None
    /\ issuer' = [issuer EXCEPT ![k] = Caller(t)]
    /\ task' = [task EXCEPT ![t] = k]
    /\ FetchAdd(t)
    /\ Goto(t, "submit", 0)
    /\ UNCHANGED qvars
    /\ UNCHANGED <<running, runs, finished, aborted>>

\* The next iteration of the loop that tries to push.
TrySubmit(t) ==
    /\ ctl[t] = "submit"
    /\ Retrying(t)
    /\ offset[t] < m_threadCount * ScheduleTryCycles
    /\ CallPush(t, "tryPush", Index(base[t], offset[t]), task[t])
    /\ Goto(t, "submit", offset[t] + 1)
    /\ UNCHANGED <<m_activeThreadId, base, task, running, issuer, runs,
                   finished, aborted>>

\* Every tryPush has failed: the push is forced on m_taskQueues[threadId].
Forcing(t) ==
    /\ ctl[t] = "submit"
    /\ Retrying(t)
    /\ offset[t] >= m_threadCount * ScheduleTryCycles

ForcePush(t) ==
    /\ Forcing(t)
    /\ base[t] \in Queues
    /\ CallPush(t, "push", base[t], task[t])
    /\ Goto(t, "force", offset[t] + 1)
    /\ UNCHANGED <<m_activeThreadId, base, task, running, issuer, runs,
                   finished, aborted>>

\* threadId is the counter's value as it was read: at or above m_threadCount
\* it is no index of m_taskQueues.
ForceOutOfRange(t) ==
    /\ Forcing(t)
    /\ base[t] \notin Queues
    /\ Abort

Scheduled(t) ==
    /\ ctl[t] \in {"submit", "force"}
    /\ Succeeded(t)
    /\ task' = [task EXCEPT ![t] = None]
    /\ Goto(t, "user", 0)
    /\ UNCHANGED qvars
    /\ UNCHANGED <<m_activeThreadId, base, running, issuer, runs, finished,
                   aborted>>

\* get() of the future that async returned for k.
Await(t, k) ==
    /\ ctl[t] = "user"
    /\ t \in Clients \/ NestedWait
    /\ k \in AsyncTasks \ finished
    /\ issuer[k] = Caller(t)
    /\ task' = [task EXCEPT ![t] = k]
    /\ Goto(t, "await", 0)
    /\ UNCHANGED qvars
    /\ UNCHANGED <<m_activeThreadId, base, running, issuer, runs, finished,
                   aborted>>

Resume(t) ==
    /\ ctl[t] = "await"
    /\ task[t] \in finished
    /\ task' = [task EXCEPT ![t] = None]
    /\ Goto(t, "user", 0)
    /\ UNCHANGED qvars
    /\ UNCHANGED <<m_activeThreadId, base, running, issuer, runs, finished,
                   aborted>>

-----------------------------------------------------------------------------
(***************************************************************************)
(* The constructor and the destructor, executed by the owner.              *)
(***************************************************************************)

\* Slip: the thread's lambda captures the loop variable by reference and
\* reads it after its increment.
Spawn_ ==
    /\ ctl[Owner] = "spawn"
    /\ IF offset[Owner] < m_threadCount
       THEN /\ ctl' = [ctl EXCEPT ![offset[Owner] + 1] = "scan"]
            /\ offset' = [offset EXCEPT ![Owner] = @ + 1]
       ELSE Goto(Owner, "up", 0)
    /\ UNCHANGED qvars
    /\ UNCHANGED <<m_activeThreadId, base, task, running, issuer, runs,
                   finished, aborted>>

\* m_threads.emplace_back starts the next worker; after the last the
\* constructor returns.
Spawn ==
    /\ ctl[Owner] = "spawn"
    /\ IF offset[Owner] < m_threadCount
       THEN /\ ctl' = [ctl EXCEPT ![offset[Owner]] = "scan"]
            /\ offset' = [offset EXCEPT ![Owner] = @ + 1]
       ELSE Goto(Owner, "up", 0)
    /\ UNCHANGED qvars
    /\ UNCHANGED <<m_activeThreadId, base, task, running, issuer, runs,
                   finished, aborted>>

\* The system refuses the first thread: the constructor throws, no scheduler
\* comes to be.
SpawnNone ==
    /\ SpawnMayFail
    /\ ctl[Owner] = "spawn"
    /\ offset[Owner] = 0
    /\ m_threadCount > 0
    /\ Goto(Owner, "gone", 0)
    /\ UNCHANGED qvars
    /\ UNCHANGED <<m_activeThreadId, base, task, running, issuer, runs,
                   finished, aborted>>

\* It refuses a later one: unwinding destroys the queues under the workers,
\* then m_threads, whose joinable threads call std::terminate.
SpawnSome ==
    /\ SpawnMayFail
    /\ ctl[Owner] = "spawn"
    /\ offset[Owner] \in 1 .. m_threadCount - 1
    /\ Abort

\* The destructor begins, when no client is inside schedule.
Destroy ==
    /\ ctl[Owner] = "up"
    /\ \A c \in Clients : ctl[c] \in {"user", "await"}
    /\ Goto(Owner, "closing", 0)
    /\ UNCHANGED qvars
    /\ UNCHANGED <<m_activeThreadId, base, task, running, issuer, runs,
                   finished, aborted>>

Close ==
    /\ ctl[Owner] = "closing"
    /\ Idle(Owner)
    /\ offset[Owner] < m_threadCount
    /\ CallClose(Owner, offset[Owner])
    /\ Goto(Owner, "closing", offset[Owner] + 1)
    /\ UNCHANGED <<m_activeThreadId, base, task, running, issuer, runs,
                   finished, aborted>>

AllClosed ==
    /\ ctl[Owner] = "closing"
    /\ Idle(Owner)
    /\ offset[Owner] >= m_threadCount
    /\ Goto(Owner, "joining", 0)
    /\ UNCHANGED qvars
    /\ UNCHANGED <<m_activeThreadId, base, task, running, issuer, runs,
                   finished, aborted>>

\* Slip: the threads are not joined.
Join_ ==
    /\ ctl[Owner] = "joining"
    /\ Goto(Owner, "gone", 0)
    /\ UNCHANGED qvars
    /\ UNCHANGED <<m_activeThreadId, base, task, running, issuer, runs,
                   finished, aborted>>

\* thread.join() returns, of one worker after the other; then the members are
\* destroyed, the queues with what is left in them.
Join ==
    /\ ctl[Owner] = "joining"
    /\ IF offset[Owner] < m_threadCount
       THEN /\ ctl[offset[Owner]] = "exited"
            /\ Goto(Owner, "joining", offset[Owner] + 1)
       ELSE Goto(Owner, "gone", 0)
    /\ UNCHANGED qvars
    /\ UNCHANGED <<m_activeThreadId, base, task, running, issuer, runs,
                   finished, aborted>>

-----------------------------------------------------------------------------
WorkerProgress(w) ==
    \/ Scan(w)
    \/ PopOwn(w)
    \/ Run(w)
    \/ RunEmpty(w)
    \/ Finish(w)
    \/ Throw(w)
    \/ Quit(w)

CallerProgress(t) ==
    \/ TrySubmit(t)
    \/ ForcePush(t)
    \/ ForceOutOfRange(t)
    \/ Scheduled(t)
    \/ Resume(t)

OwnerProgress == Spawn \/ Close \/ AllClosed \/ Join

\* The steps of t that the code, or the end of a handler, is bound to take.
Progress(t) ==
    /\ ~aborted
    /\ \/ QueueProgress(t) /\ UNCHANGED svars
       \/ t \in Workers /\ WorkerProgress(t)
       \/ t \in Workers \cup Clients /\ CallerProgress(t)
       \/ t = Owner /\ OwnerProgress

\* The steps of t that it is free to take or not: a wake-up nobody asked for,
\* the calls of a client or a handler, the end of the scheduler's life.
Choice(t) ==
    /\ ~aborted
    /\ \/ SpuriousWakeup(t) /\ UNCHANGED svars
       \/ t \in Workers \cup Clients /\ \E k \in Tasks : Schedule(t, k)
       \/ t \in Workers \cup Clients /\ \E k \in Tasks : Await(t, k)
       \/ t = Owner /\ (Destroy \/ SpawnNone \/ SpawnSome)

\* The scheduler is gone, or nothing is said any more.
Ended ==
    /\ \/ aborted
       \/ ctl[Owner] = "gone" /\ \A c \in Clients : ctl[c] = "user"
    /\ UNCHANGED vars

SchedulerNext == Ended \/ \E t \in Threads : Progress(t) \/ Choice(t)

SchedulerSpec == SchedulerInit /\ [][SchedulerNext]_vars

\* A thread that can take a step does in the end, and one that waits for a
\* mutex again and again gets it: see QueueFairness.
SchedulerFairness ==
    \A t \in Threads : /\ WF_vars(Progress(t))
                       /\ SF_vars(~aborted /\ Lock(t) /\ UNCHANGED svars)

SchedulerFairSpec == SchedulerSpec /\ SchedulerFairness

-----------------------------------------------------------------------------
(***************************************************************************)
(* Properties.                                                             *)
(***************************************************************************)

\* What a thread executes makes sense: it is in an operation of a queue only
\* where the code calls that operation, it has a handler when a pop returned
\* true, and a worker that executes a handler has one.
Calling == {"user", "submit", "force", "await"}

ControlWellFormed ==
    \A t \in Threads :
        /\ \/ Idle(t)
           \/ ctl[t] = "scan" /\ op[t] = "tryPop"
           \/ ctl[t] = "own" /\ op[t] = "pop"
           \/ ctl[t] = "submit" /\ op[t] = "tryPush"
           \/ ctl[t] = "force" /\ op[t] = "push"
           \/ ctl[t] = "closing" /\ op[t] = "close"
        /\ ctl[t] \in {"scan", "own"} /\ Succeeded(t) => arg[t] \in Tasks
        /\ ctl[t] \in {"submit", "force", "await"} => task[t] \in Tasks
        /\ ctl[t] = "unborn" => offset[t] = 0
        /\ ctl[t] \in IF t \in Workers
                      THEN {"unborn", "scan", "own", "exited"} \cup Calling
                      ELSE IF t \in Clients THEN Calling
                      ELSE {"spawn", "up", "closing", "joining", "gone"}
        /\ t \in Workers => (ctl[t] \in Calling <=> running[t] \in Tasks)
        /\ t \in Workers /\ ctl[Owner] = "spawn" /\ t >= offset[Owner] => ctl[t] = "unborn"

\* Every variable has its type, and control is well formed.
SchedulerTypeOK ==
    /\ QueueTypeOK
    /\ m_activeThreadId \in 0 .. ThreadIdLimit - 1
    /\ ctl \in [Threads -> Controls]
    /\ offset \in [Threads -> Nat]
    /\ base \in [Threads -> 0 .. ThreadIdLimit - 1]
    /\ task \in [Threads -> Tasks \cup {None}]
    /\ running \in [Workers -> Tasks \cup {None}]
    /\ issuer \in [Tasks -> Clients \cup Tasks \cup {None}]
    /\ runs \in [Tasks -> Nat]
    /\ finished \subseteq Tasks
    /\ aborted \in BOOLEAN
    /\ ControlWellFormed

\* t is in schedule(k), and k is not in a queue yet.
Submitting(t, k) ==
    /\ ctl[t] \in {"submit", "force"}
    /\ task[t] = k
    /\ pc[t] # "notify" /\ ~Succeeded(t)

\* w has moved k out of a queue and is yet to call it.
InHand(w, k) == ctl[w] \in {"scan", "own"} /\ Succeeded(w) /\ arg[w] = k

Positions(k) ==
    UNION {{q} \X {i \in DOMAIN m_taskQueue[q] : m_taskQueue[q][i] = k} : q \in Queues}

Copies(k) ==
      Cardinality({t \in Threads : Submitting(t, k)})
    + Cardinality(Positions(k))
    + Cardinality({w \in Workers : InHand(w, k)})
    + Cardinality({w \in Workers : running[w] = k})
    + Cardinality(finished \cap {k})

\* No handler is lost or duplicated, whatever pushes, steals and failed
\* try-locks happen on its way: from schedule to its return it is in one place
\* (with its submitter, in one queue, in the hands of one worker), and it is
\* called once.  Empty handlers are left out: a worker that steals one drops it.
Conservation ==
    \A k \in Tasks \ EmptyTasks :
        /\ Copies(k) = IF issuer[k] = None THEN 0 ELSE 1
        /\ runs[k] = Cardinality({w \in Workers : running[w] = k})
                     + Cardinality(finished \cap {k})

\* When the destructor has joined the workers every task has run, those that
\* handlers scheduled on queues that were closed and left by their worker too:
\* "We close the queues and wait for them to finish" (task-scheduler.cpp:18).
NoTaskLeft == ctl[Owner] = "gone" => Issued \ EmptyTasks \subseteq finished

\* Once a worker has quit nobody waits on its queue, so what a handler still
\* pushes there has to be stolen: some worker is in a handler, or will look
\* at that queue before it can quit.
WillVisit(w, q) ==
    \/ ctl[w] \in {"user", "submit", "force", "await"}
    \/ ctl[w] \in {"scan", "own"} /\ Succeeded(w)
    \/ ctl[w] = "scan" /\ at[w] = q
    \/ ctl[w] = "scan" /\ \E i \in offset[w] .. m_threadCount - 1 : Index(w, i) = q

AbandonedQueueServed ==
    \A q \in Queues :
        ctl[q] = "exited" /\ m_taskQueue[q] # << >> /\ ~aborted
            => \E w \in Workers : WillVisit(w, q)

\* The scheduler implements TaskPool.
StatusOf(k) ==
    IF k \in finished THEN "finished"
    ELSE IF \E w \in Workers : running[w] = k THEN "running"
    ELSE IF issuer[k] # None THEN "submitted"
    ELSE "new"

Pool == INSTANCE TaskPool WITH
    status <- [k \in Tasks |-> StatusOf(k)],
    phase <- CASE ctl[Owner] \in {"spawn", "up"} -> "open"
               [] ctl[Owner] \in {"closing", "joining"} -> "closing"
               [] OTHER -> "gone",
    broken <- aborted

\* Safety: a task is scheduled, called and finished in this order, once each,
\* and the destructor returns after the last of them.
PoolSafe == Pool!SafeSpec

\* Safety and progress: every scheduled task is called, once, and the
\* destructor returns, after the last of them.
PoolLive == Pool!Spec

\* task-scheduler.h:23-24: after ScheduleTryCycles cycles of failed pushes the
\* task is forced "onto the active thread": there is such a thread.
ForcedOntoAThread == \A t \in Threads : Forcing(t) => base[t] \in Queues

\* task-scheduler.h:17-18: "if any thread has an empty queue it tries to obtain
\* a task from other threads".  A worker that sleeps because its queue is empty
\* does not go on sleeping while another queue holds a task.
IdleWorkersSteal ==
    \A w \in Workers, q \in Queues :
        pc[w] = "asleep" /\ m_taskQueue[q] # << >>
            ~> pc[w] # "asleep" \/ m_taskQueue[q] = << >> \/ aborted
=============================================================================
