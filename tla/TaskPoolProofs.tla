--------------------------- MODULE TaskPoolProofs ---------------------------
(***************************************************************************)
(* That the destructor of TaskScheduler leaves no task behind, and that    *)
(* TaskScheduler keeps what TaskPool promises, for any number of threads,  *)
(* clients and tasks.                                                      *)
(*                                                                         *)
(* The theorems are about builds whose try_lock fails on a taken mutex     *)
(* only, and programs that schedule no empty handler: the runs show that   *)
(* otherwise a task may be left in a queue whose worker has quit.          *)
(***************************************************************************)
EXTENDS TaskConservationProofs

\* A ThreadId holds the sum of two indices of threads.
IndicesFit == 2 * m_threadCount =< ThreadIdLimit

\* A thread that has a mutex is in a critical section of its queue.
MutexHeld ==
    \A q \in Queues, t \in Threads : m_mutex[q] = t => pc[t] = "held" /\ at[t] = q

\* Worker q takes no more tasks: pop has told it that its queue is done.
Leaving(q) ==
    \/ ctl[q] = "exited"
    \/ ctl[q] = "own" /\ Idle(q) /\ ~ret[q]

\* It leaves because its queue is closed.
LeavingClosed == \A q \in Workers : Leaving(q) => m_isClosed[q]

\* What is pushed on its queue from then on, another worker will see.
LeavingServed ==
    \A q \in Queues :
        Leaving(q) /\ m_taskQueue[q] # << >> => \E w \in Workers : WillVisit(w, q)

\* The destructor closes one queue after the other, when no client is in
\* schedule any more.
ClosingInOrder ==
    /\ ctl[Owner] # "up" => \A c \in Clients : ctl[c] \in {"user", "await"}
    /\ \A q \in Queues : m_isClosed[q] =>
        \/ ctl[Owner] = "closing" /\ q < offset[Owner]
        \/ ctl[Owner] \in {"joining", "gone"}
    /\ ~Idle(Owner) =>
        /\ at[Owner] = offset[Owner] - 1
        /\ pc[Owner] \in {"lock", "held"} => ~m_isClosed[at[Owner]]

\* It joins them one after the other, too.
JoinedInOrder ==
    /\ ctl[Owner] = "joining" => \A w \in Workers : w < offset[Owner] => ctl[w] = "exited"
    /\ ctl[Owner] = "gone" => \/ \A w \in Workers : ctl[w] = "exited"
                              \/ \E w \in Workers : ctl[w] = "unborn"

\* Nothing is scheduled before the last worker was started.
NothingEarly ==
    /\ ctl[Owner] = "spawn" => \A w \in Workers : w < offset[Owner] => ctl[w] # "unborn"
    /\ ctl[Owner] \in {"up", "closing", "joining"} => \A w \in Workers : ctl[w] # "unborn"
    /\ ctl[Owner] = "spawn" \/ (\E w \in Workers : ctl[w] = "unborn")
        => \A k \in Tasks : issuer[k] = None

\* A worker sleeps on its own queue only.
PopsOwn == \A w \in Workers : ctl[w] = "own" /\ ~Idle(w) => at[w] = w

\* The invariant about leaving and closing.
ServedInv ==
    /\ LeavingClosed
    /\ LeavingServed
    /\ ClosingInOrder
    /\ JoinedInOrder
    /\ NothingEarly
    /\ PopsOwn

-----------------------------------------------------------------------------
(***************************************************************************)
(* Mutexes.                                                                *)
(***************************************************************************)

\* Every step of a queue leaves its mutex with the one thread that works under it.
LEMMA MutexStep == QueueTypeOK /\ MutexHeld /\ QueueNext => MutexHeld'
PROOF
  <1> SUFFICES ASSUME QueueTypeOK, MutexHeld, QueueNext PROVE MutexHeld'
    OBVIOUS
  <1> USE QueueAssumption DEF QueueTypeOK, CallsWellFormed, MutexHeld, Pushing, Popping, queueVars
  <1>1. ASSUME NEW t \in Threads, QueueStep(t)
        PROVE  MutexHeld'
    <2>1. CASE Lock(t)
      BY <2>1 DEF Lock
    <2>2. CASE TryLockFails(t)
      BY <2>2 DEF TryLockFails, Return
    <2>3. CASE Enqueue(t) \/ SetClosed(t) \/ Wait(t)
      BY <2>3 DEF Enqueue, SetClosed, Wait, Unlock
    <2>4. CASE Dequeue(t) \/ ReturnEmpty(t)
      <3>1. /\ at[t] \in Queues /\ m_mutex' = [m_mutex EXCEPT ![at[t]] = None]
            /\ \A s \in Threads \ {t} : pc'[s] = pc[s] /\ at'[s] = at[s]
            /\ pc[t] = "held"
        BY <2>4 DEF Dequeue, ReturnEmpty, Unlock, Return
      <3>2. ASSUME NEW q \in Queues, NEW s \in Threads, m_mutex'[q] = s
            PROVE  s # t /\ m_mutex[q] = s
        BY <3>1, <3>2
      <3> QED
        BY <3>1, <3>2
    <2>5. CASE NotifyOne(t) \/ NotifyAll(t)
      BY <2>5 DEF NotifyOne, NotifyAll, Sleepers
    <2>6. CASE SpuriousWakeup(t)
      BY <2>6 DEF SpuriousWakeup
    <2> QED
      BY <1>1, <2>1, <2>2, <2>3, <2>4, <2>5, <2>6 DEF QueueStep, QueueProgress
  <1>2. ASSUME NEW t \in Threads, NEW o, NEW q \in Queues, NEW k, Call(t, o, q, k)
        PROVE  MutexHeld'
    BY <1>2 DEF Call, Idle
  <1> QED
    BY <1>1, <1>2 DEF QueueNext, CallPush, CallPop, CallClose

\* Two threads are never in critical sections of one queue.
THEOREM MutexesHeld == QueueSpec => []MutexHeld
PROOF
  <1>1. QueueInit => MutexHeld
    BY QueueAssumption DEF QueueInit, MutexHeld
  <1>2. QueueTypeOK /\ MutexHeld /\ [QueueNext]_qvars => MutexHeld'
    BY MutexStep DEF qvars, MutexHeld
  <1> QED
    BY <1>1, <1>2, QueueTypeCorrect, PTL DEF QueueSpec

-----------------------------------------------------------------------------
(***************************************************************************)
(* Who will visit which queue.                                             *)
(***************************************************************************)

\* The loop of run visits every queue.
LEMMA LoopVisitsAll ==
    ASSUME IndicesFit, NEW w \in Workers, NEW q \in Workers
    PROVE  \E i \in 0 .. m_threadCount - 1 : Index(w, i) = q
PROOF
  <1> USE SchedulerAssumption DEF Workers, IndicesFit
  <1>1. CASE w =< q
    <2>1. q - w \in 0 .. m_threadCount - 1 /\ w + (q - w) = q
      BY <1>1
    <2>2. q % ThreadIdLimit = q /\ q % m_threadCount = q
      OBVIOUS
    <2> QED
      BY <2>1, <2>2 DEF Index
  <1>2. CASE w > q
    <2> DEFINE i == q - w + m_threadCount
    <2>1. i \in 0 .. m_threadCount - 1 /\ w + i = q + m_threadCount
      BY <1>2
    <2>2. (q + m_threadCount) % ThreadIdLimit = q + m_threadCount
      BY <1>2
    <2>3. (q + m_threadCount) % m_threadCount = q
      OBVIOUS
    <2> QED
      BY <2>1, <2>2, <2>3 DEF Index
  <1> QED
    BY <1>1, <1>2

\* What thread s executes, as far as it matters here.
Same(s) ==
    /\ ctl'[s] = ctl[s] /\ offset'[s] = offset[s]
    /\ op'[s] = op[s] /\ at'[s] = at[s] /\ ret'[s] = ret[s]

\* What thread s does not change does not change what it will visit.
LEMMA VisitFrame ==
    ASSUME NEW s, Same(s)
    PROVE  /\ Leaving(s)' <=> Leaving(s)
           /\ \A q : WillVisit(s, q)' <=> WillVisit(s, q)
PROOF
  BY DEF Same, Leaving, WillVisit, Succeeded, Idle

\* A step of t keeps LeavingServed if what t would have visited is visited by
\* another, or is empty; and if a queue that is left, or gets a task, has a
\* visitor.
LEMMA ServedKept ==
    ASSUME LeavingServed, NEW t \in Threads,
           \A s \in Workers \ {t} : Same(s),
           \A q \in Queues : Leaving(q)' /\ m_taskQueue'[q] # << >> =>
               \/ Leaving(q) /\ m_taskQueue[q] # << >>
               \/ \E w \in Workers : WillVisit(w, q)',
           \A q \in Queues : t \in Workers /\ WillVisit(t, q) /\ Leaving(q)' /\ m_taskQueue'[q] # << >> =>
               \/ WillVisit(t, q)'
               \/ \E w \in Workers \ {t} : WillVisit(w, q)
    PROVE  LeavingServed'
PROOF
  <1>1. \A s \in Workers \ {t}, q \in Queues : WillVisit(s, q)' <=> WillVisit(s, q)
    BY VisitFrame
  <1> QED
    BY <1>1 DEF LeavingServed

-----------------------------------------------------------------------------
(***************************************************************************)
(* The steps of a queue.                                                   *)
(***************************************************************************)

\* What is assumed of the environment: try_lock fails only on a mutex that is
\* held, every task is a callable, and no index overflows.
Assumptions ==
    /\ ~SpuriousTryLock
    /\ EmptyTasks = {}
    /\ IndicesFit

\* The invariants so far.
PoolInv == ConservationInv /\ MutexHeld /\ ServedInv

\* What a step of t in a queue leaves alone.
LEMMA QueueFrame ==
    ASSUME QueueTypeOK, NEW t \in Threads, QueueStep(t)
    PROVE  /\ \A s \in Threads \ {t} :
                /\ op'[s] = op[s] /\ at'[s] = at[s] /\ ret'[s] = ret[s]
                /\ op[s] # "pop" => pc'[s] = pc[s]
           /\ op'[t] # "none" => op'[t] = op[t] /\ at'[t] = at[t] /\ ret'[t] = ret[t]
           /\ ~SetClosed(t) => m_isClosed' = m_isClosed
PROOF
  <1> USE QueueAssumption DEF QueueTypeOK, CallsWellFormed, Pushing, Popping, Trying, queueVars
  <1>1. CASE Lock(t) \/ SetClosed(t) \/ Wait(t) \/ SpuriousWakeup(t) \/ Enqueue(t)
    BY <1>1 DEF Lock, SetClosed, Wait, SpuriousWakeup, Enqueue
  <1>2. CASE TryLockFails(t) \/ ReturnEmpty(t) \/ Dequeue(t)
    BY <1>2 DEF TryLockFails, ReturnEmpty, Dequeue, Return
  <1>3. CASE NotifyOne(t) \/ NotifyAll(t)
    BY <1>3 DEF NotifyOne, NotifyAll, Sleepers
  <1> QED
    BY <1>1, <1>2, <1>3 DEF QueueStep, QueueProgress

\* A client is in an operation of a queue only while the scheduler is up, when
\* no queue is closed and no worker leaves.
LEMMA ClientsBeforeClose ==
    ASSUME PoolInv, NEW c \in Clients, ~Idle(c)
    PROVE  \A q \in Queues : ~Leaving(q)
PROOF
  <1>1. c \in Threads /\ c \notin Workers /\ c # Owner /\ Queues = Workers
    BY SchedulerAssumption
  <1>2. ctl[c] \in {"submit", "force"}
    BY <1>1 DEF PoolInv, ConservationInv, SchedulerTypeOK, ControlWellFormed, Calling
  <1>3. ctl[Owner] = "up"
    BY <1>2 DEF PoolInv, ServedInv, ClosingInOrder
  <1>4. \A q \in Queues : ~m_isClosed[q]
    BY <1>3 DEF PoolInv, ServedInv, ClosingInOrder
  <1> QED
    BY <1>1, <1>4 DEF PoolInv, ServedInv, LeavingClosed

\* Who has the mutex of a queue whose worker leaves is a worker that will visit
\* it: the holder looks at the queue or has pushed on it.
LEMMA HolderVisits ==
    ASSUME PoolInv, NEW q \in Queues, Leaving(q), NEW u \in Threads, m_mutex[q] = u
    PROVE  u \in Workers /\ WillVisit(u, q)
PROOF
  <1>0. /\ Queues = Workers /\ Owner \notin Workers /\ Threads = Workers \cup Clients \cup {Owner}
        /\ q \in Threads
    BY SchedulerAssumption
  <1>1. pc[u] = "held" /\ at[u] = q
    BY DEF PoolInv, MutexHeld
  <1>2. ~Idle(u)
    BY <1>1 DEF PoolInv, ConservationInv, SchedulerTypeOK, QueueTypeOK, CallsWellFormed, Idle
  <1>3. m_isClosed[q]
    BY <1>0 DEF PoolInv, ServedInv, LeavingClosed
  <1>4. u # Owner
    BY <1>1, <1>2, <1>3 DEF PoolInv, ServedInv, ClosingInOrder
  <1>5. u \in Workers
    BY <1>0, <1>2, <1>4, ClientsBeforeClose
  <1>6. ctl[u] \in {"scan", "own", "submit", "force"}
    BY <1>0, <1>2, <1>5
    DEF PoolInv, ConservationInv, SchedulerTypeOK, ControlWellFormed, Calling
  <1>7. ctl[u] # "own"
    <2> SUFFICES ASSUME ctl[u] = "own" PROVE FALSE
      OBVIOUS
    <2>1. u = q
      BY <1>1, <1>2, <1>5 DEF PoolInv, ServedInv, PopsOwn
    <2> QED
      BY <1>2, <2>1 DEF Leaving
  <1> QED
    BY <1>1, <1>5, <1>6, <1>7 DEF WillVisit

\* The steps of the queues: what is left in, or pushed on, a queue whose worker
\* leaves will be visited, also when a tryPop fails because of the mutex.
LEMMA QueueStepServes ==
    ASSUME Assumptions, PoolInv, NEW t \in Threads, QueueStep(t), UNCHANGED svars
    PROVE  LeavingClosed' /\ LeavingServed' /\ PopsOwn'
PROOF
  <1>0. /\ Queues = Workers /\ Owner \notin Workers /\ Threads = Workers \cup Clients \cup {Owner}
        /\ None \notin Queues /\ LeavingServed /\ LeavingClosed /\ PopsOwn /\ QueueTypeOK
    BY SchedulerAssumption, QueueAssumption
    DEF PoolInv, ServedInv, ConservationInv, SchedulerTypeOK
  <1>1. ~Idle(t) /\ at[t] \in Queues
    BY QueueStepFrame, <1>0 DEF Idle, QueueTypeOK, CallsWellFormed
  <1>2. \A s \in Threads \ {t} : Same(s)
    BY <1>0, QueueFrame DEF Same, svars
  <1>3. ctl'[t] = ctl[t] /\ offset'[t] = offset[t]
    BY DEF svars
  <1>4. PopsOwn'
    BY <1>0, <1>2, <1>3, QueueFrame DEF PopsOwn, Same, Idle
  <1>5. \A q \in Queues : m_isClosed[q] => m_isClosed'[q]
    BY <1>0, QueueFrame DEF SetClosed, QueueTypeOK
  <1>6. \A q \in Workers \ {t} : Leaving(q)' <=> Leaving(q)
    BY <1>0, <1>2, VisitFrame
  <1>7. ~Leaving(t)
    BY <1>0, <1>1 DEF Leaving, PoolInv, ConservationInv, SchedulerTypeOK, ControlWellFormed
  <1>8. LeavingClosed' /\ (t \in Workers /\ Leaving(t)' => at[t] = t /\ ReturnEmpty(t))
    <2>1. ASSUME t \in Workers, Leaving(t)'
          PROVE  at[t] = t /\ ReturnEmpty(t) /\ m_isClosed'[t]
      <3>1. ctl[t] = "own" /\ op[t] = "pop" /\ op'[t] = "none" /\ ~ret'[t]
        BY <1>1, <1>3, <2>1
        DEF Leaving, Idle, PoolInv, ConservationInv, SchedulerTypeOK, ControlWellFormed
      <3>2. at[t] = t
        BY <1>0, <1>1, <2>1, <3>1 DEF PopsOwn
      <3>3. ReturnEmpty(t)
        BY <1>0, <3>1
        DEF QueueStep, QueueProgress, Lock, TryLockFails, Enqueue, NotifyOne, SetClosed, NotifyAll,
            Dequeue, Wait, SpuriousWakeup, Return, Pushing, Trying, QueueTypeOK
      <3> QED
        BY <1>0, <1>5, <2>1, <3>1, <3>2, <3>3 DEF ReturnEmpty
    <2> QED
      BY <1>0, <1>5, <1>6, <2>1 DEF LeavingClosed
  <1>9. ASSUME NEW q \in Queues, Leaving(q)', m_taskQueue'[q] # << >>
        PROVE  \/ Leaving(q) /\ m_taskQueue[q] # << >>
               \/ \E w \in Workers : WillVisit(w, q)'
    <2>1. q # t \/ ~(t \in Workers)
      <3> SUFFICES ASSUME q = t, t \in Workers PROVE FALSE
        OBVIOUS
      <3>1. at[t] = t /\ ReturnEmpty(t)
        BY <1>8, <1>9
      <3> QED
        BY <1>0, <1>9, <3>1 DEF ReturnEmpty, QueueTypeOK
    <2>2. Leaving(q)
      BY <1>0, <1>6, <1>9, <2>1
    <2>3. CASE Enqueue(t) /\ at[t] = q
      <3>1. t \in Workers
        <4>1. t \notin Clients
          BY <1>1, <2>2, ClientsBeforeClose
        <4>2. ctl[t] \in {"submit", "force"}
          BY <1>1, <2>3
          DEF Enqueue, Pushing, Idle, PoolInv, ConservationInv, SchedulerTypeOK, ControlWellFormed
        <4>3. t # Owner
          BY <1>0, <4>2, SchedulerAssumption
          DEF PoolInv, ConservationInv, SchedulerTypeOK, ControlWellFormed
        <4> QED
          BY <1>0, <4>1, <4>3
      <3>2. ctl[t] \in {"submit", "force"}
        BY <1>1, <2>3
        DEF Enqueue, Pushing, Idle, PoolInv, ConservationInv, SchedulerTypeOK, ControlWellFormed
      <3> QED
        BY <1>3, <3>1, <3>2 DEF WillVisit
    <2>4. CASE ~(Enqueue(t) /\ at[t] = q)
      <3>1. m_taskQueue[q] # << >>
        BY <1>0, <1>1, <1>9, <2>4
        DEF QueueStep, QueueProgress, Lock, TryLockFails, Enqueue, NotifyOne, SetClosed, NotifyAll,
            Dequeue, ReturnEmpty, Wait, SpuriousWakeup, queueVars, QueueTypeOK
      <3> QED
        BY <2>2, <3>1
    <2> QED
      BY <2>3, <2>4
  <1>10. ASSUME NEW q \in Queues, t \in Workers, WillVisit(t, q), Leaving(q)', m_taskQueue'[q] # << >>
         PROVE  \/ WillVisit(t, q)'
                \/ \E w \in Workers \ {t} : WillVisit(w, q)
    <2>1. CASE ctl[t] \in {"user", "submit", "force", "await"}
      BY <1>3, <2>1 DEF WillVisit
    <2>2. CASE ctl[t] = "scan" /\ \E i \in offset[t] .. m_threadCount - 1 : Index(t, i) = q
      BY <1>3, <2>2 DEF WillVisit
    <2>3. CASE ctl[t] = "scan" /\ at[t] = q
      <3>1. op[t] = "tryPop" /\ offset[t] > 0
        BY <1>1, <2>3
        DEF Idle, PoolInv, ConservationInv, CallsFit, SchedulerTypeOK, ControlWellFormed
      <3>2. CASE op'[t] # "none"
        BY <1>0, <1>3, <2>3, <3>2, QueueFrame DEF WillVisit
      <3>3. CASE TryLockFails(t)
        <4>1. m_mutex[q] # None /\ m_mutex[q] \in Threads /\ pc[t] = "lock"
          BY <1>0, <2>3, <3>3 DEF TryLockFails, Assumptions, QueueTypeOK
        <4>2. Leaving(q)
          BY <1>0, <1>3, <1>6, <1>10, <2>3 DEF Leaving
        <4>3. m_mutex[q] \in Workers /\ WillVisit(m_mutex[q], q)
          BY <4>1, <4>2, HolderVisits
        <4>4. m_mutex[q] # t
          BY <4>1 DEF PoolInv, MutexHeld
        <4> QED
          BY <4>3, <4>4
      <3>4. CASE Dequeue(t)
        BY <1>3, <2>3, <3>1, <3>4, <1>0
        DEF Dequeue, Return, WillVisit, Succeeded, Idle, QueueTypeOK
      <3>5. CASE ReturnEmpty(t)
        <4>1. m_taskQueue'[q] = << >>
          BY <2>3, <3>5 DEF ReturnEmpty
        <4> QED
          BY <1>10, <4>1
      <3> QED
        BY <1>0, <3>1, <3>2, <3>3, <3>4, <3>5
        DEF QueueStep, QueueProgress, Lock, Enqueue, NotifyOne, SetClosed, NotifyAll, Wait,
            SpuriousWakeup, Pushing, QueueTypeOK
    <2> QED
      BY <1>1, <1>10, <2>1, <2>2, <2>3 DEF WillVisit, Succeeded
  <1>11. LeavingServed'
    BY <1>0, <1>2, <1>9, <1>10, ServedKept
  <1> QED
    BY <1>4, <1>8, <1>11

\* The steps of the queues: only the owner closes, in its order.
LEMMA QueueStepCloses ==
    ASSUME PoolInv, NEW t \in Threads, QueueStep(t), UNCHANGED svars
    PROVE  ClosingInOrder' /\ JoinedInOrder' /\ NothingEarly'
PROOF
  <1>0. /\ Queues = Workers /\ Owner \notin Workers /\ Owner \in Threads
        /\ ClosingInOrder /\ JoinedInOrder /\ NothingEarly /\ QueueTypeOK
        /\ ~Idle(Owner) => op[Owner] = "close" /\ ctl[Owner] = "closing"
        /\ op[t] = "close" => t = Owner
        /\ offset[Owner] \in Nat
    <2>1. /\ Queues = Workers /\ Owner \notin Workers /\ Owner \notin Clients /\ Owner \in Threads
          /\ Threads = Workers \cup Clients \cup {Owner} /\ Workers \cap Clients = {}
      BY SchedulerAssumption
    <2>2. /\ ClosingInOrder /\ JoinedInOrder /\ NothingEarly /\ QueueTypeOK /\ ControlWellFormed
          /\ offset[Owner] \in Nat
      BY <2>1 DEF PoolInv, ServedInv, ConservationInv, SchedulerTypeOK
    <2>3. ~Idle(Owner) => op[Owner] = "close" /\ ctl[Owner] = "closing"
      BY <2>1, <2>2 DEF ControlWellFormed
    <2>4. op[t] = "close" => ctl[t] = "closing"
      BY <2>2 DEF ControlWellFormed, Idle
    <2>5. ctl[t] = "closing" => t = Owner
      BY <2>1, <2>2 DEF ControlWellFormed, Calling
    <2> QED
      BY <2>1, <2>2, <2>3, <2>4, <2>5
  <1>1. JoinedInOrder' /\ NothingEarly'
    BY <1>0 DEF JoinedInOrder, NothingEarly, svars
  <1>2. CASE SetClosed(t)
    <2>1. /\ t = Owner /\ at[Owner] \in Queues /\ at[Owner] = offset[Owner] - 1
          /\ ctl[Owner] = "closing"
          /\ pc'[Owner] = "notify" /\ at'[Owner] = at[Owner] /\ op'[Owner] = op[Owner]
          /\ \A q \in Queues : m_isClosed'[q] => m_isClosed[q] \/ q = at[Owner]
      BY <1>0, <1>2 DEF SetClosed, ClosingInOrder, Idle, QueueTypeOK, CallsWellFormed
    <2>2. ASSUME NEW q \in Queues, m_isClosed'[q]
          PROVE  q < offset[Owner]
      <3>1. CASE q = at[Owner]
        BY <1>0, <2>1, <3>1
      <3>2. CASE m_isClosed[q]
        BY <1>0, <2>1, <3>2 DEF ClosingInOrder
      <3> QED
        BY <2>1, <2>2, <3>1, <3>2
    <2> QED
      BY <1>0, <1>1, <2>1, <2>2 DEF ClosingInOrder, svars
  <1>3. CASE ~SetClosed(t)
    <2>1. m_isClosed' = m_isClosed
      BY <1>0, <1>3, QueueFrame
    <2>2. ~Idle(Owner)' => /\ ~Idle(Owner)
                           /\ at'[Owner] = at[Owner]
                           /\ pc'[Owner] \in {"lock", "held"} => pc[Owner] \in {"lock", "held"}
      <3>1. CASE t = Owner
        <4>1. op'[Owner] # "none" => op[Owner] # "none" /\ at'[Owner] = at[Owner]
          BY <1>0, <3>1, QueueFrame, QueueStepFrame
        <4>2. pc'[Owner] \in {"lock", "held"} => pc[Owner] \in {"lock", "held"}
          BY <1>0, <1>3, <3>1
          DEF QueueStep, QueueProgress, Lock, TryLockFails, Enqueue, NotifyOne, NotifyAll, Dequeue,
              ReturnEmpty, Wait, SpuriousWakeup, Return, Sleepers, Pushing, Popping, Trying,
              QueueTypeOK, CallsWellFormed, Idle
        <4> QED
          BY <4>1, <4>2 DEF Idle
      <3>2. CASE t # Owner
        BY <1>0, <3>2, QueueFrame DEF Idle
      <3> QED
        BY <3>1, <3>2
    <2> QED
      BY <1>0, <1>1, <2>1, <2>2 DEF ClosingInOrder, svars
  <1> QED
    BY <1>1, <1>2, <1>3
-----------------------------------------------------------------------------
(***************************************************************************)
(* The steps of the scheduler.                                             *)
(***************************************************************************)

\* A step of a worker or a client in its own control.  What it would have
\* visited it visits still, it does not begin to leave, and it schedules
\* nothing before every worker has started.
LEMMA ThreadServes ==
    ASSUME PoolInv, NEW t \in Workers \cup Clients, OnlyThread(t),
           UNCHANGED <<m_taskQueue, m_isClosed>>,
           t \in Workers => /\ Leaving(t)' => Leaving(t)
                            /\ ctl'[t] = "own" /\ op'[t] # "none" => at'[t] = t
                            /\ ctl[t] # "unborn" /\ ctl'[t] # "unborn"
                            /\ ctl[t] = "exited" => ctl'[t] = "exited"
                            /\ \A q \in Queues : WillVisit(t, q) => WillVisit(t, q)',
           t \in Clients /\ ctl[Owner] # "up" => ctl'[t] \in {"user", "await"},
           ctl[Owner] = "spawn" \/ (\E w \in Workers : ctl[w] = "unborn") => issuer' = issuer
    PROVE  ServedInv'
PROOF
  <1>0. /\ Queues = Workers /\ Owner \notin Workers /\ Owner # t /\ Owner \in Threads
        /\ t \in Threads /\ Workers \subseteq Threads /\ Clients \subseteq Threads
        /\ Workers \cap Clients = {}
    BY SchedulerAssumption
  <1>1. \A s \in Threads \ {t} : Same(s)
    BY DEF OnlyThread, Same
  <1>2. \A q \in Workers : Leaving(q)' => Leaving(q)
    BY <1>0, <1>1, VisitFrame
  <1>3. LeavingClosed'
    BY <1>2 DEF PoolInv, ServedInv, LeavingClosed
  <1>4. LeavingServed'
    <2>1. LeavingServed
      BY DEF PoolInv, ServedInv
    <2>2. \A s \in Workers \ {t} : Same(s)
      BY <1>0, <1>1
    <2>3. \A q \in Queues : Leaving(q)' /\ m_taskQueue'[q] # << >> =>
             Leaving(q) /\ m_taskQueue[q] # << >>
      BY <1>0, <1>2
    <2> QED
      BY <1>0, <2>1, <2>2, <2>3, ServedKept
  <1>5. ClosingInOrder'
    <2>1. /\ ctl'[Owner] = ctl[Owner] /\ offset'[Owner] = offset[Owner]
          /\ op'[Owner] = op[Owner] /\ at'[Owner] = at[Owner] /\ pc'[Owner] = pc[Owner]
      BY <1>0 DEF OnlyThread
    <2>2. \A c \in Clients \ {t} : ctl'[c] = ctl[c]
      BY <1>0 DEF OnlyThread
    <2> QED
      BY <2>1, <2>2 DEF PoolInv, ServedInv, ClosingInOrder, Idle
  <1>6. JoinedInOrder' /\ NothingEarly'
    <2>1. /\ ctl'[Owner] = ctl[Owner] /\ offset'[Owner] = offset[Owner]
          /\ \A w \in Workers \ {t} : ctl'[w] = ctl[w]
      BY <1>0 DEF OnlyThread
    <2>2. \A w \in Workers : (ctl'[w] = "unborn" <=> ctl[w] = "unborn")
                             /\ (ctl[w] = "exited" => ctl'[w] = "exited")
      BY <2>1
    <2> QED
      BY <2>1, <2>2 DEF PoolInv, ServedInv, JoinedInOrder, NothingEarly
  <1>7. PopsOwn'
    BY <1>0, <1>1 DEF PoolInv, ServedInv, PopsOwn, Same, Idle
  <1> QED
    BY <1>3, <1>4, <1>5, <1>6, <1>7 DEF ServedInv

\* The steps of a worker in run.
LEMMA WorkerServes ==
    ASSUME Assumptions, PoolInv, NEW w \in Workers,
           Scan(w) \/ PopOwn(w) \/ Run(w) \/ Finish(w) \/ Quit(w)
    PROVE  ServedInv'
PROOF
  <1>0. /\ Queues = Workers /\ w \in Threads /\ w \notin Clients /\ w \in Nat
        /\ m_threadCount \in Nat /\ None \notin Queues
    BY SchedulerAssumption, QueueAssumption DEF Workers
  <1>1. /\ SchedulerTypeOK /\ QueueTypeOK /\ ControlWellFormed
        /\ offset[w] \in Nat /\ EmptyTasks = {}
    BY <1>0 DEF PoolInv, ConservationInv, SchedulerTypeOK, Assumptions
  <1>2. /\ OnlyThread(w) /\ UNCHANGED <<m_taskQueue, m_isClosed, issuer>>
        /\ ctl[w] \notin {"unborn", "exited"}
        /\ w \in DOMAIN ctl /\ w \in DOMAIN op /\ w \in DOMAIN at /\ w \in DOMAIN ret
        /\ w \in DOMAIN offset
    <2>1. CASE Scan(w) \/ PopOwn(w)
      BY <1>0, <1>1, <2>1
      DEF Scan, PopOwn, CallPop, Call, OnlyThread, queueVars, Goto, SchedulerTypeOK, QueueTypeOK
    <2>2. CASE Run(w) \/ Finish(w) \/ Quit(w)
      BY <1>0, <1>1, <2>2
      DEF Run, Finish, Quit, OnlyThread, qvars, Goto, SchedulerTypeOK, QueueTypeOK
    <2> QED
      BY <2>1, <2>2
  <1>3. CASE Scan(w)
    <2>1. /\ ctl[w] = "scan" /\ op[w] = "none" /\ ~Succeeded(w)
          /\ ctl'[w] = "scan" /\ offset'[w] = offset[w] + 1
          /\ at'[w] = Index(w, offset[w]) /\ at[w] = None
      BY <1>0, <1>1, <1>2, <1>3
      DEF Scan, CallPop, Call, Goto, Retrying, Succeeded, Idle, QueueTypeOK, CallsWellFormed
    <2>2. ASSUME NEW q \in Queues, WillVisit(w, q)
          PROVE  WillVisit(w, q)'
      <3>1. PICK i \in offset[w] .. m_threadCount - 1 : Index(w, i) = q
        BY <1>0, <2>1, <2>2 DEF WillVisit
      <3>2. CASE i = offset[w]
        BY <2>1, <3>1, <3>2 DEF WillVisit
      <3>3. CASE i # offset[w]
        <4>1. i \in offset'[w] .. m_threadCount - 1
          BY <1>0, <1>1, <2>1, <3>1, <3>3
        <4> QED
          BY <2>1, <3>1, <4>1 DEF WillVisit, Index
      <3> QED
        BY <3>2, <3>3
    <2>3. ~Leaving(w)'
      BY <2>1 DEF Leaving
    <2> QED
      BY <1>0, <1>2, <2>1, <2>2, <2>3, ThreadServes
  <1>4. CASE PopOwn(w)
    <2>1. /\ ctl[w] = "scan" /\ op[w] = "none" /\ ~Succeeded(w) /\ offset[w] >= m_threadCount
          /\ ctl'[w] = "own" /\ op'[w] = "pop"
          /\ at'[w] = w /\ at[w] = None
      BY <1>0, <1>1, <1>2, <1>4
      DEF PopOwn, CallPop, Call, Goto, Retrying, Succeeded, Idle, QueueTypeOK, CallsWellFormed
    <2>2. \A q \in Queues : ~WillVisit(w, q)
      BY <1>0, <1>1, <2>1 DEF WillVisit
    <2>3. ~Leaving(w)'
      BY <2>1 DEF Leaving, Idle
    <2> QED
      BY <1>0, <1>2, <2>1, <2>2, <2>3, ThreadServes
  <1>5. CASE Run(w)
    <2>1. ctl'[w] = "user"
      BY <1>2, <1>5 DEF Run, Goto
    <2>2. ~Leaving(w)' /\ \A q \in Queues : WillVisit(w, q)'
      BY <2>1 DEF Leaving, WillVisit
    <2> QED
      BY <1>0, <1>2, <2>1, <2>2, ThreadServes
  <1>6. CASE Finish(w)
    <2>1. ctl'[w] = "scan" /\ offset'[w] = 0
      BY <1>2, <1>6 DEF Finish, Goto
    <2>2. \A q \in Queues : WillVisit(w, q)'
      BY <1>0, <2>1, LoopVisitsAll DEF Assumptions, WillVisit, Index
    <2>3. ~Leaving(w)'
      BY <2>1 DEF Leaving
    <2> QED
      BY <1>0, <1>2, <2>1, <2>2, <2>3, ThreadServes
  <1>7. CASE Quit(w)
    <2>1. ctl[w] = "own" /\ ~ret[w] /\ Idle(w) /\ ctl'[w] = "exited"
      BY <1>2, <1>7 DEF Quit, Goto
    <2>2. Leaving(w) /\ \A q \in Queues : ~WillVisit(w, q)
      BY <2>1 DEF Leaving, WillVisit, Succeeded
    <2> QED
      BY <1>0, <1>2, <2>1, <2>2, ThreadServes
  <1> QED
    BY <1>3, <1>4, <1>5, <1>6, <1>7

\* The steps of a client, or of a worker in a handler.
LEMMA CallerServes ==
    ASSUME PoolInv, NEW t \in Workers \cup Clients,
           \/ TrySubmit(t) \/ ForcePush(t) \/ Scheduled(t) \/ Resume(t)
           \/ \E k \in Tasks : Schedule(t, k) \/ Await(t, k)
    PROVE  ServedInv'
PROOF
  <1>0. /\ Queues = Workers /\ t \in Threads /\ Owner \notin Workers /\ Workers \cap Clients = {}
        /\ t # Owner /\ None \notin Tasks
    BY SchedulerAssumption, QueueAssumption
  <1>1. /\ SchedulerTypeOK /\ QueueTypeOK /\ ControlWellFormed /\ ClosingInOrder /\ NothingEarly
    BY <1>0 DEF PoolInv, ServedInv, ConservationInv, SchedulerTypeOK
  <1>2. /\ OnlyThread(t) /\ UNCHANGED <<m_taskQueue, m_isClosed>>
        /\ ctl[t] \in {"user", "submit", "force", "await"}
        /\ ctl'[t] \in {"user", "submit", "force", "await"}
    <2>1. CASE TrySubmit(t) \/ ForcePush(t)
      BY <1>0, <1>1, <2>1
      DEF TrySubmit, ForcePush, Forcing, CallPush, Call, OnlyThread, queueVars, Goto,
          SchedulerTypeOK, QueueTypeOK
    <2>2. CASE Scheduled(t) \/ Resume(t)
      BY <1>0, <1>1, <2>2 DEF Scheduled, Resume, OnlyThread, qvars, Goto, SchedulerTypeOK
    <2>3. CASE \E k \in Tasks : Schedule(t, k) \/ Await(t, k)
      BY <1>0, <1>1, <2>3 DEF Schedule, Await, OnlyThread, qvars, Goto, SchedulerTypeOK
    <2> QED
      BY <2>1, <2>2, <2>3
  <1>3. t \in Clients /\ ctl[Owner] # "up" => ctl'[t] \in {"user", "await"}
    <2> SUFFICES ASSUME t \in Clients, ctl[Owner] # "up" PROVE ctl'[t] \in {"user", "await"}
      OBVIOUS
    <2>1. ctl[t] \in {"user", "await"}
      BY <1>1 DEF ClosingInOrder
    <2>2. ctl'[t] \in {"user", "await"}
      BY <1>0, <1>1, <2>1
      DEF TrySubmit, ForcePush, Forcing, Scheduled, Resume, Schedule, Await, Goto, SchedulerTypeOK
    <2> QED
      BY <2>2
  <1>4. ctl[Owner] = "spawn" \/ (\E w \in Workers : ctl[w] = "unborn") => issuer' = issuer
    <2>1. CASE \E k \in Tasks : Schedule(t, k)
      <3>1. CASE t \in Clients
        <4>1. ctl[Owner] = "up"
          BY <2>1, <3>1 DEF Schedule
        <4> QED
          BY <1>1, <4>1 DEF NothingEarly
      <3>2. CASE t \in Workers
        <4>1. running[t] \in Tasks
          BY <1>0, <1>1, <2>1, <3>2 DEF Schedule, ControlWellFormed, Calling
        <4>2. Holds("runner", t, running[t]) /\ t \in Places /\ "runner" \in Kinds
          BY <1>0, <3>2 DEF Holds, Places, Kinds
        <4>3. issuer[running[t]] # None
          BY <4>1, <4>2, OnlyThere DEF PoolInv
        <4> QED
          BY <1>1, <4>1, <4>3 DEF NothingEarly
      <3> QED
        BY <3>1, <3>2
    <2>2. CASE \/ TrySubmit(t) \/ ForcePush(t) \/ Scheduled(t) \/ Resume(t)
               \/ \E k \in Tasks : Await(t, k)
      BY <2>2 DEF TrySubmit, ForcePush, Scheduled, Resume, Await
    <2> QED
      BY <2>1, <2>2
  <1>5. ~Leaving(t)' /\ \A q \in Queues : WillVisit(t, q)'
    BY <1>2 DEF Leaving, WillVisit
  <1> QED
    BY <1>0, <1>2, <1>3, <1>4, <1>5, ThreadServes

\* The steps of the owner in the constructor and the destructor.
LEMMA OwnerServes ==
    ASSUME PoolInv, OwnerProgress \/ Destroy \/ SpawnNone
    PROVE  ServedInv'
PROOF
  <1>0. /\ Queues = Workers /\ Owner \in Threads /\ Owner \notin Workers /\ Owner \notin Clients
        /\ Workers \subseteq Threads /\ Clients \subseteq Threads /\ m_threadCount \in Nat
        /\ Workers = 0 .. m_threadCount - 1
    BY SchedulerAssumption DEF Workers
  <1>1. /\ SchedulerTypeOK /\ QueueTypeOK /\ CallsWellFormed /\ ControlWellFormed
        /\ LeavingClosed /\ LeavingServed /\ ClosingInOrder /\ JoinedInOrder /\ NothingEarly
        /\ PopsOwn
        /\ offset[Owner] \in Nat
    BY <1>0 DEF PoolInv, ServedInv, ConservationInv, SchedulerTypeOK, QueueTypeOK
  <1>2. CASE Close \/ AllClosed \/ Join \/ Destroy \/ SpawnNone
    <2>1. /\ OnlyThread(Owner) /\ UNCHANGED <<m_taskQueue, m_isClosed, issuer>>
          /\ ctl[Owner] \in {"up", "spawn", "closing", "joining"}
          /\ ctl'[Owner] \in {"closing", "joining", "gone"}
          /\ Idle(Owner)
      <3>1. CASE Close
        BY <1>0, <1>1, <3>1
        DEF Close, CallClose, Call, OnlyThread, queueVars, Goto, SchedulerTypeOK, QueueTypeOK, Idle
      <3>2. CASE AllClosed \/ Join \/ Destroy \/ SpawnNone
        <4>1. /\ OnlyThread(Owner) /\ UNCHANGED <<m_taskQueue, m_isClosed, issuer>>
              /\ ctl[Owner] \in {"up", "spawn", "closing", "joining"}
              /\ ctl'[Owner] \in {"closing", "joining", "gone"}
          BY <1>0, <1>1, <3>2
          DEF AllClosed, Join, Destroy, SpawnNone, OnlyThread, qvars, Goto, SchedulerTypeOK
        <4>2. Idle(Owner)
          BY <1>0, <1>1, <3>2 DEF AllClosed, Join, Destroy, SpawnNone, ControlWellFormed
        <4> QED
          BY <4>1, <4>2
      <3> QED
        BY <1>2, <3>1, <3>2
    <2>2. \A s \in Workers \cup Clients :
             /\ Same(s) /\ ctl'[s] = ctl[s]
      BY <1>0, <2>1 DEF OnlyThread, Same
    <2>3. LeavingClosed' /\ PopsOwn'
      BY <1>0, <1>1, <2>1, <2>2, VisitFrame DEF LeavingClosed, PopsOwn, Same, Idle
    <2>4. LeavingServed'
      <3>1. \A w \in Workers, q \in Queues : WillVisit(w, q)' <=> WillVisit(w, q)
        BY <2>2, VisitFrame
      <3>2. \A q \in Queues : Leaving(q)' <=> Leaving(q)
        BY <1>0, <2>2, VisitFrame
      <3> QED
        BY <1>1, <2>1, <3>1, <3>2 DEF LeavingServed
    <2>5. ClosingInOrder' /\ JoinedInOrder' /\ NothingEarly'
      <3>1. CASE Close
        <4>1. /\ ctl[Owner] = "closing" /\ ctl'[Owner] = "closing"
              /\ offset'[Owner] = offset[Owner] + 1 /\ at'[Owner] = offset[Owner]
              /\ offset[Owner] \in Queues
          BY <1>0, <1>1, <3>1 DEF Close, CallClose, Call, Goto, SchedulerTypeOK, QueueTypeOK
        <4>2. ~m_isClosed[offset[Owner]]
          BY <1>0, <1>1, <4>1 DEF ClosingInOrder
        <4>3. \A q \in Queues : m_isClosed[q] => q < offset'[Owner]
          BY <1>0, <1>1, <4>1 DEF ClosingInOrder
        <4>4. \A c \in Clients : ctl'[c] \in {"user", "await"}
          BY <1>1, <2>2, <4>1 DEF ClosingInOrder
        <4>5. ClosingInOrder'
          BY <1>1, <2>1, <4>1, <4>2, <4>3, <4>4 DEF ClosingInOrder
        <4>6. JoinedInOrder' /\ NothingEarly'
          BY <1>1, <2>1, <2>2, <4>1 DEF JoinedInOrder, NothingEarly
        <4> QED
          BY <4>5, <4>6
      <3>2. CASE AllClosed
        <4>1. /\ ctl[Owner] = "closing" /\ ctl'[Owner] = "joining" /\ offset'[Owner] = 0
              /\ op'[Owner] = op[Owner]
          BY <1>0, <1>1, <3>2 DEF AllClosed, Goto, SchedulerTypeOK, qvars
        <4>2. ClosingInOrder'
          BY <1>1, <2>1, <2>2, <4>1 DEF ClosingInOrder, Idle
        <4>3. JoinedInOrder' /\ NothingEarly'
          BY <1>0, <1>1, <2>1, <2>2, <4>1 DEF JoinedInOrder, NothingEarly
        <4> QED
          BY <4>2, <4>3
      <3>3. CASE Join
        <4>1. /\ ctl[Owner] = "joining" /\ op'[Owner] = op[Owner]
              /\ \/ /\ ctl'[Owner] = "joining" /\ offset'[Owner] = offset[Owner] + 1
                    /\ ctl[offset[Owner]] = "exited"
                 \/ /\ ctl'[Owner] = "gone" /\ offset[Owner] >= m_threadCount
          BY <1>0, <1>1, <3>3 DEF Join, Goto, SchedulerTypeOK, qvars
        <4>2. ClosingInOrder'
          BY <1>1, <2>1, <2>2, <4>1 DEF ClosingInOrder, Idle
        <4>3. NothingEarly'
          BY <1>1, <2>1, <2>2, <4>1 DEF NothingEarly
        <4>4. ASSUME NEW w \in Workers, w < offset[Owner] PROVE ctl'[w] = "exited"
          BY <1>1, <2>2, <4>1, <4>4 DEF JoinedInOrder
        <4>5. CASE ctl'[Owner] = "joining"
          <5>1. offset'[Owner] = offset[Owner] + 1 /\ ctl[offset[Owner]] = "exited"
            BY <4>1, <4>5
          <5>2. ASSUME NEW w \in Workers, w < offset'[Owner] PROVE ctl'[w] = "exited"
            <6>1. CASE w < offset[Owner]
              BY <4>4, <6>1
            <6>2. CASE ~(w < offset[Owner])
              <7>1. w = offset[Owner]
                BY <1>0, <1>1, <5>1, <5>2, <6>2
              <7> QED
                BY <2>2, <5>1, <7>1
            <6> QED
              BY <6>1, <6>2
          <5> QED
            BY <4>2, <4>3, <4>5, <5>2 DEF JoinedInOrder
        <4>6. CASE ctl'[Owner] = "gone"
          <5>1. \A w \in Workers : w < offset[Owner]
            BY <1>0, <1>1, <4>1, <4>6
          <5> QED
            BY <4>2, <4>3, <4>4, <4>6, <5>1 DEF JoinedInOrder
        <4> QED
          BY <4>1, <4>5, <4>6
      <3>4. CASE Destroy
        <4>1. /\ ctl[Owner] = "up" /\ ctl'[Owner] = "closing" /\ op'[Owner] = op[Owner]
              /\ \A c \in Clients : ctl[c] \in {"user", "await"}
          BY <1>0, <1>1, <3>4 DEF Destroy, Goto, SchedulerTypeOK, qvars
        <4>2. ClosingInOrder'
          BY <1>1, <2>1, <2>2, <4>1 DEF ClosingInOrder, Idle
        <4>3. JoinedInOrder' /\ NothingEarly'
          BY <1>1, <2>1, <2>2, <4>1 DEF JoinedInOrder, NothingEarly
        <4> QED
          BY <4>2, <4>3
      <3>5. CASE SpawnNone
        <4>1. /\ ctl[Owner] = "spawn" /\ ctl'[Owner] = "gone" /\ op'[Owner] = op[Owner]
              /\ offset[Owner] = 0 /\ m_threadCount > 0
          BY <1>0, <1>1, <3>5 DEF SpawnNone, Goto, SchedulerTypeOK, qvars
        <4>2. ctl'[0] = "unborn" /\ 0 \in Workers
          BY <1>0, <1>1, <2>2, <4>1 DEF ControlWellFormed
        <4>3. ClosingInOrder'
          BY <1>1, <2>1, <2>2, <4>1 DEF ClosingInOrder, Idle
        <4>4. JoinedInOrder'
          BY <4>1, <4>2 DEF JoinedInOrder
        <4>5. NothingEarly'
          BY <1>1, <2>1, <2>2, <4>1 DEF NothingEarly
        <4> QED
          BY <4>3, <4>4, <4>5
      <3> QED
        BY <1>2, <3>1, <3>2, <3>3, <3>4, <3>5
    <2> QED
      BY <2>3, <2>4, <2>5 DEF ServedInv
  <1>3. CASE Spawn
    <2>1. UNCHANGED qvars /\ UNCHANGED issuer /\ ctl[Owner] = "spawn" /\ Idle(Owner)
      BY <1>0, <1>1, <1>3 DEF Spawn, ControlWellFormed
    <2>2. CASE offset[Owner] < m_threadCount
      <3> DEFINE w == offset[Owner]
      <3>1. /\ w \in Workers /\ ctl[w] = "unborn" /\ ctl'[w] = "scan"
            /\ \A s \in Threads \ {w} : ctl'[s] = ctl[s]
            /\ offset'[Owner] = w + 1
            /\ \A s \in Threads \ {Owner} : offset'[s] = offset[s]
        BY <1>0, <1>1, <1>3, <2>1, <2>2 DEF Spawn, SchedulerTypeOK, ControlWellFormed
      <3> HIDE DEF w
      <3>2. \A s \in Workers \ {w} : Same(s)
        BY <1>0, <2>1, <3>1 DEF Same, qvars
      <3>3. \A q \in Queues : Leaving(q)' => Leaving(q)
        BY <1>0, <3>1, <3>2, VisitFrame DEF Leaving
      <3>4. \A q \in Queues : ~WillVisit(w, q)
        BY <3>1 DEF WillVisit
      <3>5. LeavingServed'
        <4>1. UNCHANGED m_taskQueue
          BY <2>1 DEF qvars
        <4>2. w \in Threads
          BY <1>0, <3>1
        <4> QED
          BY <1>1, <3>2, <3>3, <3>4, <4>1, <4>2, ServedKept
      <3>6. LeavingClosed'
        BY <1>0, <1>1, <2>1, <3>3 DEF LeavingClosed, qvars
      <3>7. ctl'[Owner] = "spawn" /\ \A c \in Clients : ctl'[c] = ctl[c]
        BY <1>0, <2>1, <3>1, SchedulerAssumption
      <3>8. ClosingInOrder'
        BY <1>1, <2>1, <3>7 DEF ClosingInOrder, Idle, qvars
      <3>9. JoinedInOrder'
        BY <3>7 DEF JoinedInOrder
      <3>10. NothingEarly'
        <4>1. ASSUME NEW v \in Workers, v < offset'[Owner] PROVE ctl'[v] # "unborn"
          <5>1. CASE v = w
            BY <3>1, <5>1
          <5>2. CASE v # w
            BY <1>0, <1>1, <2>1, <3>1, <4>1, <5>2 DEF NothingEarly, w
          <5> QED
            BY <5>1, <5>2
        <4> QED
          BY <1>1, <2>1, <3>7, <4>1 DEF NothingEarly
      <3>11. PopsOwn'
        BY <1>0, <1>1, <2>1, <3>1 DEF PopsOwn, Idle, qvars
      <3> QED
        BY <3>5, <3>6, <3>8, <3>9, <3>10, <3>11 DEF ServedInv
    <2>3. CASE ~(offset[Owner] < m_threadCount)
      <3>1. /\ ctl'[Owner] = "up"
            /\ \A s \in Threads \ {Owner} : ctl'[s] = ctl[s] /\ offset'[s] = offset[s]
        BY <1>0, <1>1, <1>3, <2>3 DEF Spawn, Goto, SchedulerTypeOK
      <3>2. \A s \in Workers \cup Clients : Same(s) /\ ctl'[s] = ctl[s]
        BY <1>0, <2>1, <3>1 DEF Same, qvars
      <3>3. LeavingClosed' /\ PopsOwn'
        BY <1>0, <1>1, <2>1, <3>2, VisitFrame DEF LeavingClosed, PopsOwn, Same, Idle, qvars
      <3>4. LeavingServed'
        <4>1. \A v \in Workers, q \in Queues : WillVisit(v, q)' <=> WillVisit(v, q)
          BY <3>2, VisitFrame
        <4>2. \A q \in Queues : Leaving(q)' <=> Leaving(q)
          BY <1>0, <3>2, VisitFrame
        <4> QED
          BY <1>1, <2>1, <4>1, <4>2 DEF LeavingServed, qvars
      <3>5. ClosingInOrder' /\ JoinedInOrder'
        BY <1>1, <2>1, <3>1 DEF ClosingInOrder, JoinedInOrder, Idle, qvars
      <3>6. \A v \in Workers : ctl[v] # "unborn"
        BY <1>0, <1>1, <2>1, <2>3 DEF NothingEarly
      <3>7. NothingEarly'
        BY <3>1, <3>2, <3>6 DEF NothingEarly
      <3> QED
        BY <3>3, <3>4, <3>5, <3>7 DEF ServedInv
    <2> QED
      BY <2>2, <2>3
  <1> QED
    BY <1>2, <1>3 DEF OwnerProgress

\* A step that changes nothing of it.
LEMMA NothingServed ==
    ASSUME ServedInv, UNCHANGED qvars, UNCHANGED <<ctl, offset, issuer>>
    PROVE  ServedInv'
PROOF
  <1>1. \A s : Same(s)
    BY DEF Same, qvars
  <1>2. \A s, q : (Leaving(s)' <=> Leaving(s)) /\ (WillVisit(s, q)' <=> WillVisit(s, q))
    BY <1>1, VisitFrame
  <1>3. LeavingClosed' /\ LeavingServed'
    BY <1>2 DEF ServedInv, LeavingClosed, LeavingServed, qvars
  <1>4. ClosingInOrder' /\ JoinedInOrder' /\ NothingEarly' /\ PopsOwn'
    BY DEF ServedInv, ClosingInOrder, JoinedInOrder, NothingEarly, PopsOwn, Idle, qvars
  <1> QED
    BY <1>3, <1>4 DEF ServedInv

\* Every step of the scheduler preserves the part about leaving and closing.
LEMMA ServedStep ==
    ASSUME Assumptions, PoolInv, SchedulerNext
    PROVE  ServedInv'
PROOF
  <1>0. ServedInv
    BY DEF PoolInv
  <1>1. CASE Ended
    BY <1>0, <1>1, NothingServed DEF Ended, vars, qvars
  <1>2. ASSUME NEW t \in Threads, QueueStep(t), UNCHANGED svars
        PROVE  ServedInv'
    BY <1>2, QueueStepServes, QueueStepCloses DEF ServedInv
  <1>3. ASSUME Abort
        PROVE  ServedInv'
    BY <1>0, <1>3, NothingServed DEF Abort
  <1>4. ASSUME NEW w \in Workers, WorkerProgress(w)
        PROVE  ServedInv'
    BY <1>3, <1>4, WorkerServes DEF WorkerProgress, RunEmpty, Throw
  <1>5. ASSUME NEW t \in Workers \cup Clients, CallerProgress(t)
        PROVE  ServedInv'
    BY <1>3, <1>5, CallerServes DEF CallerProgress, ForceOutOfRange
  <1>6. ASSUME NEW t \in Workers \cup Clients, NEW k \in Tasks, Schedule(t, k) \/ Await(t, k)
        PROVE  ServedInv'
    BY <1>6, CallerServes
  <1>7. ASSUME OwnerProgress \/ Destroy \/ SpawnNone \/ SpawnSome
        PROVE  ServedInv'
    BY <1>3, <1>7, OwnerServes DEF SpawnSome
  <1> QED
    BY <1>1, <1>2, <1>3, <1>4, <1>5, <1>6, <1>7 DEF SchedulerNext, Progress, Choice, QueueStep

\* It holds at first: no worker has started.
LEMMA ServedStart == SchedulerInit => ServedInv
PROOF
  <1> SUFFICES ASSUME SchedulerInit PROVE ServedInv
    OBVIOUS
  <1>1. /\ Owner \in Threads /\ Owner \notin Workers /\ Queues = Workers /\ Workers \subseteq Threads
        /\ Workers = 0 .. m_threadCount - 1 /\ m_threadCount \in Nat
    BY SchedulerAssumption DEF Workers
  <1>2. /\ ctl[Owner] = "spawn" /\ offset[Owner] = 0 /\ op[Owner] = "none"
        /\ \A w \in Workers : ctl[w] = "unborn"
        /\ \A q \in Queues : ~m_isClosed[q]
        /\ \A k \in Tasks : issuer[k] = None
    BY <1>1 DEF SchedulerInit, QueueInit
  <1>3. LeavingClosed /\ LeavingServed /\ PopsOwn
    BY <1>1, <1>2 DEF LeavingClosed, LeavingServed, PopsOwn, Leaving
  <1>4. ClosingInOrder
    <2>1. \A c \in Clients : ctl[c] = "user"
      BY SchedulerAssumption DEF SchedulerInit
    <2> QED
      BY <1>1, <1>2, <2>1 DEF ClosingInOrder, Idle
  <1>5. JoinedInOrder /\ NothingEarly
    BY <1>1, <1>2 DEF JoinedInOrder, NothingEarly
  <1> QED
    BY <1>3, <1>4, <1>5 DEF ServedInv

\* PoolInv holds at all times.
THEOREM PoolInvariant ==
    ASSUME Assumptions
    PROVE  SchedulerSpec => []PoolInv
PROOF
  <1>1. SchedulerSpec => []MutexHeld
    BY SchedulerUsesQueues, MutexesHeld, PTL
  <1>2. ConservationInv /\ MutexHeld /\ ServedInv /\ [SchedulerNext]_vars => ServedInv'
    <2> SUFFICES ASSUME ConservationInv, MutexHeld, ServedInv, [SchedulerNext]_vars
                 PROVE  ServedInv'
      OBVIOUS
    <2>1. CASE SchedulerNext
      BY <2>1, ServedStep DEF PoolInv
    <2>2. CASE UNCHANGED vars
      BY <2>2, NothingServed DEF vars, qvars
    <2> QED
      BY <2>1, <2>2
  <1>3. SchedulerSpec => [](ConservationInv /\ MutexHeld /\ ServedInv)
    BY <1>1, <1>2, ServedStart, PlacesKept, PTL DEF SchedulerSpec
  <1> QED
    BY <1>3, PTL DEF PoolInv

\* No queue whose worker has quit is left with a handler that no worker is
\* bound to look for: what a handler pushes on a closed queue is stolen.
THEOREM QueuesServed ==
    ASSUME Assumptions
    PROVE  SchedulerSpec => []AbandonedQueueServed
PROOF
  <1>1. PoolInv => AbandonedQueueServed
    BY DEF PoolInv, ServedInv, LeavingServed, Leaving, AbandonedQueueServed
  <1> QED
    BY <1>1, PoolInvariant, PTL

-----------------------------------------------------------------------------
(***************************************************************************)
(* The end of the scheduler.                                               *)
(***************************************************************************)

\* When the destructor has been called and every worker has quit there is no
\* place left where a handler could be but among those that have run.
LEMMA QuitMeansDone ==
    ASSUME Assumptions, PoolInv, ctl[Owner] \in {"joining", "gone"},
           \A w \in Workers : ctl[w] = "exited"
    PROVE  Issued \subseteq finished
PROOF
  <1> SUFFICES ASSUME NEW k \in Tasks, issuer[k] # None PROVE k \in finished
    BY DEF Issued
  <1>0. /\ Queues = Workers /\ Owner \notin Workers
        /\ Threads = Workers \cup Clients \cup {Owner} /\ None \notin Tasks
    BY SchedulerAssumption, QueueAssumption
  <1>1. /\ ControlWellFormed /\ InSomePlace /\ LeavingServed /\ ClosingInOrder
    BY DEF PoolInv, ServedInv, ConservationInv, SchedulerTypeOK
  <1>2. PICK c \in Kinds, x \in Places : Holds(c, x, k)
    BY <1>1 DEF InSomePlace, Assumptions
  <1>3. c # "submitter"
    <2> SUFFICES ASSUME x \in Threads, Submitting(x, k) PROVE FALSE
      BY <1>2 DEF Holds
    <2>1. ctl[x] \in {"submit", "force"}
      BY DEF Submitting
    <2>2. x \notin Workers /\ x # Owner
      BY <2>1
    <2>3. ctl[x] \in {"user", "await"}
      BY <1>0, <1>1, <2>2 DEF ClosingInOrder
    <2> QED
      BY <2>1, <2>3
  <1>4. c # "queue"
    <2> SUFFICES ASSUME x \in Queues, Queued(k, x) PROVE FALSE
      BY <1>2 DEF Holds
    <2>1. m_taskQueue[x] # << >>
      BY DEF Queued
    <2>2. Leaving(x)
      BY <1>0 DEF Leaving
    <2>3. PICK w \in Workers : WillVisit(w, x)
      BY <1>1, <2>1, <2>2 DEF LeavingServed
    <2> QED
      BY <2>3 DEF WillVisit
  <1>5. c # "hand"
    BY <1>2 DEF Holds, InHand
  <1>6. c # "runner"
    BY <1>0, <1>1, <1>2 DEF Holds, ControlWellFormed, Calling
  <1> QED
    BY <1>2, <1>3, <1>4, <1>5, <1>6 DEF Holds, Kinds

\* If the constructor has thrown, nothing was scheduled.
LEMMA GoneIsDone ==
    ASSUME Assumptions, PoolInv, ctl[Owner] = "gone"
    PROVE  Issued \subseteq finished
PROOF
  <1>1. CASE \A w \in Workers : ctl[w] = "exited"
    BY <1>1, QuitMeansDone
  <1>2. CASE \E w \in Workers : ctl[w] = "unborn"
    BY <1>2 DEF PoolInv, ServedInv, NothingEarly, Issued
  <1> QED
    BY <1>1, <1>2 DEF PoolInv, ServedInv, JoinedInOrder

\* When the destructor returns every task that was ever scheduled has run.
THEOREM DestructorWaits ==
    ASSUME Assumptions
    PROVE  SchedulerSpec => []NoTaskLeft
PROOF
  <1>1. PoolInv => NoTaskLeft
    BY GoneIsDone DEF NoTaskLeft
  <1> QED
    BY <1>1, PoolInvariant, PTL

-----------------------------------------------------------------------------
(***************************************************************************)
(* TaskScheduler implements TaskPool.                                      *)
(***************************************************************************)

\* The status of a task and the phase of the pool.
Status == [k \in Tasks |-> StatusOf(k)]

Phase ==
    CASE ctl[Owner] \in {"spawn", "up"} -> "open"
      [] ctl[Owner] \in {"closing", "joining"} -> "closing"
      [] OTHER -> "gone"

\* Where a task is, in those words.
LEMMA StatusIs ==
    ASSUME ConservationInv, NEW k \in Tasks
    PROVE  /\ issuer[k] = None => StatusOf(k) = "new"
           /\ \A w \in Workers : running[w] = k => StatusOf(k) = "running" /\ k \notin finished
           /\ \A w \in Workers : InHand(w, k) => StatusOf(k) = "submitted"
           /\ k \in finished => StatusOf(k) = "finished"
PROOF
  <1>0. /\ Workers \subseteq Places /\ None \in Places
        /\ {"hand", "runner", "done"} \subseteq Kinds
    BY SchedulerAssumption DEF Places, Kinds
  <1>1. k \in finished <=> Holds("done", None, k)
    BY DEF Holds
  <1>2. \A w \in Workers : /\ running[w] = k <=> Holds("runner", w, k)
                           /\ InHand(w, k) <=> Holds("hand", w, k)
    BY DEF Holds
  <1>3. issuer[k] = None => StatusOf(k) = "new"
    BY <1>0, <1>1, <1>2 DEF ConservationInv, InSomePlace, StatusOf
  <1>4. ASSUME NEW w \in Workers, running[w] = k
        PROVE  StatusOf(k) = "running" /\ k \notin finished
    <2>1. ~Holds("done", None, k)
      BY <1>0, <1>2, <1>4, OnlyThere
    <2> QED
      BY <1>1, <1>4, <2>1 DEF StatusOf
  <1>5. ASSUME NEW w \in Workers, InHand(w, k)
        PROVE  StatusOf(k) = "submitted"
    <2>1. /\ issuer[k] # None /\ ~Holds("done", None, k)
          /\ \A v \in Workers : ~Holds("runner", v, k)
      BY <1>0, <1>2, <1>5, OnlyThere
    <2> QED
      BY <1>1, <1>2, <2>1 DEF StatusOf
  <1> QED
    BY <1>3, <1>4, <1>5 DEF StatusOf

\* A step that changes nothing of what TaskPool sees.
LEMMA PoolStutters ==
    ASSUME UNCHANGED <<running, issuer, finished, aborted>>, Phase' = Phase
    PROVE  UNCHANGED Pool!vars
PROOF
  <1>1. \A k : StatusOf(k)' = StatusOf(k)
    BY DEF StatusOf
  <1> QED
    BY <1>1 DEF Pool!vars, Phase

\* A step of the life of task k.
LEMMA PoolAdvances ==
    ASSUME NEW k \in Tasks, NEW from, NEW to,
           ~aborted, aborted' = aborted, Phase' = Phase,
           StatusOf(k) = from, StatusOf(k)' = to,
           \A j \in Tasks \ {k} : StatusOf(j)' = StatusOf(j)
    PROVE  Pool!Advance(k, from, to)
PROOF
  <1>1. Status' = [Status EXCEPT ![k] = to] /\ Status[k] = from
    BY DEF Status
  <1> QED
    BY <1>1 DEF Pool!Advance, Status, Phase

\* The steps that are steps of TaskPool.
LEMMA ScheduleSubmits ==
    ASSUME PoolInv, ~aborted, NEW t \in Workers \cup Clients, NEW k \in Tasks, Schedule(t, k)
    PROVE  Pool!Submit(k)
PROOF
  <1>0. /\ t \in Threads /\ Owner # t /\ None \notin Tasks
        /\ Workers \cap Clients = {} /\ Owner \in Threads
    BY SchedulerAssumption, QueueAssumption
  <1>1. /\ ConservationInv /\ ControlWellFormed /\ issuer \in [Tasks -> Clients \cup Tasks \cup {None}]
        /\ ctl \in [Threads -> Controls]
    BY DEF PoolInv, ConservationInv, SchedulerTypeOK
  <1>2. /\ UNCHANGED <<running, finished, aborted>>
        /\ issuer[k] = None /\ issuer'[k] = Caller(t)
        /\ \A j \in Tasks \ {k} : issuer'[j] = issuer[j]
        /\ ctl'[Owner] = ctl[Owner] /\ ctl[t] = "user"
    BY <1>0, <1>1 DEF Schedule, Goto
  <1>3. t \in Workers => running[t] \in Tasks
    BY <1>0, <1>1, <1>2 DEF ControlWellFormed, Calling
  <1>4. Caller(t) # None
    BY <1>0, <1>3, QueueAssumption, SchedulerAssumption DEF Caller
  <1>5. k \notin finished /\ \A w \in Workers : running[w] # k
    BY <1>0, <1>1, <1>2, SchedulerAssumption
    DEF ConservationInv, InSomePlace, Holds, Kinds, Places
  <1>6. StatusOf(k) = "new" /\ StatusOf(k)' = "submitted"
    BY <1>2, <1>4, <1>5 DEF StatusOf
  <1>7. \A j \in Tasks \ {k} : StatusOf(j)' = StatusOf(j)
    BY <1>2 DEF StatusOf
  <1>8. Phase' = Phase
    BY <1>2 DEF Phase
  <1>9. Pool!Advance(k, "new", "submitted")
    BY <1>2, <1>6, <1>7, <1>8, PoolAdvances
  <1>10. Phase = "open" \/ \E j \in Tasks : Status[j] = "running"
    <2>1. CASE t \in Clients
      BY <2>1 DEF Schedule, Phase
    <2>2. CASE t \in Workers
      <3>1. StatusOf(running[t]) = "running"
        BY <1>1, <1>3, <2>2, StatusIs
      <3> QED
        BY <1>3, <2>2, <3>1 DEF Status
    <2> QED
      BY <2>1, <2>2
  <1> QED
    BY <1>9, <1>10 DEF Pool!Submit, Phase, Status

\* Before a submission was given up, a worker that calls a task takes the task
\* from submitted to running.
LEMMA RunStarts ==
    ASSUME Assumptions, PoolInv, ~aborted, NEW w \in Workers, Run(w)
    PROVE  Pool!Start(arg[w])
PROOF
  <1>k. PICK k : k = arg[w]
    OBVIOUS
  <1>0. w \in Threads /\ Owner # w /\ Owner \in Threads /\ None \notin Tasks
    BY SchedulerAssumption, QueueAssumption
  <1>1. /\ ConservationInv /\ ControlWellFormed
        /\ ctl \in [Threads -> Controls] /\ running \in [Workers -> Tasks \cup {None}]
    BY DEF PoolInv, ConservationInv, SchedulerTypeOK
  <1>2. /\ UNCHANGED <<issuer, finished, aborted>>
        /\ running'[w] = k
        /\ \A v \in Workers \ {w} : running'[v] = running[v]
        /\ ctl'[Owner] = ctl[Owner] /\ ctl[w] \in {"scan", "own"} /\ Succeeded(w)
    BY <1>0, <1>1, <1>k DEF Run, Goto
  <1>3. k \in Tasks /\ InHand(w, k)
    BY <1>0, <1>1, <1>2, <1>k DEF ControlWellFormed, InHand
  <1>4. running[w] \notin Tasks
    BY <1>0, <1>1, <1>2 DEF ControlWellFormed, Calling
  <1>5. Holds("hand", w, k) /\ "hand" \in Kinds /\ "done" \in Kinds /\ w \in Places /\ None \in Places
    BY <1>0, <1>3 DEF Holds, Kinds, Places
  <1>6. issuer[k] # None /\ k \notin finished /\ StatusOf(k) = "submitted"
    BY <1>1, <1>3, <1>5, OnlyThere, StatusIs DEF Holds
  <1>7. StatusOf(k)' = "running"
    BY <1>2, <1>6 DEF StatusOf
  <1>8. ASSUME NEW j \in Tasks \ {k} PROVE StatusOf(j)' = StatusOf(j)
    <2>1. (\E v \in Workers : running'[v] = j) <=> \E v \in Workers : running[v] = j
      BY <1>2, <1>4
    <2> QED
      BY <1>2, <2>1 DEF StatusOf
  <1>9. Phase' = Phase
    BY <1>2 DEF Phase
  <1>10. Pool!Advance(k, "submitted", "running")
    BY <1>2, <1>3, <1>6, <1>7, <1>8, <1>9, PoolAdvances
  <1>11. ctl[Owner] # "gone"
    BY <1>3, <1>6, GoneIsDone DEF Issued
  <1>12. Phase # "gone"
    <2>1. ctl[Owner] \in {"spawn", "up", "closing", "joining", "gone"}
      BY <1>0, <1>1, SchedulerAssumption DEF ControlWellFormed
    <2> QED
      BY <1>11, <2>1 DEF Phase
  <1> QED
    BY <1>k, <1>10, <1>12 DEF Pool!Start, Phase

\* When a call returns, its task goes from running to finished.
LEMMA FinishFinishes ==
    ASSUME PoolInv, ~aborted, NEW w \in Workers, Finish(w)
    PROVE  running[w] \in Tasks /\ Pool!Finish(running[w])
PROOF
  <1>k. PICK k : k = running[w]
    OBVIOUS
  <1>0. w \in Threads /\ Owner # w /\ Owner \in Threads /\ None \notin Tasks
    BY SchedulerAssumption, QueueAssumption
  <1>1. /\ ConservationInv /\ ControlWellFormed
        /\ ctl \in [Threads -> Controls] /\ running \in [Workers -> Tasks \cup {None}]
    BY DEF PoolInv, ConservationInv, SchedulerTypeOK
  <1>2. /\ UNCHANGED <<issuer, aborted>> /\ finished' = finished \cup {k}
        /\ running'[w] = None
        /\ \A v \in Workers \ {w} : running'[v] = running[v]
        /\ ctl'[Owner] = ctl[Owner] /\ ctl[w] = "user"
    BY <1>0, <1>1, <1>k DEF Finish, Goto
  <1>3. k \in Tasks
    BY <1>0, <1>1, <1>2, <1>k DEF ControlWellFormed, Calling
  <1>4. StatusOf(k) = "running"
    BY <1>k, <1>1, <1>3, StatusIs
  <1>6. StatusOf(k)' = "finished"
    BY <1>2 DEF StatusOf
  <1>7. ASSUME NEW j \in Tasks \ {k} PROVE StatusOf(j)' = StatusOf(j)
    <2>1. (\E v \in Workers : running'[v] = j) <=> \E v \in Workers : running[v] = j
      BY <1>0, <1>2, <1>k
    <2> QED
      BY <1>2, <2>1 DEF StatusOf
  <1>8. Phase' = Phase
    BY <1>2 DEF Phase
  <1>9. Pool!Advance(k, "running", "finished")
    BY <1>2, <1>3, <1>4, <1>6, <1>7, <1>8, PoolAdvances
  <1> QED
    BY <1>k, <1>3, <1>9 DEF Pool!Finish

\* The owner closes the pool, and returns when all is done.
LEMMA OwnerRefines ==
    ASSUME Assumptions, ~SpawnMayFail, PoolInv, ~aborted,
           OwnerProgress \/ Destroy \/ SpawnNone
    PROVE  Pool!Close \/ Pool!Return \/ UNCHANGED Pool!vars
PROOF
  <1>0. Owner \in Threads /\ Owner \notin Workers /\ None \notin Tasks
        /\ m_threadCount \in Nat /\ Workers = 0 .. m_threadCount - 1
        /\ Workers \subseteq Threads
    BY SchedulerAssumption, QueueAssumption DEF Workers
  <1>1. /\ ConservationInv /\ ctl \in [Threads -> Controls] /\ offset[Owner] \in Nat
    BY <1>0 DEF PoolInv, ConservationInv, SchedulerTypeOK
  <1>2. /\ UNCHANGED <<running, issuer, finished, aborted>>
    BY DEF OwnerProgress, Spawn, Close, AllClosed, Join, Destroy, SpawnNone
  <1>3. \A k : StatusOf(k)' = StatusOf(k)
    BY <1>2 DEF StatusOf
  <1>4. CASE Spawn
    <2>1. ctl[Owner] = "spawn" /\ ctl'[Owner] \in {"spawn", "up"}
      BY <1>0, <1>1, <1>4 DEF Spawn, Goto
    <2> QED
      BY <1>2, <2>1, PoolStutters DEF Phase
  <1>5. CASE Close \/ AllClosed \/ (Join /\ offset[Owner] < m_threadCount)
    <2>1. ctl[Owner] \in {"closing", "joining"} /\ ctl'[Owner] \in {"closing", "joining"}
      BY <1>0, <1>1, <1>5 DEF Close, AllClosed, Join, Goto
    <2> QED
      BY <1>2, <2>1, PoolStutters DEF Phase
  <1>6. CASE Destroy
    <2>1. ctl[Owner] = "up" /\ ctl'[Owner] = "closing"
      BY <1>0, <1>1, <1>6 DEF Destroy, Goto
    <2> QED
      BY <1>2, <1>3, <2>1 DEF Pool!Close
  <1>7. CASE Join /\ ~(offset[Owner] < m_threadCount)
    <2>1. ctl[Owner] = "joining" /\ ctl'[Owner] = "gone"
      BY <1>0, <1>1, <1>7 DEF Join, Goto
    <2>2. \A w \in Workers : ctl[w] = "exited"
      BY <1>0, <1>1, <1>7, <2>1 DEF PoolInv, ServedInv, JoinedInOrder
    <2>3. Issued \subseteq finished
      BY <2>1, <2>2, QuitMeansDone
    <2>4. ASSUME NEW k \in Tasks PROVE StatusOf(k) \in {"new", "finished"}
      <3>1. issuer[k] = None \/ k \in finished
        BY <2>3 DEF Issued
      <3> QED
        BY <1>1, <3>1, StatusIs
    <2> QED
      BY <1>2, <1>3, <2>1, <2>4 DEF Pool!Return
  <1> QED
    BY <1>4, <1>5, <1>6, <1>7 DEF OwnerProgress, SpawnNone

\* Every step of the scheduler is a step of the abstract pool, or none.
LEMMA PoolStep ==
    ASSUME Assumptions, ~SpawnMayFail, PoolInv, SchedulerNext
    PROVE  [Pool!Next]_(Pool!vars)
PROOF
  <1>1. CASE Ended
    BY <1>1, PoolStutters DEF Ended, vars, Phase
  <1>2. ASSUME NEW t \in Threads, UNCHANGED svars
        PROVE  UNCHANGED Pool!vars
    BY <1>2, PoolStutters DEF svars, Phase
  <1>3. ASSUME Abort
        PROVE  Pool!Next
    <2>1. \A k : StatusOf(k)' = StatusOf(k)
      BY <1>3 DEF Abort, StatusOf
    <2> QED
      BY <1>3, <2>1 DEF Abort, Pool!Break, Pool!Next
  <1>4. ASSUME NEW t \in Workers \cup Clients,
               UNCHANGED <<running, issuer, finished, aborted>>, ctl'[Owner] = ctl[Owner]
        PROVE  UNCHANGED Pool!vars
    BY <1>4, PoolStutters DEF Phase
  <1>5. ctl \in [Threads -> Controls]
    BY DEF PoolInv, ConservationInv, SchedulerTypeOK
  <1>6. ASSUME ~aborted, NEW w \in Workers, WorkerProgress(w)
        PROVE  [Pool!Next]_(Pool!vars)
    <2>0. w # Owner /\ w \in Workers \cup Clients /\ w \in Threads /\ Owner \in Threads
      BY SchedulerAssumption
    <2>1. CASE Scan(w) \/ PopOwn(w) \/ Quit(w)
      <3>1. UNCHANGED <<running, issuer, finished, aborted>> /\ ctl'[Owner] = ctl[Owner]
        BY <1>5, <2>0, <2>1 DEF Scan, PopOwn, Quit, Goto
      <3> QED
        BY <1>4, <2>0, <3>1
    <2>2. CASE Run(w)
      <3>1. arg[w] \in Tasks
        BY <2>0, <2>2
        DEF Run, PoolInv, ConservationInv, SchedulerTypeOK, ControlWellFormed
      <3> QED
        BY <1>6, <2>2, <3>1, RunStarts DEF Pool!Next
    <2>3. CASE Finish(w)
      BY <1>6, <2>3, FinishFinishes DEF Pool!Next
    <2>4. CASE RunEmpty(w) \/ Throw(w)
      BY <1>3, <2>4 DEF RunEmpty, Throw
    <2> QED
      BY <1>6, <2>1, <2>2, <2>3, <2>4 DEF WorkerProgress
  <1>7. ASSUME ~aborted, NEW t \in Workers \cup Clients, CallerProgress(t) \/ \E k \in Tasks : Await(t, k)
        PROVE  [Pool!Next]_(Pool!vars)
    <2>0. t # Owner /\ t \in Threads /\ Owner \in Threads
      BY SchedulerAssumption
    <2>1. CASE ForceOutOfRange(t)
      BY <1>3, <2>1 DEF ForceOutOfRange
    <2>2. CASE ~ForceOutOfRange(t)
      <3>1. UNCHANGED <<running, issuer, finished, aborted>> /\ ctl'[Owner] = ctl[Owner]
        BY <1>5, <1>7, <2>0, <2>2
        DEF CallerProgress, TrySubmit, ForcePush, Scheduled, Resume, Await, Goto
      <3> QED
        BY <1>4, <3>1
    <2> QED
      BY <2>1, <2>2
  <1>8. ASSUME ~aborted, NEW t \in Workers \cup Clients, NEW k \in Tasks, Schedule(t, k)
        PROVE  Pool!Next
    BY <1>8, ScheduleSubmits DEF Pool!Next
  <1>9. ASSUME ~aborted, OwnerProgress \/ Destroy \/ SpawnNone \/ SpawnSome
        PROVE  [Pool!Next]_(Pool!vars)
    BY <1>3, <1>9, OwnerRefines DEF SpawnSome, Pool!Next
  <1> QED
    BY <1>1, <1>2, <1>6, <1>7, <1>8, <1>9 DEF SchedulerNext, Progress, Choice

\* TaskScheduler implements the safety of TaskPool: every task is called
\* once, whoever scheduled it, and the destructor returns after the last.
THEOREM SchedulerIsPool ==
    ASSUME Assumptions, ~SpawnMayFail
    PROVE  SchedulerSpec => PoolSafe
PROOF
  <1>1. SchedulerInit => Pool!Init
    <2> SUFFICES ASSUME SchedulerInit PROVE Pool!Init
      OBVIOUS
    <2>1. Phase = "open" /\ aborted = FALSE
      BY SchedulerAssumption DEF SchedulerInit, Phase
    <2>2. \A k \in Tasks : StatusOf(k) = "new"
      BY QueueAssumption DEF SchedulerInit, StatusOf
    <2> QED
      BY <2>1, <2>2 DEF Pool!Init, Phase
  <1>2. PoolInv /\ [SchedulerNext]_vars => [Pool!Next]_(Pool!vars)
    <2>1. ASSUME UNCHANGED vars PROVE UNCHANGED Pool!vars
      BY <2>1, PoolStutters DEF vars, Phase
    <2> QED
      BY <2>1, PoolStep
  <1>3. SchedulerSpec => []PoolInv
    BY PoolInvariant
  <1> QED
    BY <1>1, <1>2, <1>3, PTL DEF SchedulerSpec, PoolSafe, Pool!SafeSpec
=============================================================================
