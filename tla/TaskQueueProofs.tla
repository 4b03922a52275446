-------------------------- MODULE TaskQueueProofs --------------------------
(***************************************************************************)
(* Theorems about TaskQueue, for any sets of queues, threads and tasks.    *)
(***************************************************************************)
EXTENDS TaskQueue, TLAPS, FiniteSetTheorems, SequenceTheorems

(***************************************************************************)
(* Type correctness.                                                       *)
(***************************************************************************)

\* A step of any thread preserves the types: what queues, calls and results
\* hold stays in the sets that QueueTypeOK names.
LEMMA QueueStepType ==
    ASSUME QueueTypeOK, NEW t \in Threads, QueueStep(t)
    PROVE  QueueTypeOK'
PROOF
  <1> USE QueueAssumption DEF QueueTypeOK, CallsWellFormed, Operations, Pushing,
          Popping, Trying, queueVars
  <1>1. CASE Lock(t)
    BY <1>1 DEF Lock
  <1>2. CASE TryLockFails(t)
    BY <1>2 DEF TryLockFails, Return
  <1>3. CASE Enqueue(t)
    <2>1. m_taskQueue' \in [Queues -> Seq(Tasks)]
      BY <1>3, AppendProperties DEF Enqueue
    <2> QED
      BY <1>3, <2>1 DEF Enqueue, Unlock
  <1>4. CASE NotifyOne(t)
    BY <1>4 DEF NotifyOne, Sleepers
  <1>5. CASE SetClosed(t)
    BY <1>5 DEF SetClosed, Unlock
  <1>6. CASE NotifyAll(t)
    BY <1>6 DEF NotifyAll, Sleepers
  <1>7. CASE Dequeue(t)
    <2>1. m_taskQueue[at[t]] \in Seq(Tasks) /\ m_taskQueue[at[t]] # << >>
      BY <1>7 DEF Dequeue
    <2>2. /\ Head(m_taskQueue[at[t]]) \in Tasks
          /\ Tail(m_taskQueue[at[t]]) \in Seq(Tasks)
      BY <2>1, HeadTailProperties
    <2>3. m_taskQueue' \in [Queues -> Seq(Tasks)]
      BY <1>7, <2>2 DEF Dequeue
    <2> QED
      BY <1>7, <2>2, <2>3 DEF Dequeue, Unlock, Return
  <1>8. CASE ReturnEmpty(t)
    BY <1>8 DEF ReturnEmpty, Unlock, Return
  <1>9. CASE Wait(t)
    BY <1>9 DEF Wait, Unlock
  <1>10. CASE SpuriousWakeup(t)
    BY <1>10 DEF SpuriousWakeup
  <1> QED
    BY <1>1, <1>2, <1>3, <1>4, <1>5, <1>6, <1>7, <1>8, <1>9, <1>10
    DEF QueueStep, QueueProgress

\* So does the call of an operation.
LEMMA CallType ==
    ASSUME QueueTypeOK, NEW t \in Threads, NEW q \in Queues, NEW o \in Operations,
           NEW k \in IF o \in Pushing THEN Tasks ELSE {None}, Call(t, o, q, k)
    PROVE  QueueTypeOK'
PROOF
  BY QueueAssumption
  DEF QueueTypeOK, CallsWellFormed, Operations, Pushing, Popping, Call, Idle, queueVars

\* Every step of QueueNext is one of the two.
LEMMA QueueNextCases ==
    ASSUME QueueNext
    PROVE  \E t \in Threads :
              \/ QueueStep(t)
              \/ \E q \in Queues, o \in Operations :
                    \E k \in IF o \in Pushing THEN Tasks ELSE {None} : Call(t, o, q, k)
PROOF
  BY DEF QueueNext, CallPush, CallPop, CallClose, Operations, Pushing, Popping

\* Type correctness of the queues.
THEOREM QueueTypeCorrect == QueueSpec => []QueueTypeOK
PROOF
  <1>1. QueueInit => QueueTypeOK
    BY QueueAssumption
    DEF QueueInit, QueueTypeOK, CallsWellFormed, Operations, Pushing
  <1>2. QueueTypeOK /\ [QueueNext]_qvars => QueueTypeOK'
    <2>1. ASSUME QueueTypeOK, QueueNext PROVE QueueTypeOK'
      BY <2>1, QueueNextCases, QueueStepType, CallType
    <2>2. ASSUME QueueTypeOK, UNCHANGED qvars PROVE QueueTypeOK'
      BY <2>2 DEF QueueTypeOK, CallsWellFormed, qvars
    <2> QED
      BY <2>1, <2>2
  <1> QED
    BY <1>1, <1>2, PTL DEF QueueSpec

(***************************************************************************)
(* No lost wake-up.  NoLostWakeup is inductive over QueueTypeOK: a step    *)
(* that adds a handler adds the pusher as its helper, a helper that leaves *)
(* takes a handler along or hands over to the sleeper that it wakes, and a *)
(* thread falls asleep only on an empty, open queue.                       *)
(***************************************************************************)

\* Nobody sleeps on q for good.
Awake(q) ==
    Sleepers(q) # {} =>
        /\ Len(m_taskQueue[q]) =< Cardinality(Helpers(q))
        /\ m_isClosed[q] => Closers(q) # {}

\* Finite sets that differ in one member.
LEMMA AddOne ==
    ASSUME NEW S, NEW T, NEW x, IsFiniteSet(S), x \notin S, T = S \cup {x}
    PROVE  Cardinality(T) = Cardinality(S) + 1
PROOF
  BY FS_AddElement

\* The cardinality of a set without one element,
LEMMA RemoveOne ==
    ASSUME NEW S, NEW T, NEW x, IsFiniteSet(S), T = S \ {x}
    PROVE  Cardinality(T) = IF x \in S THEN Cardinality(S) - 1 ELSE Cardinality(S)
PROOF
  BY FS_RemoveElement

\* ... and with one element in the place of another.
LEMMA SwapOne ==
    ASSUME NEW S, NEW T, NEW x, NEW y, IsFiniteSet(S), Cardinality(S) \in Nat,
           x \in S, y \notin S, T = (S \ {x}) \cup {y}
    PROVE  Cardinality(T) = Cardinality(S)
PROOF
  <1>1. IsFiniteSet(S \ {x}) /\ Cardinality(S \ {x}) = Cardinality(S) - 1
    BY FS_RemoveElement
  <1>2. Cardinality(T) = Cardinality(S \ {x}) + 1
    BY <1>1, AddOne
  <1> QED
    BY <1>1, <1>2

\* The helpers of a queue can be counted.
LEMMA HelpersFinite ==
    \A q : IsFiniteSet(Helpers(q)) /\ Cardinality(Helpers(q)) \in Nat
PROOF
  <1> TAKE q
  <1>1. Helpers(q) \in SUBSET Threads
    BY DEF Helpers
  <1> QED
    BY <1>1, QueueAssumption, FS_Subset, FS_CardinalityType

\* The state of a queue q matters only through its length, its flag and
\* its threads: a step that leaves those alone, or wakes some of the sleepers
\* or adds helpers or closers, keeps q awake.
LEMMA AwakeKept ==
    ASSUME NEW q \in Queues, Awake(q), Helpers(q)' \in SUBSET Threads,
           m_taskQueue'[q] = m_taskQueue[q], m_isClosed'[q] = m_isClosed[q],
           Sleepers(q)' \subseteq Sleepers(q), Helpers(q) \subseteq Helpers(q)',
           Closers(q) \subseteq Closers(q)',
           m_taskQueue \in [Queues -> Seq(Tasks)]
    PROVE  Awake(q)'
PROOF
  <1>1. /\ IsFiniteSet(Helpers(q)')
        /\ Cardinality(Helpers(q)') \in Nat
    BY QueueAssumption, FS_Subset, FS_CardinalityType
  <1>2. Cardinality(Helpers(q)) =< Cardinality(Helpers(q)')
    BY <1>1, FS_Subset
  <1>3. Cardinality(Helpers(q)) \in Nat /\ Len(m_taskQueue[q]) \in Nat
    BY HelpersFinite
  <1> QED
    BY <1>1, <1>2, <1>3 DEF Awake

\* What a step of t does to the threads at another queue than t's: nothing.
LEMMA OtherQueue ==
    ASSUME QueueTypeOK, NEW t \in Threads, QueueStep(t), NEW q \in Queues,
           at[t] # q, Awake(q)
    PROVE  Awake(q)'
PROOF
  <1>1. /\ Sleepers(q)' = Sleepers(q)
        /\ Helpers(q)' = Helpers(q)
        /\ Closers(q)' = Closers(q)
    BY QueueAssumption
    DEF QueueStep, QueueProgress, QueueTypeOK, CallsWellFormed, Sleepers, Helpers,
        Closers, Lock, TryLockFails, Enqueue, NotifyOne, SetClosed, NotifyAll,
        Dequeue, ReturnEmpty, Wait, SpuriousWakeup, Return, queueVars
  <1>2. m_taskQueue'[q] = m_taskQueue[q] /\ m_isClosed'[q] = m_isClosed[q]
    BY DEF QueueStep, QueueProgress, QueueTypeOK, Lock, TryLockFails, Enqueue,
        NotifyOne, SetClosed, NotifyAll, Dequeue, ReturnEmpty, Wait,
        SpuriousWakeup, queueVars
  <1>3. Helpers(q)' \in SUBSET Threads
    BY DEF Helpers
  <1> QED
    BY <1>1, <1>2, <1>3, AwakeKept DEF QueueTypeOK

\* A step of a thread that works on queue q keeps q awake.
LEMMA OwnQueue ==
    ASSUME QueueTypeOK, NEW t \in Threads, QueueStep(t), NEW q \in Queues,
           at[t] = q, Awake(q)
    PROVE  Awake(q)'
PROOF
  <1> USE DEF QueueTypeOK, CallsWellFormed
  <1>0. /\ Helpers(q)' \in SUBSET Threads
        /\ IsFiniteSet(Helpers(q)) /\ Cardinality(Helpers(q)) \in Nat
        /\ m_taskQueue[q] \in Seq(Tasks) /\ Len(m_taskQueue[q]) \in Nat
    <2>1. Helpers(q)' \in SUBSET Threads
      BY DEF Helpers
    <2>2. m_taskQueue[q] \in Seq(Tasks) /\ Len(m_taskQueue[q]) \in Nat
      OBVIOUS
    <2> QED
      BY <2>1, <2>2, HelpersFinite
  <1>1. CASE Lock(t)
    <2>1. /\ Sleepers(q)' = Sleepers(q)
          /\ Helpers(q) \subseteq Helpers(q)'
          /\ Closers(q) = Closers(q)'
      BY <1>1 DEF Lock, Sleepers, Helpers, Closers, Pushing
    <2> QED
      BY <1>0, <1>1, <2>1, AwakeKept DEF Lock
  <1>2. CASE TryLockFails(t)
    <2>1. /\ Sleepers(q)' = Sleepers(q)
          /\ Helpers(q) = Helpers(q)'
          /\ Closers(q) = Closers(q)'
      BY <1>2, QueueAssumption
      DEF TryLockFails, Return, Sleepers, Helpers, Closers, Pushing, Trying
    <2> QED
      BY <1>0, <1>2, <2>1, AwakeKept DEF TryLockFails, queueVars
  <1>3. CASE Enqueue(t)
    <2>1. /\ Sleepers(q)' = Sleepers(q)
          /\ Helpers(q)' = Helpers(q) \cup {t}
          /\ t \notin Helpers(q)
          /\ Closers(q) \subseteq Closers(q)'
      BY <1>3 DEF Enqueue, Sleepers, Helpers, Closers, Pushing
    <2>2. Cardinality(Helpers(q)') = Cardinality(Helpers(q)) + 1
      BY <1>0, <2>1, AddOne
    <2>3. Len(m_taskQueue'[q]) = Len(m_taskQueue[q]) + 1
      BY <1>0, <1>3, AppendProperties DEF Enqueue
    <2> QED
      BY <1>0, <1>3, <2>1, <2>2, <2>3 DEF Enqueue, Awake
  <1>4. CASE NotifyOne(t)
    <2>1. m_taskQueue'[q] = m_taskQueue[q] /\ m_isClosed'[q] = m_isClosed[q]
      BY <1>4 DEF NotifyOne, queueVars
    <2>2. CASE Sleepers(q) = {}
      <3>1. Sleepers(q)' = {}
        BY <1>4, <2>2 DEF NotifyOne, Sleepers
      <3> QED
        BY <3>1 DEF Awake
    <2>3. CASE Sleepers(q) # {}
      <3>1. PICK s \in Sleepers(q) : pc' = [pc EXCEPT ![t] = "idle", ![s] = "relock"]
        BY <1>4, <2>3 DEF NotifyOne
      <3>2. /\ Sleepers(q)' \subseteq Sleepers(q)
            /\ Helpers(q)' = (Helpers(q) \ {t}) \cup {s}
            /\ t \in Helpers(q)
            /\ s \notin Helpers(q)
            /\ Closers(q) \subseteq Closers(q)'
        BY <1>4, <3>1, QueueAssumption
        DEF NotifyOne, Sleepers, Helpers, Closers, Pushing
      <3>3. Cardinality(Helpers(q)') = Cardinality(Helpers(q))
        BY <1>0, <3>2, SwapOne
      <3> QED
        BY <1>0, <2>1, <3>2, <3>3 DEF Awake
    <2> QED
      BY <2>2, <2>3
  <1>5. CASE SetClosed(t)
    <2>1. /\ Sleepers(q)' = Sleepers(q)
          /\ Helpers(q)' = Helpers(q)
          /\ t \in Closers(q)'
      BY <1>5 DEF SetClosed, Sleepers, Helpers, Closers, Pushing
    <2> QED
      BY <1>0, <1>5, <2>1 DEF SetClosed, Awake
  <1>6. CASE NotifyAll(t)
    <2>1. Sleepers(q)' = {}
      BY <1>6 DEF NotifyAll, Sleepers
    <2> QED
      BY <2>1 DEF Awake
  <1>7. CASE Dequeue(t)
    <2>1. /\ Sleepers(q)' = Sleepers(q)
          /\ Helpers(q)' = Helpers(q) \ {t}
          /\ Closers(q) = Closers(q)'
      BY <1>7, QueueAssumption
      DEF Dequeue, Return, Sleepers, Helpers, Closers, Pushing, Popping
    <2>2. Cardinality(Helpers(q)') =
             IF t \in Helpers(q) THEN Cardinality(Helpers(q)) - 1 ELSE Cardinality(Helpers(q))
      BY <1>0, <2>1, RemoveOne
    <2>3. Len(m_taskQueue'[q]) = Len(m_taskQueue[q]) - 1
      BY <1>0, <1>7, HeadTailProperties DEF Dequeue
    <2> QED
      BY <1>0, <1>7, <2>1, <2>2, <2>3 DEF Dequeue, Awake
  <1>8. CASE ReturnEmpty(t)
    <2>1. /\ Sleepers(q)' = Sleepers(q)
          /\ Closers(q) = Closers(q)'
      BY <1>8, QueueAssumption DEF ReturnEmpty, Return, Sleepers, Closers, Popping
    <2>2. Len(m_taskQueue'[q]) = 0 /\ Cardinality(Helpers(q)') \in Nat
      BY <1>0, <1>8, QueueAssumption, FS_Subset, FS_CardinalityType DEF ReturnEmpty
    <2> QED
      BY <1>8, <2>1, <2>2 DEF ReturnEmpty, Awake
  <1>9. CASE Wait(t)
    <2>1. Len(m_taskQueue'[q]) = 0 /\ Cardinality(Helpers(q)') \in Nat
      BY <1>0, <1>9, QueueAssumption, FS_Subset, FS_CardinalityType DEF Wait
    <2> QED
      BY <1>9, <2>1 DEF Wait, Awake
  <1>10. CASE SpuriousWakeup(t)
    <2>1. /\ Sleepers(q)' \subseteq Sleepers(q)
          /\ Helpers(q) \subseteq Helpers(q)'
          /\ Closers(q) \subseteq Closers(q)'
      BY <1>10 DEF SpuriousWakeup, Sleepers, Helpers, Closers, Pushing
    <2> QED
      BY <1>0, <1>10, <2>1, AwakeKept DEF SpuriousWakeup
  <1> QED
    BY <1>1, <1>2, <1>3, <1>4, <1>5, <1>6, <1>7, <1>8, <1>9, <1>10
    DEF QueueStep, QueueProgress

\* A thread that begins an operation was at no queue, and is no sleeper,
\* helper or closer before it has taken the mutex.
LEMMA CallAwake ==
    ASSUME QueueTypeOK, NEW t \in Threads, NEW p \in Queues, NEW o \in Operations,
           NEW k, Call(t, o, p, k), NEW q \in Queues, Awake(q)
    PROVE  Awake(q)'
PROOF
  <1>1. /\ Sleepers(q)' = Sleepers(q)
        /\ Helpers(q)' = Helpers(q)
        /\ Closers(q)' = Closers(q)
    BY DEF QueueTypeOK, CallsWellFormed, Call, Idle, Sleepers, Helpers, Closers,
           Operations, Pushing
  <1>2. Helpers(q)' \in SUBSET Threads
    BY DEF Helpers
  <1> QED
    BY <1>1, <1>2, AwakeKept DEF QueueTypeOK, Call, queueVars

\* No wake-up is lost: pop does not sleep beside a handler, or on a closed
\* queue, unless a thread is about to wake it or to take the handler.
THEOREM NoWakeupIsLost == QueueSpec => []NoLostWakeup
PROOF
  <1>1. QueueInit => NoLostWakeup
    BY DEF QueueInit, NoLostWakeup, Sleepers
  <1>2. QueueTypeOK /\ NoLostWakeup /\ [QueueNext]_qvars => NoLostWakeup'
    <2>1. ASSUME QueueTypeOK, NoLostWakeup, QueueNext, NEW q \in Queues
          PROVE  Awake(q)'
      <3>1. Awake(q)
        BY <2>1 DEF NoLostWakeup, Awake
      <3> QED
        BY <2>1, <3>1, QueueNextCases, OtherQueue, OwnQueue, CallAwake
    <2>2. ASSUME NoLostWakeup, UNCHANGED qvars
          PROVE  NoLostWakeup'
      BY <2>2 DEF NoLostWakeup, Sleepers, Helpers, Closers, qvars
    <2> QED
      BY <2>1, <2>2 DEF NoLostWakeup, Awake
  <1> QED
    BY <1>1, <1>2, QueueTypeCorrect, PTL DEF QueueSpec

(***************************************************************************)
(* The queues implement FifoTaskQueue, but for progress: a queue operation *)
(* takes effect in the step that leaves its critical section, and every    *)
(* other step but the return is invisible to callers.                      *)
(***************************************************************************)

\* Who has taken effect and is yet to return, in the words of FifoTaskQueue.
Effected == [t \in Threads |-> pc[t] = "notify"]

\* A call begins.
LEMMA CallRefines ==
    ASSUME QueueTypeOK, NEW t \in Threads, NEW q \in Queues, NEW o \in Operations,
           NEW k \in IF o \in Pushing THEN Tasks ELSE {None}, Call(t, o, q, k)
    PROVE  Fifo!Begin(t, o, q, k)
PROOF
  <1>1. Effected' = Effected
    BY DEF QueueTypeOK, CallsWellFormed, Call, Idle, Effected
  <1> QED
    BY <1>1 DEF Call, Idle, Effected, queueVars, Pushing, Fifo!Begin, Fifo!Pushing

\* Every step of a thread is a step of FifoTaskQueue or leaves it alone.
LEMMA StepRefines ==
    ASSUME QueueTypeOK, NEW t \in Threads, QueueStep(t)
    PROVE  Fifo!Step(t) \/ UNCHANGED Fifo!vars
PROOF
  <1> USE DEF QueueTypeOK, CallsWellFormed, Effected, Pushing, Popping, Trying
  <1>1. CASE Lock(t) \/ Wait(t) \/ SpuriousWakeup(t)
    <2>1. Effected' = Effected
      BY <1>1 DEF Lock, Wait, SpuriousWakeup
    <2> QED
      BY <1>1, <2>1 DEF Lock, Wait, SpuriousWakeup, Fifo!vars
  <1>2. CASE TryLockFails(t)
    <2>1. Effected' = [Effected EXCEPT ![t] = FALSE]
      BY <1>2 DEF TryLockFails, Return
    <2>2. op[t] # "none" /\ ~Effected[t]
      BY <1>2 DEF TryLockFails
    <2>3. Fifo!Fail(t)
      BY <1>2, <2>1, <2>2 DEF TryLockFails, Return, queueVars, Fifo!Fail, Fifo!Pending, Fifo!End
    <2> QED
      BY <2>3 DEF Fifo!Step
  <1>3. CASE Enqueue(t)
    <2>1. Effected' = [Effected EXCEPT ![t] = TRUE]
      BY <1>3 DEF Enqueue
    <2>2. op[t] # "none" /\ ~Effected[t]
      BY <1>3 DEF Enqueue
    <2>3. Fifo!Put(t)
      BY <1>3, <2>1, <2>2 DEF Enqueue, Fifo!Put, Fifo!Pending, Fifo!Pushing
    <2> QED
      BY <2>3 DEF Fifo!Step
  <1>4. CASE NotifyOne(t)
    <2>1. Effected' = [Effected EXCEPT ![t] = FALSE]
      BY <1>4 DEF NotifyOne, Sleepers
    <2>2. Effected[t]
      BY <1>4 DEF NotifyOne
    <2>3. Fifo!Finish(t)
      BY <1>4, <2>1, <2>2 DEF NotifyOne, queueVars, Fifo!Finish, Fifo!End
    <2> QED
      BY <2>3 DEF Fifo!Step
  <1>5. CASE SetClosed(t)
    <2>1. Effected' = [Effected EXCEPT ![t] = TRUE]
      BY <1>5 DEF SetClosed
    <2>2. op[t] # "none" /\ ~Effected[t]
      BY <1>5 DEF SetClosed
    <2>3. Fifo!Shut(t)
      BY <1>5, <2>1, <2>2 DEF SetClosed, Fifo!Shut, Fifo!Pending
    <2> QED
      BY <2>3 DEF Fifo!Step
  <1>6. CASE NotifyAll(t)
    <2>1. Effected' = [Effected EXCEPT ![t] = FALSE]
      BY <1>6 DEF NotifyAll, Sleepers
    <2>2. Effected[t] /\ arg' = [arg EXCEPT ![t] = None]
      BY <1>6 DEF NotifyAll
    <2>3. Fifo!Finish(t)
      BY <1>6, <2>1, <2>2 DEF NotifyAll, Fifo!Finish, Fifo!End
    <2> QED
      BY <2>3 DEF Fifo!Step
  <1>7. CASE Dequeue(t)
    <2>1. Effected' = [Effected EXCEPT ![t] = FALSE]
      BY <1>7 DEF Dequeue, Return
    <2>2. op[t] # "none" /\ ~Effected[t]
      BY <1>7 DEF Dequeue
    <2>3. Fifo!Take(t)
      BY <1>7, <2>1, <2>2 DEF Dequeue, Return, Fifo!Take, Fifo!Pending, Fifo!Popping, Fifo!End
    <2> QED
      BY <2>3 DEF Fifo!Step
  <1>8. CASE ReturnEmpty(t)
    <2>1. Effected' = [Effected EXCEPT ![t] = FALSE]
      BY <1>8 DEF ReturnEmpty, Return
    <2>2. op[t] # "none" /\ ~Effected[t]
      BY <1>8 DEF ReturnEmpty
    <2>3. Fifo!GiveUp(t) \/ Fifo!Fail(t)
      BY <1>8, <2>1, <2>2
      DEF ReturnEmpty, Return, Fifo!GiveUp, Fifo!Fail, Fifo!Pending, Fifo!End
    <2> QED
      BY <2>3 DEF Fifo!Step
  <1> QED
    BY <1>1, <1>2, <1>3, <1>4, <1>5, <1>6, <1>7, <1>8 DEF QueueStep, QueueProgress

\* Every queue operation is one atomic step of a first-in first-out queue.
THEOREM QueueIsFifo == QueueSpec => FifoSafe
PROOF
  <1>1. QueueInit => Fifo!Init
    BY DEF QueueInit, Fifo!Init
  <1>2. QueueTypeOK /\ [QueueNext]_qvars => [Fifo!Next]_(Fifo!vars)
    <2>1. ASSUME QueueTypeOK, QueueNext PROVE [Fifo!Next]_(Fifo!vars)
      <3>1. PICK t \in Threads :
               \/ QueueStep(t)
               \/ \E q \in Queues, o \in Operations :
                     \E k \in IF o \in Pushing THEN Tasks ELSE {None} : Call(t, o, q, k)
        BY <2>1, QueueNextCases
      <3>2. CASE QueueStep(t)
        BY <2>1, <3>2, StepRefines DEF Fifo!Next
      <3>3. ASSUME NEW q \in Queues, NEW o \in Operations,
                   NEW k \in IF o \in Pushing THEN Tasks ELSE {None}, Call(t, o, q, k)
            PROVE  Fifo!Next
        <4>1. Fifo!Begin(t, o, q, k)
          BY <2>1, <3>3, CallRefines
        <4>2. o \in Fifo!Operations /\ k \in Tasks \cup {None}
          BY DEF Operations, Pushing, Fifo!Operations, Fifo!Pushing, Fifo!Popping
        <4> QED
          BY <4>1, <4>2 DEF Fifo!Next
      <3> QED
        BY <3>1, <3>2, <3>3
    <2>2. ASSUME UNCHANGED qvars PROVE UNCHANGED Fifo!vars
      BY <2>2 DEF qvars, Fifo!vars
    <2> QED
      BY <2>1, <2>2
  <1> QED
    BY <1>1, <1>2, QueueTypeCorrect, PTL DEF QueueSpec, FifoSafe, Fifo!SafeSpec
=============================================================================
