------------------------ MODULE TaskSchedulerProofs ------------------------
(***************************************************************************)
(* Theorems about TaskScheduler, for any number of threads, clients and    *)
(* tasks.                                                                  *)
(***************************************************************************)
EXTENDS TaskScheduler, TaskQueueProofs

\* The loops of run and schedule stay within m_taskQueues.
LEMMA IndexInRange ==
    ASSUME NEW b \in Nat, NEW i \in Nat, m_threadCount > 0
    PROVE  Index(b, i) \in Queues
PROOF
  <1> DEFINE s == (b + i) % ThreadIdLimit
  <1>1. s \in Nat
    BY SchedulerAssumption
  <1>2. s % m_threadCount \in 0 .. m_threadCount - 1
    BY <1>1, SchedulerAssumption
  <1> QED
    BY <1>2, SchedulerAssumption DEF Index, Workers

\* What a queue operation changes for the threads: nothing for those that are
\* not in it, and for the one that is, the operation it is in goes on or
\* ends, with a handler if it is a pop that returns true.
LEMMA QueueStepFrame ==
    ASSUME QueueTypeOK, NEW t \in Threads, QueueStep(t)
    PROVE  /\ op[t] # "none"
           /\ \A s \in Threads \ {t} : op'[s] = op[s] /\ arg'[s] = arg[s] /\ ret'[s] = ret[s]
           /\ op'[t] = op[t] \/ op'[t] = "none"
           /\ op'[t] = "none" /\ ret'[t] /\ op[t] \in Popping => arg'[t] \in Tasks
PROOF
  <1> USE QueueAssumption DEF QueueTypeOK, CallsWellFormed, Pushing, Popping, Trying, queueVars
  <1>1. CASE Lock(t) \/ SetClosed(t) \/ Wait(t) \/ SpuriousWakeup(t) \/ Enqueue(t)
    BY <1>1 DEF Lock, SetClosed, Wait, SpuriousWakeup, Enqueue
  <1>2. CASE TryLockFails(t) \/ ReturnEmpty(t)
    BY <1>2 DEF TryLockFails, ReturnEmpty, Return
  <1>3. CASE NotifyOne(t) \/ NotifyAll(t)
    BY <1>3 DEF NotifyOne, NotifyAll
  <1>4. CASE Dequeue(t)
    <2>1. Head(m_taskQueue[at[t]]) \in Tasks
      <3>1. m_taskQueue[at[t]] \in Seq(Tasks) /\ m_taskQueue[at[t]] # << >>
        BY <1>4 DEF Dequeue
      <3> QED
        BY <3>1, HeadTailProperties
    <2> QED
      BY <1>4, <2>1 DEF Dequeue, Return
  <1> QED
    BY <1>1, <1>2, <1>3, <1>4 DEF QueueStep, QueueProgress

\* A queue operation goes on inside the caller's control.
LEMMA QueueStepControl ==
    ASSUME SchedulerTypeOK, NEW t \in Threads, QueueStep(t), UNCHANGED svars
    PROVE  SchedulerTypeOK'
PROOF
  <1>1. QueueTypeOK'
    BY QueueStepType DEF SchedulerTypeOK
  <1>2. ControlWellFormed'
    <2> SUFFICES ASSUME NEW s \in Threads
                 PROVE  /\ op'[s] = op[s] \/ op'[s] = "none"
                        /\ ctl'[s] \in {"scan", "own"} /\ op'[s] = "none" /\ offset'[s] > 0 /\ ret'[s]
                              => arg'[s] \in Tasks
      BY DEF SchedulerTypeOK, ControlWellFormed, svars, Succeeded, Idle
    <2> USE DEF SchedulerTypeOK, ControlWellFormed, svars, Succeeded, Idle
    <2>1. CASE s = t
      BY <2>1, QueueStepFrame DEF Popping
    <2>2. CASE s # t
      BY <2>2, QueueStepFrame
    <2> QED
      BY <2>1, <2>2
  <1> QED
    BY <1>1, <1>2 DEF SchedulerTypeOK, svars

\* A call that the scheduler makes is a step of the queues.
LEMMA CallStep ==
    ASSUME QueueTypeOK, NEW t \in Threads, NEW q \in Queues, NEW o \in Operations,
           NEW k \in IF o \in Pushing THEN Tasks ELSE {None}, Call(t, o, q, k)
    PROVE  QueueTypeOK' /\ QueueNext
PROOF
  <1>1. QueueTypeOK'
    BY CallType
  <1>2. o \in Pushing \/ o \in Popping \/ o = "close"
    BY DEF Operations, Pushing, Popping
  <1>3. o \in Popping => o \notin Pushing
    BY DEF Pushing, Popping
  <1>4. "close" \notin Pushing
    BY DEF Pushing
  <1> QED
    BY <1>1, <1>2, <1>3, <1>4 DEF QueueNext, CallPush, CallPop, CallClose

\* A step that leaves the queues and calls alone keeps their types.
LEMMA QueueTypeKept ==
    ASSUME QueueTypeOK, UNCHANGED qvars
    PROVE  QueueTypeOK'
PROOF
  BY DEF QueueTypeOK, CallsWellFormed, qvars

\* ControlWellFormed, thread by thread.
ThreadWellFormed(t) ==
    /\ \/ Idle(t)
       \/ ctl[t] = "scan" /\ op[t] = "tryPop"
       \/ ctl[t] = "own" /\ op[t] = "pop"
       \/ ctl[t] = "submit" /\ op[t] = "tryPush"
       \/ ctl[t] = "force" /\ op[t] = "push"
       \/ ctl[t] = "closing" /\ op[t] = "close"
    /\ ctl[t] \in {"scan", "own"} /\ Succeeded(t) => arg[t] \in Tasks
    /\ ctl[t] \in {"submit", "force", "await"} => task[t] \in Tasks
    /\ ctl[t] = "unborn" => offset[t] = 0
    /\ ctl[t] \in IF t \in Workers
                  THEN {"unborn", "scan", "own", "exited"} \cup Calling
                  ELSE IF t \in Clients THEN Calling
                  ELSE {"spawn", "up", "closing", "joining", "gone"}
    /\ t \in Workers => (ctl[t] \in Calling <=> running[t] \in Tasks)
    /\ t \in Workers /\ ctl[Owner] = "spawn" /\ t >= offset[Owner] => ctl[t] = "unborn"

\* The control state is well formed if that of every thread is.
LEMMA ThreadByThread ==
    ControlWellFormed <=> \A t \in Threads : ThreadWellFormed(t)
PROOF
  BY DEF ControlWellFormed, ThreadWellFormed

\* The steps of a worker in run.
LEMMA WorkerStep ==
    ASSUME SchedulerTypeOK, NEW w \in Workers, WorkerProgress(w)
    PROVE  SchedulerTypeOK' /\ [QueueNext]_qvars
PROOF
  <1> USE SchedulerAssumption DEF SchedulerTypeOK, Goto
  <1>0. /\ w \in Threads /\ w \in Queues /\ w \in Nat /\ m_threadCount > 0
        /\ None \notin Tasks
    BY QueueAssumption DEF Workers
  <1>1. CASE Scan(w)
    <2>1. Index(w, offset[w]) \in Queues
      BY <1>0, IndexInRange
    <2>2. Call(w, "tryPop", Index(w, offset[w]), None) /\ "tryPop" \in Operations \ Pushing
      BY <1>1 DEF Scan, CallPop, Operations, Pushing
    <2>3. QueueTypeOK' /\ QueueNext
      BY <1>0, <2>1, <2>2, CallStep
    <2>4. ASSUME NEW s \in Threads PROVE ThreadWellFormed(s)'
      <3>1. ThreadWellFormed(s) /\ Owner # w /\ Owner \in Threads
        BY <1>0, ThreadByThread
      <3>2. CASE s = w
        BY <1>0, <1>1, <2>2, <3>1, <3>2
        DEF Scan, Call, QueueTypeOK, ThreadWellFormed, Succeeded, Idle, Calling
      <3>3. CASE s # w
        BY <1>0, <1>1, <2>2, <3>1, <3>3
        DEF Scan, Call, QueueTypeOK, ThreadWellFormed, Succeeded, Idle, Calling
      <3> QED
        BY <3>2, <3>3
    <2>5. ControlWellFormed'
      BY <2>4 DEF ControlWellFormed, ThreadWellFormed
    <2> QED
      BY <1>0, <1>1, <2>3, <2>5 DEF Scan, Controls
  <1>2. CASE PopOwn(w)
    <2>2. Call(w, "pop", w, None) /\ "pop" \in Operations \ Pushing
      BY <1>2 DEF PopOwn, CallPop, Operations, Pushing
    <2>3. QueueTypeOK' /\ QueueNext
      BY <1>0, <2>2, CallStep
    <2>4. ASSUME NEW s \in Threads PROVE ThreadWellFormed(s)'
      <3>1. ThreadWellFormed(s) /\ Owner # w /\ Owner \in Threads
        BY <1>0, ThreadByThread
      <3>2. CASE s = w
        BY <1>0, <1>2, <2>2, <3>1, <3>2
        DEF PopOwn, Call, QueueTypeOK, ThreadWellFormed, Succeeded, Idle, Calling
      <3>3. CASE s # w
        BY <1>0, <1>2, <2>2, <3>1, <3>3
        DEF PopOwn, Call, QueueTypeOK, ThreadWellFormed, Succeeded, Idle, Calling
      <3> QED
        BY <3>2, <3>3
    <2>5. ControlWellFormed'
      BY <2>4 DEF ControlWellFormed, ThreadWellFormed
    <2> QED
      BY <1>0, <1>2, <2>3, <2>5 DEF PopOwn, Controls
  <1>3. CASE Run(w)
    <2>1. QueueTypeOK' /\ arg[w] \in Tasks
      BY <1>0, <1>3, QueueTypeKept DEF Run, ControlWellFormed
    <2>2. ControlWellFormed'
      BY <1>0, <1>3, <2>1 DEF Run, ControlWellFormed, Succeeded, Idle, Calling, qvars
    <2> QED
      BY <1>0, <1>3, <2>1, <2>2 DEF Run, Controls
  <1>4. CASE RunEmpty(w) \/ Throw(w)
    <2>1. Abort
      BY <1>4 DEF RunEmpty, Throw
    <2> QED
      BY <2>1, QueueTypeKept DEF Abort, ControlWellFormed, Succeeded, Idle, qvars
  <1>5. CASE Finish(w)
    <2>1. QueueTypeOK' /\ running[w] \in Tasks
      BY <1>0, <1>5, QueueTypeKept DEF Finish, ControlWellFormed, Calling
    <2>2. ControlWellFormed'
      BY <1>0, <1>5, <2>1 DEF Finish, ControlWellFormed, Succeeded, Idle, Calling, qvars
    <2> QED
      BY <1>0, <1>5, <2>1, <2>2 DEF Finish, Controls
  <1>6. CASE Quit(w)
    <2>1. QueueTypeOK'
      BY <1>6, QueueTypeKept DEF Quit
    <2>2. ControlWellFormed'
      BY <1>0, <1>6 DEF Quit, ControlWellFormed, Succeeded, Idle, Calling, qvars
    <2> QED
      BY <1>0, <1>6, <2>1, <2>2 DEF Quit, Controls
  <1> QED
    BY <1>1, <1>2, <1>3, <1>4, <1>5, <1>6 DEF WorkerProgress

\* The steps of a thread in schedule, and of one that waits for a future.
LEMMA CallerStep ==
    ASSUME SchedulerTypeOK, NEW t \in Workers \cup Clients,
           \/ CallerProgress(t)
           \/ \E k \in Tasks : Schedule(t, k) \/ Await(t, k)
    PROVE  SchedulerTypeOK' /\ [QueueNext]_qvars
PROOF
  <1> USE SchedulerAssumption DEF SchedulerTypeOK, Goto
  <1>0. t \in Threads /\ t # Owner
    OBVIOUS
  <1>1. CASE TrySubmit(t)
    <2>1. Index(base[t], offset[t]) \in Queues /\ task[t] \in Tasks
      <3>1. offset[t] \in Nat /\ base[t] \in Nat /\ offset[t] < m_threadCount * ScheduleTryCycles
        BY <1>0, <1>1 DEF TrySubmit
      <3>2. m_threadCount # 0
        BY <3>1
      <3>3. m_threadCount > 0
        BY <3>2
      <3> QED
        BY <1>0, <1>1, <3>1, <3>3, IndexInRange DEF TrySubmit, ControlWellFormed
    <2>2. /\ Call(t, "tryPush", Index(base[t], offset[t]), task[t])
          /\ "tryPush" \in Operations \cap Pushing
      BY <1>1 DEF TrySubmit, CallPush, Operations, Pushing
    <2>3. QueueTypeOK' /\ QueueNext
      BY <1>0, <2>1, <2>2, CallStep
    <2>4. ControlWellFormed'
      BY <1>0, <1>1, <2>2 DEF TrySubmit, Call, ControlWellFormed, Succeeded, Idle, Calling
    <2> QED
      BY <1>0, <1>1, <2>3, <2>4 DEF TrySubmit, Controls
  <1>2. CASE ForcePush(t)
    <2>1. base[t] \in Queues /\ task[t] \in Tasks
      BY <1>0, <1>2 DEF ForcePush, Forcing, ControlWellFormed
    <2>2. Call(t, "push", base[t], task[t]) /\ "push" \in Operations \cap Pushing
      BY <1>2 DEF ForcePush, CallPush, Operations, Pushing
    <2>3. QueueTypeOK' /\ QueueNext
      BY <1>0, <2>1, <2>2, CallStep
    <2>4. ControlWellFormed'
      BY <1>0, <1>2, <2>2 DEF ForcePush, Forcing, Call, ControlWellFormed, Succeeded, Idle, Calling
    <2> QED
      BY <1>0, <1>2, <2>3, <2>4 DEF ForcePush, Controls
  <1>3. CASE ForceOutOfRange(t)
    <2>1. Abort
      BY <1>3 DEF ForceOutOfRange
    <2> QED
      BY <2>1, QueueTypeKept DEF Abort, ControlWellFormed, Succeeded, Idle, qvars
  <1>4. CASE Scheduled(t) \/ Resume(t)
    <2>1. QueueTypeOK'
      BY <1>4, QueueTypeKept DEF Scheduled, Resume
    <2>2. ControlWellFormed'
      BY <1>0, <1>4 DEF Scheduled, Resume, ControlWellFormed, Succeeded, Idle, Calling, qvars
    <2> QED
      BY <1>0, <1>4, <2>1, <2>2 DEF Scheduled, Resume, Controls
  <1>5. ASSUME NEW k \in Tasks, Schedule(t, k)
        PROVE  SchedulerTypeOK' /\ [QueueNext]_qvars
    <2>1. QueueTypeOK'
      BY <1>5, QueueTypeKept DEF Schedule
    <2>2. ControlWellFormed'
      BY <1>0, <1>5 DEF Schedule, ControlWellFormed, Succeeded, Idle, Calling, qvars
    <2>3. Caller(t) \in Clients \cup Tasks \cup {None}
      BY DEF Caller
    <2>4. (m_activeThreadId + 1) % ThreadIdLimit \in 0 .. ThreadIdLimit - 1
      OBVIOUS
    <2> QED
      BY <1>0, <1>5, <2>1, <2>2, <2>3, <2>4 DEF Schedule, FetchAdd, Controls
  <1>6. ASSUME NEW k \in Tasks, Await(t, k)
        PROVE  SchedulerTypeOK' /\ [QueueNext]_qvars
    <2>1. QueueTypeOK'
      BY <1>6, QueueTypeKept DEF Await
    <2>2. ControlWellFormed'
      BY <1>0, <1>6 DEF Await, ControlWellFormed, Succeeded, Idle, Calling, qvars
    <2> QED
      BY <1>0, <1>6, <2>1, <2>2 DEF Await, Controls
  <1> QED
    BY <1>1, <1>2, <1>3, <1>4, <1>5, <1>6 DEF CallerProgress

\* The steps of the constructor and the destructor.
LEMMA OwnerStep ==
    ASSUME SchedulerTypeOK, OwnerProgress \/ Destroy \/ SpawnNone \/ SpawnSome
    PROVE  SchedulerTypeOK' /\ [QueueNext]_qvars
PROOF
  <1> USE SchedulerAssumption DEF SchedulerTypeOK, Goto
  <1>0. /\ Owner \in Threads /\ Owner \notin Workers \cup Clients
        /\ offset[Owner] \in Nat
    OBVIOUS
  <1>1. CASE Close
    <2>1. offset[Owner] \in Queues
      BY <1>0, <1>1 DEF Close, Workers
    <2>2. Call(Owner, "close", offset[Owner], None) /\ "close" \in Operations \ Pushing
      BY <1>1 DEF Close, CallClose, Operations, Pushing
    <2>3. QueueTypeOK' /\ QueueNext
      BY <1>0, <2>1, <2>2, CallStep
    <2>4. ControlWellFormed'
      BY <1>0, <1>1, <2>2 DEF Close, Call, ControlWellFormed, Succeeded, Idle, Calling
    <2> QED
      BY <1>0, <1>1, <2>3, <2>4 DEF Close, Controls
  <1>2. CASE Spawn
    <2>1. QueueTypeOK'
      BY <1>2, QueueTypeKept DEF Spawn
    <2>2. ControlWellFormed'
      <3>1. CASE offset[Owner] < m_threadCount
        <4>1. offset[Owner] \in Workers
          BY <1>0, <3>1 DEF Workers
        <4>2. /\ ctl' = [ctl EXCEPT ![offset[Owner]] = "scan"]
              /\ offset' = [offset EXCEPT ![Owner] = @ + 1]
              /\ ctl[Owner] = "spawn"
              /\ ctl[offset[Owner]] = "unborn"
          BY <1>0, <1>2, <3>1, <4>1 DEF Spawn, ControlWellFormed
        <4>3. ASSUME NEW s \in Threads PROVE ThreadWellFormed(s)'
          <5>1. ThreadWellFormed(s)
            BY ThreadByThread
          <5>2. CASE s = offset[Owner]
            <6>1. Idle(s) /\ running[s] \notin Tasks /\ offset'[Owner] = offset[Owner] + 1
              BY <1>0, <4>1, <4>2, <5>1, <5>2 DEF ThreadWellFormed, Calling, Idle
            <6> QED
              BY <1>0, <1>2, <4>1, <4>2, <5>1, <5>2, <6>1
              DEF Spawn, ThreadWellFormed, Succeeded, Idle, Calling, qvars, Workers
          <5>3. CASE s # offset[Owner] /\ s # Owner
            <6>1. /\ ctl'[s] = ctl[s] /\ offset'[s] = offset[s]
                  /\ ctl'[Owner] = "spawn" /\ offset'[Owner] = offset[Owner] + 1
              BY <1>0, <4>1, <4>2, <5>3
            <6> QED
              BY <1>0, <1>2, <4>2, <5>1, <5>3, <6>1
              DEF Spawn, ThreadWellFormed, Succeeded, Idle, qvars, Workers
          <5>4. CASE s = Owner
            BY <1>0, <1>2, <4>1, <4>2, <5>1, <5>4
            DEF Spawn, ThreadWellFormed, Succeeded, Idle, qvars
          <5> QED
            BY <5>2, <5>3, <5>4
        <4> QED
          BY <4>3 DEF ControlWellFormed, ThreadWellFormed
      <3>2. CASE ~(offset[Owner] < m_threadCount)
        BY <1>0, <1>2, <3>2 DEF Spawn, ControlWellFormed, Succeeded, Idle, Calling, qvars
      <3> QED
        BY <3>1, <3>2
    <2> QED
      BY <1>0, <1>2, <2>1, <2>2 DEF Spawn, Controls
  <1>3. CASE SpawnNone \/ Destroy \/ AllClosed \/ Join
    <2>1. QueueTypeOK'
      BY <1>3, QueueTypeKept DEF SpawnNone, Destroy, AllClosed, Join
    <2>2. ControlWellFormed'
      BY <1>0, <1>3
      DEF SpawnNone, Destroy, AllClosed, Join, ControlWellFormed, Succeeded, Idle, Calling, qvars
    <2> QED
      BY <1>0, <1>3, <2>1, <2>2 DEF SpawnNone, Destroy, AllClosed, Join, Controls
  <1>4. CASE SpawnSome
    <2>1. Abort
      BY <1>4 DEF SpawnSome
    <2> QED
      BY <2>1, QueueTypeKept DEF Abort, ControlWellFormed, Succeeded, Idle, qvars
  <1> QED
    BY <1>1, <1>2, <1>3, <1>4 DEF OwnerProgress

\* Every step of the scheduler keeps the types, and is a step of the queues or
\* leaves them alone.
LEMMA SchedulerStep ==
    ASSUME SchedulerTypeOK, SchedulerNext
    PROVE  SchedulerTypeOK' /\ [QueueNext]_qvars
PROOF
  <1>1. CASE Ended
    <2>1. UNCHANGED vars
      BY <1>1 DEF Ended
    <2>2. QueueTypeOK'
      BY <2>1, QueueTypeKept DEF vars, qvars, SchedulerTypeOK
    <2> QED
      BY <2>1, <2>2
      DEF vars, qvars, SchedulerTypeOK, ControlWellFormed, Succeeded, Idle
  <1>2. ASSUME NEW t \in Threads, QueueStep(t), UNCHANGED svars
        PROVE  SchedulerTypeOK' /\ [QueueNext]_qvars
    BY <1>2, QueueStepControl DEF QueueNext
  <1>3. ASSUME NEW t \in Threads, Progress(t)
        PROVE  SchedulerTypeOK' /\ [QueueNext]_qvars
    BY <1>2, <1>3, WorkerStep, CallerStep, OwnerStep DEF Progress, QueueStep
  <1>4. ASSUME NEW t \in Threads, Choice(t)
        PROVE  SchedulerTypeOK' /\ [QueueNext]_qvars
    BY <1>2, <1>4, CallerStep, OwnerStep DEF Choice, QueueStep
  <1> QED
    BY <1>1, <1>3, <1>4 DEF SchedulerNext

\* The types hold at first.
LEMMA SchedulerStart == SchedulerInit => SchedulerTypeOK /\ QueueInit
PROOF
  <1> SUFFICES ASSUME SchedulerInit PROVE SchedulerTypeOK
    BY DEF SchedulerInit
  <1>1. QueueTypeOK /\ op = [t \in Threads |-> "none"]
    BY QueueAssumption
    DEF SchedulerInit, QueueInit, QueueTypeOK, CallsWellFormed, Operations, Pushing, Popping
  <1>2. ControlWellFormed
    BY <1>1, QueueAssumption, SchedulerAssumption
    DEF SchedulerInit, ControlWellFormed, Succeeded, Idle, Calling
  <1>3. 0 \in 0 .. ThreadIdLimit - 1
    BY SchedulerAssumption
  <1> QED
    BY <1>1, <1>2, <1>3, SchedulerAssumption DEF SchedulerInit, SchedulerTypeOK, Controls

\* Type correctness of the scheduler: whatever it does, its loops index their
\* queues within bounds, pushes hand over tasks, and a worker that executes a
\* handler has one.
THEOREM SchedulerTypeCorrect == SchedulerSpec => []SchedulerTypeOK
PROOF
  <1>1. SchedulerTypeOK /\ UNCHANGED vars => SchedulerTypeOK'
    BY QueueTypeKept
    DEF vars, qvars, SchedulerTypeOK, ControlWellFormed, Succeeded, Idle
  <1>2. SchedulerTypeOK /\ [SchedulerNext]_vars => SchedulerTypeOK'
    BY <1>1, SchedulerStep
  <1> QED
    BY <1>2, SchedulerStart, PTL DEF SchedulerSpec

\* The scheduler uses its queues as TaskQueue allows, so that what is proved
\* of TaskQueue holds in the scheduler.
THEOREM SchedulerUsesQueues == SchedulerSpec => QueueSpec
PROOF
  <1>1. SchedulerTypeOK /\ [SchedulerNext]_vars => [QueueNext]_qvars
    <2>1. UNCHANGED vars => UNCHANGED qvars
      BY DEF vars, qvars
    <2> QED
      BY <2>1, SchedulerStep
  <1> QED
    BY <1>1, SchedulerStart, SchedulerTypeCorrect, PTL DEF SchedulerSpec, QueueSpec

\* No worker of the pool sleeps beside a task in its queue, or on a closed
\* queue, unless a thread is about to wake it or to take the task.
THEOREM SchedulerLosesNoWakeup == SchedulerSpec => []NoLostWakeup
PROOF
  BY SchedulerUsesQueues, NoWakeupIsLost, PTL
=============================================================================
