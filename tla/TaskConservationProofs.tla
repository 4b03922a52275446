----------------------- MODULE TaskConservationProofs -----------------------
(***************************************************************************)
(* That TaskScheduler neither loses nor duplicates a handler, for any      *)
(* number of threads, clients and tasks.                                   *)
(*                                                                         *)
(* Holds says that a handler is in a place of one of five kinds; a step of *)
(* the scheduler moves one handler from its place to another, or none.     *)
(***************************************************************************)
EXTENDS TaskSchedulerProofs

\* The five kinds, and the places that there are of each, named by a thread or
\* a queue; a handler that has been called is in no thread's place.
Kinds == {"submitter", "queue", "hand", "runner", "done"}

Places == Threads \cup {None}

\* Handler k is in the place x of kind c.
Holds(c, x, k) ==
    \/ c = "submitter" /\ x \in Threads /\ Submitting(x, k)
    \/ c = "queue" /\ x \in Queues /\ Queued(k, x)
    \/ c = "hand" /\ x \in Workers /\ InHand(x, k)
    \/ c = "runner" /\ x \in Workers /\ running[x] = k
    \/ c = "done" /\ x = None /\ k \in finished

\* A handler is in one place at most,
AtMostOnePlace ==
    \A k \in Tasks : \A c, d \in Kinds : \A x, y \in Places :
        Holds(c, x, k) /\ Holds(d, y, k) => c = d /\ x = y

\* and there only once, if that is a queue;
Distinct(s) == \A i, j \in DOMAIN s : s[i] = s[j] => i = j

NoDuplicates == \A q \in Queues : Distinct(m_taskQueue[q])

\* it is in a place from when it is scheduled on, unless it is empty.
InSomePlace ==
    \A k \in Tasks :
        /\ issuer[k] = None => \A c \in Kinds, x \in Places : ~Holds(c, x, k)
        /\ issuer[k] # None /\ k \notin EmptyTasks =>
            \E c \in Kinds, x \in Places : Holds(c, x, k)

\* A handler has been called once when it runs or has run.
CalledOnce ==
    \A k \in Tasks :
        runs[k] = IF k \in finished \/ \E w \in Workers : running[w] = k THEN 1 ELSE 0

\* A thread that executes an operation of a queue has counted the iteration
\* of its loop, and pushes the task that it was given.
CallsFit ==
    \A t \in Threads : ~Idle(t) =>
        /\ ctl[t] \in {"scan", "own", "submit", "force"} => offset[t] > 0
        /\ ctl[t] \in {"submit", "force"} => arg[t] = task[t]

\* The inductive invariant of Conservation.
ConservationInv ==
    /\ SchedulerTypeOK
    /\ CallsFit
    /\ AtMostOnePlace
    /\ NoDuplicates
    /\ InSomePlace
    /\ CalledOnce

-----------------------------------------------------------------------------
(***************************************************************************)
(* How a step may change the places.                                       *)
(***************************************************************************)

\* A thread whose own state is as before holds what it held.
LEMMA LocalFrame ==
    ASSUME NEW s \in Threads, NEW k \in Tasks,
           ctl'[s] = ctl[s], offset'[s] = offset[s], task'[s] = task[s],
           op'[s] = op[s], arg'[s] = arg[s], ret'[s] = ret[s],
           pc'[s] = "notify" <=> pc[s] = "notify"
    PROVE  /\ Submitting(s, k)' <=> Submitting(s, k)
           /\ InHand(s, k)' <=> InHand(s, k)
PROOF
  BY DEF Submitting, InHand, Succeeded, Idle

\* No handler moves.
LEMMA KeptPlaces ==
    ASSUME ConservationInv,
           UNCHANGED <<m_taskQueue, issuer, running, runs, finished>>,
           \A s \in Threads, k \in Tasks :
               /\ Submitting(s, k)' <=> Submitting(s, k)
               /\ s \in Workers => (InHand(s, k)' <=> InHand(s, k))
    PROVE  NoDuplicates' /\ AtMostOnePlace' /\ InSomePlace' /\ CalledOnce'
PROOF
  <1>1. Workers \subseteq Threads
    BY SchedulerAssumption
  <1>2. \A c \in Kinds, x \in Places, k \in Tasks : Holds(c, x, k)' <=> Holds(c, x, k)
    BY <1>1 DEF Holds, Queued
  <1>3. AtMostOnePlace' /\ InSomePlace'
    BY <1>2 DEF ConservationInv, AtMostOnePlace, InSomePlace
  <1> QED
    BY <1>3 DEF ConservationInv, NoDuplicates, CalledOnce

\* Handler k moves to the place x of kind c, the others stay.
MovesTo(k, c, x) ==
    \A d \in Kinds, y \in Places, j \in Tasks :
        Holds(d, y, j)' <=> IF j = k THEN d = c /\ y = x ELSE Holds(d, y, j)

\* A step that moves only k, to a single place, after k was scheduled, leaves
\* every handler in one place.
LEMMA MovedPlaces ==
    ASSUME ConservationInv, NEW k \in Tasks, NEW c \in Kinds, NEW x \in Places,
           MovesTo(k, c, x),
           issuer'[k] # None,
           \A j \in Tasks \ {k} : issuer'[j] = issuer[j]
    PROVE  AtMostOnePlace' /\ InSomePlace'
PROOF
  BY DEF ConservationInv, AtMostOnePlace, InSomePlace, MovesTo

\* An empty handler is dropped, the others stay.
LEMMA DroppedPlaces ==
    ASSUME ConservationInv, NEW k \in EmptyTasks, UNCHANGED issuer,
           \A d \in Kinds, y \in Places, j \in Tasks :
               Holds(d, y, j)' <=> j # k /\ Holds(d, y, j)
    PROVE  AtMostOnePlace' /\ InSomePlace'
PROOF
  BY DEF ConservationInv, AtMostOnePlace, InSomePlace

\* A handler that is somewhere was scheduled, and is nowhere else.
LEMMA OnlyThere ==
    ASSUME ConservationInv, NEW k \in Tasks, NEW c \in Kinds, NEW x \in Places,
           Holds(c, x, k)
    PROVE  /\ issuer[k] # None
           /\ \A d \in Kinds, y \in Places : Holds(d, y, k) <=> d = c /\ y = x
PROOF
  BY DEF ConservationInv, AtMostOnePlace, InSomePlace

-----------------------------------------------------------------------------
(***************************************************************************)
(* The steps of a queue.                                                   *)
(***************************************************************************)

\* Those that move no handler.
LEMMA QueueKeepsPlaces ==
    ASSUME ConservationInv, NEW t \in Threads, QueueStep(t), UNCHANGED svars,
           ~Enqueue(t), ~Dequeue(t)
    PROVE  NoDuplicates' /\ AtMostOnePlace' /\ InSomePlace' /\ CalledOnce'
PROOF
  <1>1. /\ m_taskQueue' = m_taskQueue
        /\ \A s \in Threads \ {t} : pc'[s] = "notify" <=> pc[s] = "notify"
    BY DEF QueueStep, QueueProgress, Lock, TryLockFails, NotifyOne, SetClosed, NotifyAll,
           ReturnEmpty, Wait, SpuriousWakeup, Return, Sleepers, queueVars,
           ConservationInv, SchedulerTypeOK, QueueTypeOK
  <1>2. \A s \in Threads \ {t}, k \in Tasks :
            /\ Submitting(s, k)' <=> Submitting(s, k)
            /\ InHand(s, k)' <=> InHand(s, k)
    BY <1>1, LocalFrame, QueueStepFrame DEF ConservationInv, SchedulerTypeOK, svars
  <1>3. ASSUME NEW k \in Tasks
        PROVE  /\ Submitting(t, k)' <=> Submitting(t, k)
               /\ InHand(t, k)' <=> InHand(t, k)
    <2> USE DEF ConservationInv, SchedulerTypeOK, QueueTypeOK, CallsWellFormed, svars,
                Submitting, InHand, Succeeded, Idle
    <2>1. CASE Lock(t) \/ SetClosed(t) \/ Wait(t) \/ SpuriousWakeup(t)
      BY <2>1 DEF Lock, SetClosed, Wait, SpuriousWakeup, ControlWellFormed, Pushing
    <2>2. CASE TryLockFails(t) \/ ReturnEmpty(t)
      BY <2>2 DEF TryLockFails, ReturnEmpty, Return
    <2>3. CASE NotifyOne(t)
      BY <2>3 DEF NotifyOne, ControlWellFormed, CallsFit, Pushing
    <2>4. CASE NotifyAll(t)
      BY <2>4 DEF NotifyAll, ControlWellFormed
    <2> QED
      BY <2>1, <2>2, <2>3, <2>4 DEF QueueStep, QueueProgress
  <1>4. Workers \subseteq Threads
    BY SchedulerAssumption
  <1>5. UNCHANGED <<m_taskQueue, issuer, running, runs, finished>>
    BY <1>1 DEF svars
  <1> QED
    BY <1>2, <1>3, <1>4, <1>5, KeptPlaces

\* What an append and a removal do to the members of a sequence.
Members(s) == {s[i] : i \in DOMAIN s}

\* A task is in a queue if it is an element of the sequence.
LEMMA QueuedMember == \A k, q : Queued(k, q) <=> k \in Members(m_taskQueue[q])
PROOF
  BY DEF Queued, Members

\* push_back adds an element, and no duplicate if the element is new.
LEMMA AppendMembers ==
    ASSUME NEW S, NEW s \in Seq(S), NEW e \in S
    PROVE  /\ Members(Append(s, e)) = Members(s) \cup {e}
           /\ Distinct(s) /\ e \notin Members(s) => Distinct(Append(s, e))
PROOF
  <1> DEFINE u == Append(s, e)
  <1>1. /\ DOMAIN s = 1 .. Len(s) /\ Len(s) \in Nat
        /\ DOMAIN u = 1 .. Len(s) + 1
        /\ \A i \in 1 .. Len(s) : u[i] = s[i]
        /\ u[Len(s) + 1] = e
    BY AppendProperties, LenProperties
  <1>2. \A i \in 1 .. Len(s) + 1 : i = Len(s) + 1 \/ i \in 1 .. Len(s)
    BY <1>1
  <1>3. Len(s) + 1 \in 1 .. Len(s) + 1 /\ 1 .. Len(s) \subseteq 1 .. Len(s) + 1
    BY <1>1
  <1> HIDE DEF u
  <1>4. Members(u) = Members(s) \cup {e}
    BY <1>1, <1>2, <1>3 DEF Members
  <1>5. Distinct(s) /\ e \notin Members(s) => Distinct(u)
    BY <1>1, <1>2, <1>3 DEF Members, Distinct
  <1> QED
    BY <1>4, <1>5 DEF u

\* pop_front removes the first element, which is not in the rest.
LEMMA TailMembers ==
    ASSUME NEW S, NEW s \in Seq(S), s # << >>, Distinct(s)
    PROVE  /\ Members(Tail(s)) = Members(s) \ {Head(s)}
           /\ Distinct(Tail(s))
           /\ Head(s) \in Members(s)
PROOF
  <1> DEFINE u == Tail(s)
  <1>1. /\ DOMAIN s = 1 .. Len(s) /\ Len(s) \in Nat \ {0}
        /\ Head(s) = s[1]
        /\ DOMAIN u = 1 .. Len(s) - 1
        /\ \A i \in 1 .. Len(s) - 1 : u[i] = s[i + 1]
    BY HeadTailProperties, LenProperties, EmptySeq
  <1> HIDE DEF u
  <1>2. \A i \in 1 .. Len(s) - 1 : i + 1 \in 1 .. Len(s) /\ i + 1 # 1
    BY <1>1
  <1>3. \A i \in 1 .. Len(s) : i = 1 \/ (i - 1 \in 1 .. Len(s) - 1 /\ (i - 1) + 1 = i)
    BY <1>1
  <1>4. 1 \in 1 .. Len(s)
    BY <1>1
  <1>5. ASSUME NEW i \in DOMAIN u
        PROVE  u[i] \in Members(s) \ {Head(s)}
    <2>1. u[i] = s[i + 1] /\ i + 1 \in DOMAIN s /\ i + 1 # 1 /\ 1 \in DOMAIN s
      BY <1>1, <1>2, <1>4
    <2> QED
      BY <1>1, <2>1 DEF Members, Distinct
  <1>6. ASSUME NEW i \in DOMAIN s, s[i] # Head(s)
        PROVE  s[i] \in Members(u)
    <2>1. i - 1 \in 1 .. Len(s) - 1 /\ (i - 1) + 1 = i
      BY <1>1, <1>3, <1>6
    <2>2. u[i - 1] = s[(i - 1) + 1]
      BY <1>1, <2>1
    <2>3. u[i - 1] = s[i]
      BY <2>1, <2>2
    <2> QED
      BY <1>1, <2>1, <2>3 DEF Members
  <1>7. ASSUME NEW i \in DOMAIN u, NEW j \in DOMAIN u, u[i] = u[j]
        PROVE  i = j
    <2>1. s[i + 1] = s[j + 1] /\ i + 1 \in DOMAIN s /\ j + 1 \in DOMAIN s
      BY <1>1, <1>2, <1>7
    <2>2. i + 1 = j + 1
      BY <2>1 DEF Distinct
    <2> QED
      BY <1>1, <2>2
  <1>8. Members(u) = Members(s) \ {Head(s)}
    BY <1>5, <1>6 DEF Members
  <1> QED
    BY <1>1, <1>4, <1>7, <1>8 DEF Members, Distinct, u

\* emplace_back takes the handler from its submitter to the queue.
LEMMA EnqueueMoves ==
    ASSUME ConservationInv, NEW t \in Threads, Enqueue(t), UNCHANGED svars
    PROVE  NoDuplicates' /\ AtMostOnePlace' /\ InSomePlace' /\ CalledOnce'
PROOF
  <1> DEFINE k == arg[t]
  <1> DEFINE q == at[t]
  <1>1. /\ t \notin {Owner} /\ ctl[t] \in {"submit", "force"} /\ k = task[t] /\ k \in Tasks
        /\ q \in Queues /\ m_taskQueue[q] \in Seq(Tasks) /\ t \in Places /\ q \in Places
        /\ Submitting(t, k) /\ pc'[t] = "notify"
    BY SchedulerAssumption
    DEF Enqueue, ConservationInv, SchedulerTypeOK, QueueTypeOK, CallsWellFormed, CallsFit,
        ControlWellFormed, Idle, Pushing, Submitting, Succeeded, Places
  <1>2. /\ m_taskQueue' = [m_taskQueue EXCEPT ![q] = Append(m_taskQueue[q], k)]
        /\ \A s \in Threads \ {t} : pc'[s] = pc[s]
    BY DEF Enqueue, ConservationInv, SchedulerTypeOK, QueueTypeOK
  <1>3. Holds("submitter", t, k) /\ "submitter" \in Kinds /\ "queue" \in Kinds
    BY <1>1 DEF Holds, Kinds
  <1>4. /\ issuer[k] # None
        /\ \A d \in Kinds, y \in Places : Holds(d, y, k) <=> d = "submitter" /\ y = t
    BY <1>1, <1>3, OnlyThere
  <1>5. /\ m_taskQueue'[q] = Append(m_taskQueue[q], k)
        /\ \A r \in Queues \ {q} : m_taskQueue'[r] = m_taskQueue[r]
    BY <1>1, <1>2 DEF ConservationInv, SchedulerTypeOK, QueueTypeOK
  <1>6. ASSUME NEW r \in Queues, NEW j \in Tasks
        PROVE  Queued(j, r)' <=> (j = k /\ r = q) \/ Queued(j, r)
    <2>1. Members(m_taskQueue'[q]) = Members(m_taskQueue[q]) \cup {k}
      BY <1>1, <1>5, AppendMembers
    <2>2. Queued(j, r)' <=> j \in Members(m_taskQueue'[r])
      BY DEF Queued, Members
    <2> HIDE DEF k, q
    <2> QED
      BY <1>5, <2>1, <2>2, QueuedMember
  <1>7. ASSUME NEW j \in Tasks
        PROVE  /\ ~Submitting(t, j)'
               /\ Submitting(t, j) => j = k
               /\ ~InHand(t, j)' /\ ~InHand(t, j)
               /\ \A s \in Threads \ {t} : /\ Submitting(s, j)' <=> Submitting(s, j)
                                           /\ InHand(s, j)' <=> InHand(s, j)
    <2>1. ~Submitting(t, j)' /\ ~InHand(t, j)' /\ ~InHand(t, j) /\ (Submitting(t, j) => j = k)
      BY <1>1 DEF Submitting, InHand, svars
    <2>2. ASSUME NEW s \in Threads \ {t}
          PROVE  /\ Submitting(s, j)' <=> Submitting(s, j)
                 /\ InHand(s, j)' <=> InHand(s, j)
      BY <1>2, LocalFrame DEF Enqueue, svars
    <2> QED
      BY <2>1, <2>2
  <1>8. MovesTo(k, "queue", q)
    <2> SUFFICES ASSUME NEW d \in Kinds, NEW y \in Places, NEW j \in Tasks
                 PROVE  Holds(d, y, j)' <=> IF j = k THEN d = "queue" /\ y = q
                                            ELSE Holds(d, y, j)
      BY DEF MovesTo
    <2>1. q \in Queues /\ t \in Threads /\ Workers \subseteq Threads
      BY <1>1, SchedulerAssumption
    <2>2. UNCHANGED <<running, finished>>
      BY DEF svars
    <2> HIDE DEF k, q
    <2>3. CASE d = "submitter"
      BY <1>4, <1>7, <2>1, <2>2, <2>3 DEF Holds
    <2>4. CASE d = "queue"
      BY <1>4, <1>6, <2>1, <2>2, <2>4 DEF Holds
    <2>5. CASE d = "hand"
      BY <1>4, <1>7, <2>1, <2>2, <2>5 DEF Holds
    <2>6. CASE d \in {"runner", "done"}
      BY <1>4, <2>1, <2>2, <2>6 DEF Holds
    <2> QED
      BY <2>3, <2>4, <2>5, <2>6 DEF Kinds
  <1>9. AtMostOnePlace' /\ InSomePlace'
    <2>1. \A j \in Tasks : issuer'[j] = issuer[j]
      BY DEF svars
    <2> HIDE DEF k, q
    <2> QED
      BY <1>1, <1>3, <1>4, <1>8, <2>1, MovedPlaces
  <1>10. NoDuplicates'
    <2>1. k \notin Members(m_taskQueue[q])
      BY <1>1, <1>4, QueuedMember DEF Holds, Kinds
    <2>2. Distinct(m_taskQueue[q])
      BY <1>1 DEF ConservationInv, NoDuplicates
    <2>3. Distinct(m_taskQueue'[q])
      BY <1>1, <1>5, <2>1, <2>2, AppendMembers
    <2> QED
      BY <1>5, <2>3 DEF ConservationInv, NoDuplicates
  <1>11. CalledOnce'
    BY DEF CalledOnce, ConservationInv, svars
  <1> QED
    BY <1>9, <1>10, <1>11

\* pop_front takes the handler from the queue to the hands of a worker.
LEMMA DequeueMoves ==
    ASSUME ConservationInv, NEW t \in Threads, Dequeue(t), UNCHANGED svars
    PROVE  NoDuplicates' /\ AtMostOnePlace' /\ InSomePlace' /\ CalledOnce'
PROOF
  <1> DEFINE q == at[t]
  <1> DEFINE k == Head(m_taskQueue[q])
  <1>1. /\ t \in Workers /\ ctl[t] \in {"scan", "own"} /\ offset[t] > 0 /\ ~Idle(t)
        /\ q \in Queues /\ m_taskQueue[q] \in Seq(Tasks) /\ m_taskQueue[q] # << >>
        /\ t \in Places /\ q \in Places
    BY SchedulerAssumption
    DEF Dequeue, ConservationInv, SchedulerTypeOK, QueueTypeOK, CallsWellFormed, CallsFit,
        ControlWellFormed, Idle, Popping, Places, Calling
  <1>2. k \in Tasks
    BY <1>1, HeadTailProperties
  <1>3. /\ op'[t] = "none" /\ ret'[t] = TRUE /\ arg'[t] = k
        /\ m_taskQueue'[q] = Tail(m_taskQueue[q])
        /\ \A r \in Queues \ {q} : m_taskQueue'[r] = m_taskQueue[r]
        /\ \A s \in Threads \ {t} : pc'[s] = pc[s]
    BY <1>1 DEF Dequeue, Return, ConservationInv, SchedulerTypeOK, QueueTypeOK
  <1>4. Distinct(m_taskQueue[q])
    BY <1>1 DEF ConservationInv, NoDuplicates
  <1>5. Queued(k, q)
    BY <1>1, <1>4, TailMembers, QueuedMember
  <1>6. Holds("queue", q, k) /\ "hand" \in Kinds /\ "queue" \in Kinds
    BY <1>1, <1>5 DEF Holds, Kinds
  <1>7. /\ issuer[k] # None
        /\ \A d \in Kinds, y \in Places : Holds(d, y, k) <=> d = "queue" /\ y = q
    BY <1>1, <1>2, <1>6, OnlyThere
  <1>8. ASSUME NEW r \in Queues, NEW j \in Tasks
        PROVE  Queued(j, r)' <=> Queued(j, r) /\ ~(r = q /\ j = k)
    <2>1. Members(m_taskQueue'[q]) = Members(m_taskQueue[q]) \ {k}
      BY <1>1, <1>3, <1>4, TailMembers
    <2>2. Queued(j, r)' <=> j \in Members(m_taskQueue'[r])
      BY DEF Queued, Members
    <2> HIDE DEF k, q
    <2> QED
      BY <1>3, <2>1, <2>2, QueuedMember
  <1>9. ASSUME NEW j \in Tasks
        PROVE  /\ ~Submitting(t, j)' /\ ~Submitting(t, j)
               /\ ~InHand(t, j)
               /\ InHand(t, j)' <=> j = k
               /\ \A s \in Threads \ {t} : /\ Submitting(s, j)' <=> Submitting(s, j)
                                           /\ InHand(s, j)' <=> InHand(s, j)
    <2>1. /\ ~Submitting(t, j)' /\ ~Submitting(t, j) /\ ~InHand(t, j)
          /\ InHand(t, j)' <=> j = k
      BY <1>1, <1>3 DEF Submitting, InHand, Succeeded, Idle, svars
    <2>2. ASSUME NEW s \in Threads \ {t}
          PROVE  /\ Submitting(s, j)' <=> Submitting(s, j)
                 /\ InHand(s, j)' <=> InHand(s, j)
      <3>1. QueueStep(t)
        BY DEF QueueStep, QueueProgress
      <3> QED
        BY <1>3, <3>1, LocalFrame, QueueStepFrame DEF svars, ConservationInv, SchedulerTypeOK
    <2> QED
      BY <2>1, <2>2
  <1>10. MovesTo(k, "hand", t)
    <2> SUFFICES ASSUME NEW d \in Kinds, NEW y \in Places, NEW j \in Tasks
                 PROVE  Holds(d, y, j)' <=> IF j = k THEN d = "hand" /\ y = t
                                            ELSE Holds(d, y, j)
      BY DEF MovesTo
    <2>1. q \in Queues /\ t \in Workers /\ Workers \subseteq Threads
      BY <1>1, SchedulerAssumption
    <2>2. UNCHANGED <<running, finished>>
      BY DEF svars
    <2> HIDE DEF k, q
    <2>3. CASE d = "submitter"
      BY <1>7, <1>9, <2>1, <2>2, <2>3 DEF Holds
    <2>4. CASE d = "queue"
      BY <1>7, <1>8, <2>1, <2>2, <2>4 DEF Holds
    <2>5. CASE d = "hand"
      BY <1>7, <1>9, <2>1, <2>2, <2>5 DEF Holds
    <2>6. CASE d \in {"runner", "done"}
      BY <1>7, <2>1, <2>2, <2>6 DEF Holds
    <2> QED
      BY <2>3, <2>4, <2>5, <2>6 DEF Kinds
  <1>11. AtMostOnePlace' /\ InSomePlace'
    <2>1. \A j \in Tasks : issuer'[j] = issuer[j]
      BY DEF svars
    <2> HIDE DEF k, q
    <2> QED
      BY <1>1, <1>2, <1>6, <1>7, <1>10, <2>1, MovedPlaces
  <1>12. NoDuplicates'
    <2>1. Distinct(m_taskQueue'[q])
      BY <1>1, <1>3, <1>4, TailMembers
    <2> QED
      BY <1>3, <2>1 DEF ConservationInv, NoDuplicates
  <1>13. CalledOnce'
    BY DEF CalledOnce, ConservationInv, svars
  <1> QED
    BY <1>11, <1>12, <1>13
-----------------------------------------------------------------------------
(***************************************************************************)
(* The steps of the scheduler.                                             *)
(***************************************************************************)

\* Only the state of thread t changes.
OnlyThread(t) ==
    \A s \in Threads \ {t} :
        /\ ctl'[s] = ctl[s] /\ offset'[s] = offset[s] /\ task'[s] = task[s]
        /\ op'[s] = op[s] /\ at'[s] = at[s] /\ pc'[s] = pc[s]
        /\ arg'[s] = arg[s] /\ ret'[s] = ret[s]

\* A step of t that moves no handler.
LEMMA ThreadKeepsPlaces ==
    ASSUME ConservationInv, NEW t \in Threads, OnlyThread(t),
           UNCHANGED <<m_taskQueue, issuer, running, runs, finished>>,
           \A k \in Tasks :
               /\ Submitting(t, k)' <=> Submitting(t, k)
               /\ InHand(t, k)' <=> InHand(t, k)
    PROVE  NoDuplicates' /\ AtMostOnePlace' /\ InSomePlace' /\ CalledOnce'
PROOF
  <1>1. ASSUME NEW s \in Threads, NEW k \in Tasks
        PROVE  /\ Submitting(s, k)' <=> Submitting(s, k)
               /\ InHand(s, k)' <=> InHand(s, k)
    <2>1. CASE s = t
      BY <2>1
    <2>2. CASE s # t
      BY <2>2, LocalFrame DEF OnlyThread
    <2> QED
      BY <2>1, <2>2
  <1> QED
    BY <1>1, KeptPlaces

\* Those of a worker, of a thread in schedule or get, and of the owner: a loop
\* goes on, a call returns, a thread waits.
LEMMA StayingSteps ==
    ASSUME ConservationInv, NEW t \in Threads,
           \/ t \in Workers /\ (Scan(t) \/ Quit(t))
           \/ t \in Workers /\ PopOwn(t) /\ ~Succeeded(t)
           \/ t \in Workers \cup Clients /\ (TrySubmit(t) \/ ForcePush(t) \/ Scheduled(t) \/ Resume(t))
           \/ t \in Workers \cup Clients /\ \E k \in Tasks : Await(t, k)
           \/ t = Owner /\ (OwnerProgress \/ Destroy \/ SpawnNone)
    PROVE  NoDuplicates' /\ AtMostOnePlace' /\ InSomePlace' /\ CalledOnce'
PROOF
  <1> USE SchedulerAssumption
      DEF ConservationInv, SchedulerTypeOK, QueueTypeOK, CallsWellFormed, Goto
  <1>1. CASE t \in Workers /\ (Scan(t) \/ (PopOwn(t) /\ ~Succeeded(t)))
    <2>1. /\ OnlyThread(t) /\ UNCHANGED <<m_taskQueue, issuer, running, runs, finished>>
          /\ ctl[t] = "scan" /\ ctl'[t] \in {"scan", "own"} /\ op'[t] # "none"
      BY <1>1 DEF Scan, PopOwn, CallPop, Call, OnlyThread, queueVars, Popping
    <2>2. ~Succeeded(t)
      BY <1>1 DEF Scan, Retrying, Succeeded
    <2>3. \A k \in Tasks : /\ Submitting(t, k)' <=> Submitting(t, k)
                           /\ InHand(t, k)' <=> InHand(t, k)
      BY <2>1, <2>2 DEF Submitting, InHand, Succeeded, Idle
    <2> QED
      BY <2>1, <2>3, ThreadKeepsPlaces
  <1>2. CASE t \in Workers /\ Quit(t)
    <2>1. /\ OnlyThread(t) /\ UNCHANGED <<m_taskQueue, issuer, running, runs, finished>>
          /\ ctl[t] = "own" /\ ctl'[t] = "exited" /\ ~ret[t]
      BY <1>2 DEF Quit, OnlyThread, qvars
    <2>2. \A k \in Tasks : /\ Submitting(t, k)' <=> Submitting(t, k)
                           /\ InHand(t, k)' <=> InHand(t, k)
      BY <2>1 DEF Submitting, InHand, Succeeded
    <2> QED
      BY <2>1, <2>2, ThreadKeepsPlaces
  <1>3. CASE t \in Workers \cup Clients /\ (TrySubmit(t) \/ ForcePush(t))
    <2>1. /\ OnlyThread(t) /\ UNCHANGED <<m_taskQueue, issuer, running, runs, finished>>
          /\ ctl[t] = "submit" /\ ctl'[t] \in {"submit", "force"} /\ op'[t] # "none"
          /\ task'[t] = task[t] /\ pc'[t] = "lock"
          /\ op[t] = "none" /\ pc[t] = "idle" /\ ~Succeeded(t)
      BY <1>3 DEF TrySubmit, ForcePush, Forcing, Retrying, CallPush, Call, Idle, OnlyThread,
                  queueVars, Succeeded, Pushing
    <2>2. \A k \in Tasks : /\ Submitting(t, k)' <=> Submitting(t, k)
                           /\ InHand(t, k)' <=> InHand(t, k)
      BY <2>1 DEF Submitting, InHand, Succeeded, Idle
    <2> QED
      BY <2>1, <2>2, ThreadKeepsPlaces
  <1>4. CASE t \in Workers \cup Clients /\ Scheduled(t)
    <2>1. /\ OnlyThread(t) /\ UNCHANGED <<m_taskQueue, issuer, running, runs, finished>>
          /\ ctl[t] \in {"submit", "force"} /\ ctl'[t] = "user" /\ Succeeded(t)
      BY <1>4 DEF Scheduled, OnlyThread, qvars
    <2>2. \A k \in Tasks : /\ Submitting(t, k)' <=> Submitting(t, k)
                           /\ InHand(t, k)' <=> InHand(t, k)
      BY <2>1 DEF Submitting, InHand, Succeeded
    <2> QED
      BY <2>1, <2>2, ThreadKeepsPlaces
  <1>5. CASE t \in Workers \cup Clients /\ (Resume(t) \/ \E k \in Tasks : Await(t, k))
    <2>1. /\ OnlyThread(t) /\ UNCHANGED <<m_taskQueue, issuer, running, runs, finished>>
          /\ ctl[t] \in {"user", "await"} /\ ctl'[t] \in {"user", "await"}
      BY <1>5 DEF Resume, Await, OnlyThread, qvars
    <2>2. \A k \in Tasks : /\ Submitting(t, k)' <=> Submitting(t, k)
                           /\ InHand(t, k)' <=> InHand(t, k)
      BY <2>1 DEF Submitting, InHand, Succeeded
    <2> QED
      BY <2>1, <2>2, ThreadKeepsPlaces
  <1>6. CASE t = Owner /\ (Close \/ AllClosed \/ Join \/ Destroy \/ SpawnNone)
    <2>1. /\ OnlyThread(t) /\ UNCHANGED <<m_taskQueue, issuer, running, runs, finished>>
          /\ ctl[t] \notin {"submit", "force", "scan", "own"}
          /\ ctl'[t] \notin {"submit", "force", "scan", "own"}
      BY <1>6 DEF Close, AllClosed, Join, Destroy, SpawnNone, CallClose, Call, OnlyThread,
                  qvars, queueVars
    <2>2. \A k \in Tasks : /\ Submitting(t, k)' <=> Submitting(t, k)
                           /\ InHand(t, k)' <=> InHand(t, k)
      BY <2>1 DEF Submitting, InHand, Succeeded
    <2> QED
      BY <2>1, <2>2, ThreadKeepsPlaces
  <1>7. CASE t = Owner /\ Spawn
    <2>1. UNCHANGED <<m_taskQueue, issuer, running, runs, finished>> /\ UNCHANGED <<op, pc, arg, ret, task>>
      BY <1>7 DEF Spawn, qvars
    <2>2. ASSUME NEW s \in Threads, NEW k \in Tasks
          PROVE  /\ Submitting(s, k)' <=> Submitting(s, k)
                 /\ InHand(s, k)' <=> InHand(s, k)
      <3>1. CASE s = offset[Owner] /\ offset[Owner] < m_threadCount
        <4>1. s \in Workers /\ s # Owner
          BY <1>7, <3>1 DEF Workers
        <4>2. ctl[s] = "unborn" /\ offset[s] = 0
          BY <1>7, <3>1, <4>1 DEF Spawn, ControlWellFormed
        <4>3. ctl'[s] = "scan" /\ offset'[s] = 0
          BY <1>7, <3>1, <4>1, <4>2 DEF Spawn
        <4> QED
          BY <2>1, <4>2, <4>3 DEF Submitting, InHand, Succeeded
      <3>2. CASE s = Owner /\ s # offset[Owner]
        BY <1>7, <2>1, <3>2 DEF Spawn, Submitting, InHand
      <3>3. CASE s # Owner /\ ~(s = offset[Owner] /\ offset[Owner] < m_threadCount)
        <4>1. ctl'[s] = ctl[s] /\ offset'[s] = offset[s]
          BY <1>7, <3>3 DEF Spawn
        <4> QED
          BY <2>1, <4>1 DEF Submitting, InHand, Succeeded, Idle
      <3>4. CASE s = Owner /\ ~(offset[Owner] < m_threadCount)
        BY <1>7, <2>1, <3>4 DEF Spawn, Submitting, InHand
      <3> QED
        BY <3>1, <3>2, <3>3, <3>4
    <2> QED
      BY <2>1, <2>2, KeptPlaces
  <1> QED
    BY <1>1, <1>2, <1>3, <1>4, <1>5, <1>6, <1>7 DEF OwnerProgress, Scan, Retrying, Succeeded

\* schedule takes the handler from its caller.
LEMMA ScheduleMoves ==
    ASSUME ConservationInv, NEW t \in Workers \cup Clients, NEW k \in Tasks, Schedule(t, k)
    PROVE  NoDuplicates' /\ AtMostOnePlace' /\ InSomePlace' /\ CalledOnce'
PROOF
  <1> USE SchedulerAssumption
  <1>1. /\ t \in Threads /\ t \in Places /\ k \in Tasks /\ "submitter" \in Kinds
        /\ OnlyThread(t) /\ UNCHANGED <<m_taskQueue, running, runs, finished>>
        /\ ctl[t] = "user" /\ ctl'[t] = "submit" /\ task'[t] = k /\ offset'[t] = 0
        /\ op'[t] = "none" /\ pc'[t] = "idle"
    BY DEF Schedule, ConservationInv, SchedulerTypeOK, QueueTypeOK, CallsWellFormed,
           ControlWellFormed, Idle, Goto, OnlyThread, qvars, Places, Kinds
  <1>2. /\ issuer[k] = None /\ issuer'[k] = Caller(t)
        /\ \A j \in Tasks \ {k} : issuer'[j] = issuer[j]
    BY DEF Schedule, ConservationInv, SchedulerTypeOK
  <1>3. Caller(t) # None
    BY <1>1, QueueAssumption
    DEF Caller, ConservationInv, SchedulerTypeOK, ControlWellFormed, Calling
  <1>4. \A d \in Kinds, y \in Places : ~Holds(d, y, k)
    BY <1>2 DEF ConservationInv, InSomePlace
  <1>5. ASSUME NEW j \in Tasks
        PROVE  /\ ~Submitting(t, j) /\ (Submitting(t, j)' <=> j = k)
               /\ ~InHand(t, j) /\ ~InHand(t, j)'
               /\ \A s \in Threads \ {t} : /\ Submitting(s, j)' <=> Submitting(s, j)
                                           /\ InHand(s, j)' <=> InHand(s, j)
    <2>1. /\ ~Submitting(t, j) /\ (Submitting(t, j)' <=> j = k)
          /\ ~InHand(t, j) /\ ~InHand(t, j)'
      BY <1>1 DEF Submitting, InHand, Succeeded
    <2> QED
      BY <1>1, <2>1, LocalFrame DEF OnlyThread
  <1>6. MovesTo(k, "submitter", t)
    <2> SUFFICES ASSUME NEW d \in Kinds, NEW y \in Places, NEW j \in Tasks
                 PROVE  Holds(d, y, j)' <=> IF j = k THEN d = "submitter" /\ y = t
                                            ELSE Holds(d, y, j)
      BY DEF MovesTo
    <2>1. CASE d = "submitter"
      BY <1>1, <1>4, <1>5, <2>1 DEF Holds
    <2>2. CASE d = "hand"
      BY <1>1, <1>4, <1>5, <2>2 DEF Holds
    <2>3. CASE d \in {"queue", "runner", "done"}
      BY <1>1, <1>4, <2>3 DEF Holds, Queued
    <2> QED
      BY <2>1, <2>2, <2>3 DEF Kinds
  <1>7. AtMostOnePlace' /\ InSomePlace'
    BY <1>1, <1>2, <1>3, <1>6, MovedPlaces
  <1> QED
    BY <1>1, <1>7 DEF ConservationInv, NoDuplicates, CalledOnce

\* A worker calls the handler that it took,
LEMMA RunMoves ==
    ASSUME ConservationInv, NEW w \in Workers, Run(w)
    PROVE  NoDuplicates' /\ AtMostOnePlace' /\ InSomePlace' /\ CalledOnce'
PROOF
  <1> USE SchedulerAssumption
  <1> DEFINE k == arg[w]
  <1>1. /\ w \in Threads /\ w \in Places /\ k \in Tasks
        /\ {"hand", "runner"} \subseteq Kinds
        /\ OnlyThread(w) /\ UNCHANGED <<m_taskQueue, issuer, finished>>
        /\ ctl[w] \in {"scan", "own"} /\ ctl'[w] = "user" /\ Succeeded(w)
        /\ running[w] \notin Tasks
    BY DEF Run, ConservationInv, SchedulerTypeOK, ControlWellFormed, Goto, OnlyThread, qvars,
           Places, Kinds, Calling
  <1>2. /\ running'[w] = k /\ \A v \in Workers \ {w} : running'[v] = running[v]
        /\ runs'[k] = runs[k] + 1 /\ \A j \in Tasks \ {k} : runs'[j] = runs[j]
    BY <1>1 DEF Run, ConservationInv, SchedulerTypeOK
  <1>3. Holds("hand", w, k)
    BY <1>1 DEF Holds, InHand
  <1>4. /\ issuer[k] # None
        /\ \A d \in Kinds, y \in Places : Holds(d, y, k) <=> d = "hand" /\ y = w
    BY <1>1, <1>3, OnlyThere
  <1>5. ASSUME NEW j \in Tasks
        PROVE  /\ ~Submitting(w, j) /\ ~Submitting(w, j)'
               /\ (InHand(w, j) <=> j = k) /\ ~InHand(w, j)'
               /\ \A s \in Threads \ {w} : /\ Submitting(s, j)' <=> Submitting(s, j)
                                           /\ InHand(s, j)' <=> InHand(s, j)
    <2>1. /\ ~Submitting(w, j) /\ ~Submitting(w, j)'
          /\ (InHand(w, j) <=> j = k) /\ ~InHand(w, j)'
      BY <1>1 DEF Submitting, InHand
    <2> QED
      BY <1>1, <2>1, LocalFrame DEF OnlyThread
  <1> HIDE DEF k
  <1>6. MovesTo(k, "runner", w)
    <2> SUFFICES ASSUME NEW d \in Kinds, NEW y \in Places, NEW j \in Tasks
                 PROVE  Holds(d, y, j)' <=> IF j = k THEN d = "runner" /\ y = w
                                            ELSE Holds(d, y, j)
      BY DEF MovesTo
    <2>1. CASE d = "submitter"
      BY <1>1, <1>4, <1>5, <2>1 DEF Holds
    <2>2. CASE d = "hand"
      BY <1>1, <1>4, <1>5, <2>2 DEF Holds
    <2>3. CASE d = "runner"
      BY <1>1, <1>2, <1>4, <2>3 DEF Holds
    <2>4. CASE d \in {"queue", "done"}
      BY <1>1, <1>4, <2>4 DEF Holds, Queued
    <2> QED
      BY <2>1, <2>2, <2>3, <2>4 DEF Kinds
  <1>7. AtMostOnePlace' /\ InSomePlace'
    BY <1>1, <1>4, <1>6, MovedPlaces
  <1>8. CalledOnce'
    <2>1. k \notin finished /\ \A v \in Workers : running[v] # k
      <3>1. None \in Places /\ Workers \subseteq Places /\ "done" \in Kinds
        BY DEF Places, Kinds
      <3> QED
        BY <1>1, <1>4, <3>1 DEF Holds
    <2>2. runs[k] = 0
      BY <1>1, <2>1 DEF ConservationInv, CalledOnce
    <2>3. ASSUME NEW j \in Tasks \ {k}
          PROVE  (\E v \in Workers : running'[v] = j) <=> \E v \in Workers : running[v] = j
      BY <1>1, <1>2
    <2> QED
      BY <1>1, <1>2, <2>2, <2>3 DEF ConservationInv, CalledOnce
  <1> QED
    BY <1>1, <1>7, <1>8 DEF ConservationInv, NoDuplicates

\* and is done with it when it returns.
LEMMA FinishMoves ==
    ASSUME ConservationInv, NEW w \in Workers, Finish(w)
    PROVE  NoDuplicates' /\ AtMostOnePlace' /\ InSomePlace' /\ CalledOnce'
PROOF
  <1> USE SchedulerAssumption
  <1> DEFINE k == running[w]
  <1>1. /\ w \in Threads /\ w \in Places /\ None \in Places /\ k \in Tasks
        /\ {"runner", "done"} \subseteq Kinds /\ None \notin Tasks
        /\ OnlyThread(w) /\ UNCHANGED <<m_taskQueue, issuer, runs>>
        /\ ctl[w] = "user" /\ ctl'[w] = "scan" /\ offset'[w] = 0
    BY QueueAssumption
    DEF Finish, ConservationInv, SchedulerTypeOK, ControlWellFormed, Goto, OnlyThread, qvars,
        Places, Kinds, Calling
  <1>2. /\ running'[w] = None /\ \A v \in Workers \ {w} : running'[v] = running[v]
        /\ finished' = finished \cup {k}
    BY <1>1 DEF Finish, ConservationInv, SchedulerTypeOK
  <1>3. Holds("runner", w, k)
    BY <1>1 DEF Holds
  <1>4. /\ issuer[k] # None
        /\ \A d \in Kinds, y \in Places : Holds(d, y, k) <=> d = "runner" /\ y = w
    BY <1>1, <1>3, OnlyThere
  <1>5. ASSUME NEW j \in Tasks
        PROVE  /\ ~Submitting(w, j) /\ ~Submitting(w, j)'
               /\ ~InHand(w, j) /\ ~InHand(w, j)'
               /\ \A s \in Threads \ {w} : /\ Submitting(s, j)' <=> Submitting(s, j)
                                           /\ InHand(s, j)' <=> InHand(s, j)
    <2>1. /\ ~Submitting(w, j) /\ ~Submitting(w, j)'
          /\ ~InHand(w, j) /\ ~InHand(w, j)'
      BY <1>1 DEF Submitting, InHand, Succeeded
    <2> QED
      BY <1>1, <2>1, LocalFrame DEF OnlyThread
  <1>6. \A j \in Tasks : running[w] = j <=> j = k
    OBVIOUS
  <1> HIDE DEF k
  <1>7. MovesTo(k, "done", None)
    <2> SUFFICES ASSUME NEW d \in Kinds, NEW y \in Places, NEW j \in Tasks
                 PROVE  Holds(d, y, j)' <=> IF j = k THEN d = "done" /\ y = None
                                            ELSE Holds(d, y, j)
      BY DEF MovesTo
    <2>1. CASE d = "submitter"
      BY <1>1, <1>4, <1>5, <2>1 DEF Holds
    <2>2. CASE d = "hand"
      BY <1>1, <1>4, <1>5, <2>2 DEF Holds
    <2>3. CASE d = "runner"
      BY <1>1, <1>2, <1>4, <1>6, <2>3 DEF Holds
    <2>4. CASE d = "done"
      BY <1>1, <1>2, <1>4, <2>4 DEF Holds
    <2>5. CASE d = "queue"
      BY <1>1, <1>4, <2>5 DEF Holds, Queued
    <2> QED
      BY <2>1, <2>2, <2>3, <2>4, <2>5 DEF Kinds
  <1>8. AtMostOnePlace' /\ InSomePlace'
    BY <1>1, <1>4, <1>7, MovedPlaces
  <1>9. CalledOnce'
    <2>1. runs[k] = 1
      BY <1>1, <1>6 DEF ConservationInv, CalledOnce
    <2>2. ASSUME NEW j \in Tasks \ {k}
          PROVE  (\E v \in Workers : running'[v] = j) <=> \E v \in Workers : running[v] = j
      BY <1>1, <1>2, <1>6
    <2> QED
      BY <1>1, <1>2, <2>1, <2>2 DEF ConservationInv, CalledOnce
  <1> QED
    BY <1>1, <1>8, <1>9 DEF ConservationInv, NoDuplicates
\* An empty handler that was stolen is dropped.
LEMMA EmptyDropped ==
    ASSUME ConservationInv, NEW w \in Workers, PopOwn(w), Succeeded(w)
    PROVE  NoDuplicates' /\ AtMostOnePlace' /\ InSomePlace' /\ CalledOnce'
PROOF
  <1> USE SchedulerAssumption
  <1> DEFINE k == arg[w]
  <1>1. /\ w \in Threads /\ w \in Places /\ k \in EmptyTasks /\ k \in Tasks /\ "hand" \in Kinds
        /\ OnlyThread(w) /\ UNCHANGED <<m_taskQueue, issuer, running, runs, finished>>
        /\ ctl[w] = "scan" /\ ctl'[w] = "own" /\ op'[w] # "none"
    BY DEF PopOwn, CallPop, Call, Popping, ConservationInv, SchedulerTypeOK, QueueTypeOK, Goto,
           OnlyThread, queueVars, Places, Kinds, Retrying, Succeeded
  <1>2. Holds("hand", w, k)
    BY <1>1 DEF Holds, InHand
  <1>3. \A d \in Kinds, y \in Places : Holds(d, y, k) <=> d = "hand" /\ y = w
    BY <1>1, <1>2, OnlyThere
  <1>4. ASSUME NEW j \in Tasks
        PROVE  /\ ~Submitting(w, j) /\ ~Submitting(w, j)'
               /\ (InHand(w, j) <=> j = k) /\ ~InHand(w, j)'
               /\ \A s \in Threads \ {w} : /\ Submitting(s, j)' <=> Submitting(s, j)
                                           /\ InHand(s, j)' <=> InHand(s, j)
    <2>1. /\ ~Submitting(w, j) /\ ~Submitting(w, j)'
          /\ (InHand(w, j) <=> j = k) /\ ~InHand(w, j)'
      BY <1>1 DEF Submitting, InHand, Succeeded, Idle
    <2> QED
      BY <1>1, <2>1, LocalFrame DEF OnlyThread
  <1> HIDE DEF k
  <1>5. ASSUME NEW d \in Kinds, NEW y \in Places, NEW j \in Tasks
        PROVE  Holds(d, y, j)' <=> j # k /\ Holds(d, y, j)
    <2>1. CASE d = "submitter"
      BY <1>1, <1>3, <1>4, <2>1 DEF Holds
    <2>2. CASE d = "hand"
      BY <1>1, <1>3, <1>4, <2>2 DEF Holds
    <2>3. CASE d \in {"queue", "runner", "done"}
      BY <1>1, <1>3, <2>3 DEF Holds, Queued
    <2> QED
      BY <2>1, <2>2, <2>3 DEF Kinds
  <1>6. AtMostOnePlace' /\ InSomePlace'
    BY <1>1, <1>5, DroppedPlaces
  <1> QED
    BY <1>1, <1>6 DEF ConservationInv, NoDuplicates, CalledOnce

\* A step of the scheduler that leaves all it knows of handlers alone.
LEMMA NothingMoves ==
    ASSUME ConservationInv, UNCHANGED qvars,
           UNCHANGED <<ctl, offset, task, running, issuer, runs, finished>>
    PROVE  ConservationInv' <=> SchedulerTypeOK'
PROOF
  <1>1. UNCHANGED <<m_taskQueue, op, pc, arg, ret>>
    BY DEF qvars
  <1>2. \A s \in Threads, k \in Tasks :
            /\ Submitting(s, k)' <=> Submitting(s, k)
            /\ InHand(s, k)' <=> InHand(s, k)
    BY <1>1, LocalFrame
  <1>3. NoDuplicates' /\ AtMostOnePlace' /\ InSomePlace' /\ CalledOnce'
    BY <1>1, <1>2, KeptPlaces
  <1> QED
    BY <1>1, <1>3 DEF ConservationInv, CallsFit, Idle

\* A thread that is in no operation fits.
LEMMA IdleFits ==
    ASSUME CallsFit, NEW t \in Threads, OnlyThread(t), op'[t] = "none"
    PROVE  CallsFit'
PROOF
  BY DEF CallsFit, OnlyThread, Idle

\* Calls stay what they are while a queue executes them, and are made as
\* CallsFit says.
LEMMA CallsStayFit ==
    ASSUME ConservationInv, SchedulerNext
    PROVE  CallsFit'
PROOF
  <1> USE SchedulerAssumption
      DEF ConservationInv, SchedulerTypeOK, QueueTypeOK, CallsWellFormed, Goto
  <1>1. ASSUME NEW t \in Threads, QueueStep(t), UNCHANGED svars
        PROVE  CallsFit'
    <2>1. /\ \A s \in Threads \ {t} : op'[s] = op[s] /\ arg'[s] = arg[s]
          /\ op'[t] = op[t] \/ op'[t] = "none"
      BY <1>1, QueueStepFrame
    <2>2. op'[t] # "none" => arg'[t] = arg[t]
      BY <1>1
      DEF QueueStep, QueueProgress, Lock, TryLockFails, Enqueue, NotifyOne, SetClosed, NotifyAll,
          Dequeue, ReturnEmpty, Wait, SpuriousWakeup, Return
    <2>3. ASSUME NEW s \in Threads, ~Idle(s)'
          PROVE  ~Idle(s) /\ arg'[s] = arg[s]
      BY <1>1, <2>1, <2>2, <2>3, QueueStepFrame DEF Idle
    <2> QED
      BY <1>1, <2>3 DEF CallsFit, svars
  <1>2. ASSUME NEW t \in Workers, WorkerProgress(t)
        PROVE  CallsFit'
    <2>0. t \in Threads /\ m_threadCount > 0
      BY DEF Workers
    <2>1. CASE Scan(t) \/ PopOwn(t)
      <3>1. OnlyThread(t)
        BY <2>0, <2>1 DEF Scan, PopOwn, CallPop, Call, OnlyThread
      <3>2. ctl'[t] \in {"scan", "own"} /\ offset'[t] > 0
        BY <2>0, <2>1 DEF Scan, PopOwn
      <3> QED
        BY <3>1, <3>2 DEF CallsFit, OnlyThread, Idle
    <2>2. CASE Run(t) \/ Finish(t) \/ Quit(t)
      <3>1. OnlyThread(t) /\ op'[t] = op[t]
        BY <2>0, <2>2 DEF Run, Finish, Quit, OnlyThread, qvars
      <3>2. Idle(t)
        BY <2>0, <2>2 DEF Run, Finish, Quit, Succeeded, Idle, ControlWellFormed
      <3> QED
        BY <2>0, <3>1, <3>2, IdleFits DEF Idle
    <2>3. CASE RunEmpty(t) \/ Throw(t)
      <3>1. Abort
        BY <2>3 DEF RunEmpty, Throw
      <3> QED
        BY <3>1 DEF Abort, CallsFit, Idle, qvars
    <2> QED
      BY <1>2, <2>1, <2>2, <2>3 DEF WorkerProgress
  <1>3. ASSUME NEW t \in Workers \cup Clients, CallerProgress(t)
        PROVE  CallsFit'
    <2>0. t \in Threads
      OBVIOUS
    <2>1. CASE TrySubmit(t) \/ ForcePush(t)
      <3>1. OnlyThread(t)
        BY <2>0, <2>1 DEF TrySubmit, ForcePush, CallPush, Call, OnlyThread
      <3>2. offset'[t] > 0 /\ arg'[t] = task'[t]
        BY <2>0, <2>1 DEF TrySubmit, ForcePush, CallPush, Call
      <3> QED
        BY <3>1, <3>2 DEF CallsFit, OnlyThread, Idle
    <2>2. CASE Scheduled(t) \/ Resume(t)
      <3>1. OnlyThread(t) /\ op'[t] = op[t]
        BY <2>0, <2>2 DEF Scheduled, Resume, OnlyThread, qvars
      <3>2. Idle(t)
        BY <2>0, <2>2 DEF Scheduled, Resume, Succeeded, Idle, ControlWellFormed
      <3> QED
        BY <2>0, <3>1, <3>2, IdleFits DEF Idle
    <2>3. CASE ForceOutOfRange(t)
      BY <2>3 DEF ForceOutOfRange, Abort, CallsFit, Idle, qvars
    <2> QED
      BY <1>3, <2>1, <2>2, <2>3 DEF CallerProgress
  <1>4. ASSUME NEW t \in Workers \cup Clients, NEW k \in Tasks, Schedule(t, k) \/ Await(t, k)
        PROVE  CallsFit'
    <2>1. OnlyThread(t) /\ UNCHANGED qvars
      BY <1>4 DEF Schedule, Await, OnlyThread, qvars
    <2>2. ctl[t] = "user" /\ t \in Threads
      BY <1>4 DEF Schedule, Await
    <2>3. Idle(t)
      BY <2>2 DEF ControlWellFormed
    <2>4. op'[t] = "none"
      BY <2>1, <2>3 DEF Idle, qvars
    <2> QED
      BY <2>1, <2>2, <2>4, IdleFits
  <1>5. ASSUME OwnerProgress \/ Destroy \/ SpawnNone \/ SpawnSome
        PROVE  CallsFit'
    <2>1. CASE Spawn
      <3>1. UNCHANGED qvars /\ UNCHANGED task
        BY <2>1 DEF Spawn
      <3>2. ASSUME NEW s \in Threads, ~Idle(s)'
            PROVE  s # Owner /\ ctl'[s] = ctl[s] /\ offset'[s] = offset[s]
        <4>1. ~Idle(s)
          BY <3>1, <3>2 DEF qvars, Idle
        <4>2. s # Owner
          BY <2>1, <4>1 DEF Spawn, ControlWellFormed
        <4>3. ~(s = offset[Owner] /\ offset[Owner] < m_threadCount)
          <5>1. ASSUME s = offset[Owner], offset[Owner] < m_threadCount PROVE ctl[s] = "unborn"
            <6>1. s \in Workers /\ ctl[Owner] = "spawn" /\ s >= offset[Owner]
              BY <2>1, <5>1 DEF Spawn, Workers
            <6> QED
              BY <6>1 DEF ControlWellFormed
          <5>2. ctl[s] # "unborn"
            BY <4>1 DEF ControlWellFormed
          <5> QED
            BY <5>1, <5>2
        <4> QED
          BY <2>1, <4>2, <4>3 DEF Spawn
      <3> QED
        BY <3>1, <3>2 DEF CallsFit, Idle, qvars
    <2>2. CASE Close \/ AllClosed \/ Join \/ Destroy \/ SpawnNone
      <3>1. OnlyThread(Owner) /\ ctl'[Owner] \notin {"scan", "own", "submit", "force"}
        BY <2>2
        DEF Close, AllClosed, Join, Destroy, SpawnNone, CallClose, Call, OnlyThread, qvars, queueVars
      <3> QED
        BY <3>1 DEF CallsFit, OnlyThread, Idle
    <2>3. CASE SpawnSome
      BY <2>3 DEF SpawnSome, Abort, CallsFit, Idle, qvars
    <2> QED
      BY <1>5, <2>1, <2>2, <2>3 DEF OwnerProgress
  <1>6. CASE Ended
    BY <1>6 DEF Ended, vars, CallsFit, Idle
  <1> QED
    BY <1>1, <1>2, <1>3, <1>4, <1>5, <1>6 DEF SchedulerNext, Progress, Choice, QueueStep

\* Every step of the scheduler preserves the invariant.
LEMMA ConservationStep ==
    ASSUME ConservationInv, SchedulerNext
    PROVE  ConservationInv'
PROOF
  <1>0. SchedulerTypeOK' /\ CallsFit'
    BY SchedulerStep, CallsStayFit DEF ConservationInv
  <1> DEFINE Placed == NoDuplicates /\ AtMostOnePlace /\ InSomePlace /\ CalledOnce
  <1>1. CASE Ended
    BY <1>0, <1>1, NothingMoves DEF Ended, vars, qvars, ConservationInv
  <1>2. ASSUME NEW t \in Threads, QueueStep(t), UNCHANGED svars
        PROVE  Placed'
    BY <1>2, QueueKeepsPlaces, EnqueueMoves, DequeueMoves
  <1>3. ASSUME Abort
        PROVE  Placed'
    BY <1>0, <1>3, NothingMoves DEF Abort, ConservationInv
  <1>4. ASSUME NEW t \in Workers, WorkerProgress(t)
        PROVE  Placed'
    <2>1. t \in Threads
      BY SchedulerAssumption
    <2> QED
      BY <1>3, <1>4, <2>1, StayingSteps, EmptyDropped, RunMoves, FinishMoves
      DEF WorkerProgress, RunEmpty, Throw
  <1>5. ASSUME NEW t \in Workers \cup Clients, CallerProgress(t)
        PROVE  Placed'
    <2>1. t \in Threads
      BY SchedulerAssumption
    <2> QED
      BY <1>3, <1>5, <2>1, StayingSteps DEF CallerProgress, ForceOutOfRange
  <1>6. ASSUME NEW t \in Workers \cup Clients, NEW k \in Tasks, Schedule(t, k) \/ Await(t, k)
        PROVE  Placed'
    <2>1. t \in Threads
      BY SchedulerAssumption
    <2> QED
      BY <1>6, <2>1, StayingSteps, ScheduleMoves
  <1>7. ASSUME OwnerProgress \/ Destroy \/ SpawnNone \/ SpawnSome
        PROVE  Placed'
    <2>1. Owner \in Threads
      BY SchedulerAssumption
    <2> QED
      BY <1>3, <1>7, <2>1, StayingSteps DEF SpawnSome
  <1> QED
    BY <1>0, <1>1, <1>2, <1>3, <1>4, <1>5, <1>6, <1>7
    DEF SchedulerNext, Progress, Choice, QueueStep, ConservationInv

\* It holds at first: no task is scheduled.
LEMMA ConservationStart == SchedulerInit => ConservationInv
PROOF
  <1> SUFFICES ASSUME SchedulerInit PROVE ConservationInv
    OBVIOUS
  <1>1. SchedulerTypeOK /\ \A t \in Threads : op[t] = "none" /\ ctl[t] \in {"unborn", "spawn", "user"}
    BY SchedulerStart, SchedulerAssumption DEF SchedulerInit, QueueInit
  <1>2. None \notin Tasks
    BY QueueAssumption
  <1>3. \A q \in Queues : DOMAIN m_taskQueue[q] = {}
    BY DEF SchedulerInit, QueueInit
  <1>4. \A k \in Tasks, c \in Kinds, x \in Places : ~Holds(c, x, k)
    BY <1>1, <1>2, <1>3, SchedulerAssumption
    DEF Holds, Submitting, InHand, Queued, SchedulerInit
  <1> QED
    BY <1>1, <1>2, <1>3, <1>4
    DEF ConservationInv, CallsFit, Idle, AtMostOnePlace, NoDuplicates, Distinct, InSomePlace,
        CalledOnce, SchedulerInit
-----------------------------------------------------------------------------
(***************************************************************************)
(* What Conservation counts.                                               *)
(***************************************************************************)

\* A set with a member, and with no other, has one; a set with none has none.
LEMMA OneMember ==
    ASSUME NEW S, NEW x, x \in S, \A y \in S : y = x
    PROVE  Cardinality(S) = 1
PROOF
  <1>1. S = {x}
    OBVIOUS
  <1> QED
    BY <1>1, FS_Singleton

\* A set without elements has cardinality 0.
LEMMA NoMember ==
    ASSUME NEW S, \A y \in S : FALSE
    PROVE  Cardinality(S) = 0
PROOF
  <1>1. S = {}
    OBVIOUS
  <1> QED
    BY <1>1, FS_EmptySet

\* The number of places of each kind is that of its members in Places.
LEMMA CountByKind ==
    ASSUME ConservationInv, NEW k \in Tasks, NEW C \in SUBSET Kinds,
           \A c \in C : \E x \in Places : Holds(c, x, k),
           \A c \in Kinds \ C : \A x \in Places : ~Holds(c, x, k)
    PROVE  /\ Cardinality({t \in Threads : Submitting(t, k)}) = IF "submitter" \in C THEN 1 ELSE 0
           /\ Cardinality(Positions(k)) = IF "queue" \in C THEN 1 ELSE 0
           /\ Cardinality({w \in Workers : InHand(w, k)}) = IF "hand" \in C THEN 1 ELSE 0
           /\ Cardinality({w \in Workers : running[w] = k}) = IF "runner" \in C THEN 1 ELSE 0
           /\ Cardinality(finished \cap {k}) = IF "done" \in C THEN 1 ELSE 0
PROOF
  <1>0. /\ Workers \subseteq Places /\ Queues \subseteq Places /\ Threads \subseteq Places
        /\ None \in Places
        /\ Kinds = {"submitter", "queue", "hand", "runner", "done"}
    BY SchedulerAssumption DEF Places, Kinds
  <1>1. \A c \in Kinds : \A x, y \in Places : Holds(c, x, k) /\ Holds(c, y, k) => x = y
    BY DEF ConservationInv, AtMostOnePlace
  <1>2. Cardinality({t \in Threads : Submitting(t, k)}) = IF "submitter" \in C THEN 1 ELSE 0
    <2> DEFINE S == {t \in Threads : Submitting(t, k)}
    <2>1. \A x \in Places : x \in S <=> Holds("submitter", x, k)
      BY DEF Holds
    <2>2. S \subseteq Places
      BY <1>0
    <2> HIDE DEF S
    <2>3. CASE "submitter" \in C
      <3>1. PICK x \in Places : Holds("submitter", x, k)
        BY <2>3
      <3>2. x \in S /\ \A y \in S : y = x
        BY <1>0, <1>1, <2>1, <2>2, <3>1
      <3>3. Cardinality(S) = 1
        BY <3>2, OneMember
      <3> QED
        BY <2>3, <3>3 DEF S
    <2>4. CASE "submitter" \notin C
      <3>1. \A y \in S : FALSE
        BY <1>0, <2>1, <2>2, <2>4
      <3>2. Cardinality(S) = 0
        BY <3>1, NoMember
      <3> QED
        BY <2>4, <3>2 DEF S
    <2> QED
      BY <2>3, <2>4
  <1>3. Cardinality(Positions(k)) = IF "queue" \in C THEN 1 ELSE 0
    <2>1. ASSUME NEW p \in Positions(k)
          PROVE  \E q \in Queues : \E i \in DOMAIN m_taskQueue[q] :
                    p = <<q, i>> /\ m_taskQueue[q][i] = k /\ Holds("queue", q, k)
      BY DEF Positions, Holds, Queued
    <2>2. CASE "queue" \in C
      <3>1. PICK q \in Places : Holds("queue", q, k)
        BY <2>2
      <3>2. PICK i \in DOMAIN m_taskQueue[q] : m_taskQueue[q][i] = k
        BY <3>1 DEF Holds, Queued
      <3>3. q \in Queues
        BY <3>1 DEF Holds
      <3>4. <<q, i>> \in Positions(k)
        BY <3>2, <3>3 DEF Positions
      <3>5. ASSUME NEW p \in Positions(k)
            PROVE  p = <<q, i>>
        <4>1. PICK r \in Queues : \E j \in DOMAIN m_taskQueue[r] :
                  p = <<r, j>> /\ m_taskQueue[r][j] = k /\ Holds("queue", r, k)
          BY <2>1
        <4>2. r = q
          BY <1>0, <1>1, <3>1, <4>1
        <4>3. Distinct(m_taskQueue[q])
          BY <3>3 DEF ConservationInv, NoDuplicates
        <4> QED
          BY <3>2, <4>1, <4>2, <4>3 DEF Distinct
      <3>6. Cardinality(Positions(k)) = 1
        BY <3>4, <3>5, OneMember
      <3> QED
        BY <2>2, <3>6
    <2>3. CASE "queue" \notin C
      <3>1. \A p \in Positions(k) : FALSE
        BY <1>0, <2>1, <2>3
      <3>2. Cardinality(Positions(k)) = 0
        BY <3>1, NoMember
      <3> QED
        BY <2>3, <3>2
    <2> QED
      BY <2>2, <2>3
  <1>4. Cardinality({w \in Workers : InHand(w, k)}) = IF "hand" \in C THEN 1 ELSE 0
    <2> DEFINE S == {w \in Workers : InHand(w, k)}
    <2>1. \A x \in Places : x \in S <=> Holds("hand", x, k)
      BY DEF Holds
    <2>2. S \subseteq Places
      BY <1>0
    <2> HIDE DEF S
    <2>3. CASE "hand" \in C
      <3>1. PICK x \in Places : Holds("hand", x, k)
        BY <2>3
      <3>2. x \in S /\ \A y \in S : y = x
        BY <1>0, <1>1, <2>1, <2>2, <3>1
      <3>3. Cardinality(S) = 1
        BY <3>2, OneMember
      <3> QED
        BY <2>3, <3>3 DEF S
    <2>4. CASE "hand" \notin C
      <3>1. \A y \in S : FALSE
        BY <1>0, <2>1, <2>2, <2>4
      <3>2. Cardinality(S) = 0
        BY <3>1, NoMember
      <3> QED
        BY <2>4, <3>2 DEF S
    <2> QED
      BY <2>3, <2>4
  <1>5. Cardinality({w \in Workers : running[w] = k}) = IF "runner" \in C THEN 1 ELSE 0
    <2> DEFINE S == {w \in Workers : running[w] = k}
    <2>1. \A x \in Places : x \in S <=> Holds("runner", x, k)
      BY DEF Holds
    <2>2. S \subseteq Places
      BY <1>0
    <2> HIDE DEF S
    <2>3. CASE "runner" \in C
      <3>1. PICK x \in Places : Holds("runner", x, k)
        BY <2>3
      <3>2. x \in S /\ \A y \in S : y = x
        BY <1>0, <1>1, <2>1, <2>2, <3>1
      <3>3. Cardinality(S) = 1
        BY <3>2, OneMember
      <3> QED
        BY <2>3, <3>3 DEF S
    <2>4. CASE "runner" \notin C
      <3>1. \A y \in S : FALSE
        BY <1>0, <2>1, <2>2, <2>4
      <3>2. Cardinality(S) = 0
        BY <3>1, NoMember
      <3> QED
        BY <2>4, <3>2 DEF S
    <2> QED
      BY <2>3, <2>4
  <1>6. Cardinality(finished \cap {k}) = IF "done" \in C THEN 1 ELSE 0
    <2>1. CASE "done" \in C
      <3>1. k \in finished
        BY <2>1 DEF Holds
      <3>2. Cardinality(finished \cap {k}) = 1
        BY <3>1, OneMember
      <3> QED
        BY <2>1, <3>2
    <2>2. CASE "done" \notin C
      <3>1. k \notin finished
        BY <1>0, <2>2 DEF Holds
      <3>2. Cardinality(finished \cap {k}) = 0
        BY <3>1, NoMember
      <3> QED
        BY <2>2, <3>2
    <2> QED
      BY <2>1, <2>2
  <1> QED
    BY <1>2, <1>3, <1>4, <1>5, <1>6

\* The invariant implies that the copies, which Conservation counts place by
\* place, are one for a scheduled handler, and that its calls are too.
LEMMA InvConserves == ConservationInv => Conservation
PROOF
  <1> SUFFICES ASSUME ConservationInv, NEW k \in Tasks \ EmptyTasks
               PROVE  /\ Copies(k) = IF issuer[k] = None THEN 0 ELSE 1
                      /\ runs[k] = Cardinality({w \in Workers : running[w] = k})
                                   + Cardinality(finished \cap {k})
    BY DEF Conservation
  <1>0. /\ k \in Tasks /\ Workers \subseteq Places /\ None \in Places
        /\ Kinds = {"submitter", "queue", "hand", "runner", "done"}
    BY SchedulerAssumption DEF Places, Kinds
  <1> DEFINE C == {c \in Kinds : \E x \in Places : Holds(c, x, k)}
  <1>1. /\ C \in SUBSET Kinds
        /\ \A c \in C : \E x \in Places : Holds(c, x, k)
        /\ \A c \in Kinds \ C : \A x \in Places : ~Holds(c, x, k)
    OBVIOUS
  <1>2. \A c, d \in C : c = d
    BY DEF ConservationInv, AtMostOnePlace
  <1>3. C = {} <=> issuer[k] = None
    BY DEF ConservationInv, InSomePlace
  <1>4. runs[k] = IF "runner" \in C \/ "done" \in C THEN 1 ELSE 0
    <2>1. "runner" \in C <=> \E w \in Workers : running[w] = k
      BY <1>0 DEF Holds
    <2>2. "done" \in C <=> k \in finished
      BY <1>0 DEF Holds
    <2> QED
      BY <2>1, <2>2 DEF ConservationInv, CalledOnce
  <1> HIDE DEF C
  <1>5. /\ Cardinality({t \in Threads : Submitting(t, k)}) = IF "submitter" \in C THEN 1 ELSE 0
        /\ Cardinality(Positions(k)) = IF "queue" \in C THEN 1 ELSE 0
        /\ Cardinality({w \in Workers : InHand(w, k)}) = IF "hand" \in C THEN 1 ELSE 0
        /\ Cardinality({w \in Workers : running[w] = k}) = IF "runner" \in C THEN 1 ELSE 0
        /\ Cardinality(finished \cap {k}) = IF "done" \in C THEN 1 ELSE 0
    BY <1>0, <1>1, CountByKind
  <1> DEFINE n1 == Cardinality({t \in Threads : Submitting(t, k)})
  <1> DEFINE n2 == Cardinality(Positions(k))
  <1> DEFINE n3 == Cardinality({w \in Workers : InHand(w, k)})
  <1> DEFINE n4 == Cardinality({w \in Workers : running[w] = k})
  <1> DEFINE n5 == Cardinality(finished \cap {k})
  <1>6. Copies(k) = n1 + n2 + n3 + n4 + n5
    BY DEF Copies
  <1> HIDE DEF n1, n2, n3, n4, n5
  <1>7. /\ n1 = IF "submitter" \in C THEN 1 ELSE 0
        /\ n2 = IF "queue" \in C THEN 1 ELSE 0
        /\ n3 = IF "hand" \in C THEN 1 ELSE 0
        /\ n4 = IF "runner" \in C THEN 1 ELSE 0
        /\ n5 = IF "done" \in C THEN 1 ELSE 0
    BY <1>5 DEF n1, n2, n3, n4, n5
  <1>8. n1 + n2 + n3 + n4 + n5 = IF issuer[k] = None THEN 0 ELSE 1
    <2>1. CASE C = {}
      BY <1>3, <1>7, <2>1
    <2>2. CASE C # {}
      <3>1. PICK c \in Kinds : C = {c}
        BY <1>1, <1>2, <2>2
      <3>2. \/ C = {"submitter"}
            \/ C = {"queue"}
            \/ C = {"hand"}
            \/ C = {"runner"}
            \/ C = {"done"}
        BY <1>0, <3>1
      <3> QED
        BY <1>3, <1>7, <2>2, <3>2
    <2> QED
      BY <2>1, <2>2
  <1>9. runs[k] = n4 + n5
    BY <1>2, <1>4, <1>7
  <1> QED
    BY <1>6, <1>8, <1>9 DEF n4, n5

\* ConservationInv holds at all times, for any number of threads, clients and
\* tasks, with empty handlers and handlers that throw.
THEOREM PlacesKept == SchedulerSpec => []ConservationInv
PROOF
  <1>1. ConservationInv /\ UNCHANGED vars => ConservationInv'
    <2> SUFFICES ASSUME ConservationInv, UNCHANGED vars PROVE ConservationInv'
      OBVIOUS
    <2>1. SchedulerTypeOK'
      BY QueueTypeKept
      DEF ConservationInv, vars, qvars, SchedulerTypeOK, ControlWellFormed, Succeeded, Idle
    <2> QED
      BY <2>1, NothingMoves DEF vars, qvars
  <1>2. ConservationInv /\ [SchedulerNext]_vars => ConservationInv'
    BY <1>1, ConservationStep
  <1> QED
    BY <1>2, ConservationStart, PTL DEF SchedulerSpec

\* No handler is lost or duplicated between schedule and its return, and none
\* is called twice, whatever pushes, steals and failed try-locks happen on its
\* way through TaskScheduler.
THEOREM HandlersConserved == SchedulerSpec => []Conservation
PROOF
  BY PlacesKept, InvConserves, PTL
=============================================================================
