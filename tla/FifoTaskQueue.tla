--------------------------- MODULE FifoTaskQueue ---------------------------
(***************************************************************************)
(* What TaskQueue promises its callers, with no mutex and no condition     *)
(* variable: a set of first-in first-out queues whose operations take      *)
(* effect atomically, once, between their call and their return.  tryPush  *)
(* and tryPop may also fail without any effect (another call held the      *)
(* mutex).  Taking a handler or failing to is the last thing a call does,  *)
(* so only push, tryPush and close have effects that precede their return; *)
(* effected tells those apart.                                             *)
(***************************************************************************)
EXTENDS Naturals, Sequences

CONSTANTS Queues, Threads, Tasks, None

VARIABLES
    items,     \* queue -> the handlers in it, oldest first
    closed,    \* queue -> whether close has taken effect
    op,        \* thread -> the operation it is executing, or "none"
    at,        \* thread -> the queue it is executing it on
    effected,  \* thread -> its call has taken effect and is yet to return
    arg,       \* thread -> the handler it pushes, or the one it was given
    ret        \* thread -> the result of its last call

vars == <<items, closed, op, at, effected, arg, ret>>

Pushing == {"push", "tryPush"}
Popping == {"pop", "tryPop"}
Operations == Pushing \cup Popping \cup {"close"}

Init ==
    /\ items = [q \in Queues |-> << >>]
    /\ closed = [q \in Queues |-> FALSE]
    /\ op = [t \in Threads |-> "none"]
    /\ at = [t \in Threads |-> None]
    /\ effected = [t \in Threads |-> FALSE]
    /\ arg = [t \in Threads |-> None]
    /\ ret = [t \in Threads |-> FALSE]

Begin(t, o, q, k) ==
    /\ op[t] = "none"
    /\ k \in IF o \in Pushing THEN Tasks ELSE {None}
    /\ op' = [op EXCEPT ![t] = o]
    /\ at' = [at EXCEPT ![t] = q]
    /\ arg' = [arg EXCEPT ![t] = k]
    /\ ret' = [ret EXCEPT ![t] = FALSE]
    /\ UNCHANGED <<items, closed, effected>>

Pending(t) == op[t] # "none" /\ ~effected[t]

\* The call returns b, and k is the handler its caller is left with.
End(t, b, k) ==
    /\ op' = [op EXCEPT ![t] = "none"]
    /\ at' = [at EXCEPT ![t] = None]
    /\ effected' = [effected EXCEPT ![t] = FALSE]
    /\ arg' = [arg EXCEPT ![t] = k]
    /\ ret' = [ret EXCEPT ![t] = b]

Put(t) ==
    /\ Pending(t)
    /\ op[t] \in Pushing
    /\ items' = [items EXCEPT ![at[t]] = Append(@, arg[t])]
    /\ effected' = [effected EXCEPT ![t] = TRUE]
    /\ UNCHANGED <<closed, op, at, arg, ret>>

Shut(t) ==
    /\ Pending(t)
    /\ op[t] = "close"
    /\ closed' = [closed EXCEPT ![at[t]] = TRUE]
    /\ effected' = [effected EXCEPT ![t] = TRUE]
    /\ UNCHANGED <<items, op, at, arg, ret>>

Finish(t) ==
    /\ effected[t]
    /\ End(t, TRUE, None)
    /\ UNCHANGED <<items, closed>>

Take(t) ==
    /\ Pending(t)
    /\ op[t] \in Popping
    /\ items[at[t]] # << >>
    /\ items' = [items EXCEPT ![at[t]] = Tail(@)]
    /\ End(t, TRUE, Head(items[at[t]]))
    /\ UNCHANGED closed

\* pop gives up only when the queue is done: empty and closed.
GiveUp(t) ==
    /\ Pending(t)
    /\ op[t] = "pop"
    /\ items[at[t]] = << >>
    /\ closed[at[t]]
    /\ End(t, FALSE, None)
    /\ UNCHANGED <<items, closed>>

Fail(t) ==
    /\ Pending(t)
    /\ op[t] \in {"tryPush", "tryPop"}
    /\ End(t, FALSE, None)
    /\ UNCHANGED <<items, closed>>

Step(t) == Put(t) \/ Shut(t) \/ Finish(t) \/ Take(t) \/ GiveUp(t) \/ Fail(t)

Next ==
    \E t \in Threads :
        \/ Step(t)
        \/ \E o \in Operations, q \in Queues, k \in Tasks \cup {None} :
              Begin(t, o, q, k)

SafeSpec == Init /\ [][Next]_vars

\* A call that need not wait returns: every one but pop, and pop on a closed
\* queue.
Unblocked(t) == op[t] # "none" /\ (op[t] = "pop" => closed[at[t]])

\* Some pop takes a handler that a pop can take; which one is not promised.
PopTakes(q) == \E t \in Threads : at[t] = q /\ op[t] = "pop" /\ Take(t)

Spec ==
    /\ SafeSpec
    /\ \A t \in Threads : WF_vars(Unblocked(t) /\ Step(t))
    /\ \A q \in Queues : WF_vars(PopTakes(q))
=============================================================================
