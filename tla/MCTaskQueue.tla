---------------------------- MODULE MCTaskQueue ----------------------------
(***************************************************************************)
(* TaskQueue on a small instance.  Any thread calls any operation at any   *)
(* time; to keep the queues finite, a handler is pushed only while it is   *)
(* neither queued nor on its way into a queue, so Tasks bounds the length  *)
(* of the queues and yet every thread can go on for ever.                  *)
(***************************************************************************)
EXTENDS TaskQueue

Fresh(k) ==
    /\ \A q \in Queues : ~Queued(k, q)
    /\ \A t \in Threads : ~(op[t] \in Pushing /\ pc[t] # "notify" /\ arg[t] = k)

MCCall(t) ==
    \E q \in Queues :
        \/ \E o \in Pushing, k \in {k \in Tasks : Fresh(k)} : CallPush(t, o, q, k)
        \/ \E o \in Popping : CallPop(t, o, q)
        \/ CallClose(t, q)

MCNext == \E t \in Threads : QueueStep(t) \/ MCCall(t)

MCSpec == QueueInit /\ [][MCNext]_qvars
MCFairSpec == MCSpec /\ QueueFairness
=============================================================================
