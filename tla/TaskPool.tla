------------------------------ MODULE TaskPool ------------------------------
(***************************************************************************)
(* What TaskScheduler promises, with no threads and no queues: a task that *)
(* is scheduled is called once, in no particular order, and the destructor *)
(* returns when the last of them has run, whoever scheduled it.            *)
(***************************************************************************)
CONSTANT Tasks

VARIABLES
    status,  \* task -> "new", "submitted", "running" or "finished"
    phase,   \* "open", "closing" (the destructor is running) or "gone"
    broken   \* the program was terminated or its behaviour is undefined

vars == <<status, phase, broken>>

Init ==
    /\ status = [k \in Tasks |-> "new"]
    /\ phase = "open"
    /\ broken = FALSE

Advance(k, from, to) ==
    /\ ~broken
    /\ status[k] = from
    /\ status' = [status EXCEPT ![k] = to]
    /\ UNCHANGED <<phase, broken>>

\* A client schedules while the pool is open, a running task at any time.
Submit(k) ==
    /\ phase = "open" \/ \E j \in Tasks : status[j] = "running"
    /\ Advance(k, "new", "submitted")

Start(k) == phase # "gone" /\ Advance(k, "submitted", "running")
Finish(k) == Advance(k, "running", "finished")

Close ==
    /\ ~broken
    /\ phase = "open"
    /\ phase' = "closing"
    /\ UNCHANGED <<status, broken>>

\* The destructor returns.
Return ==
    /\ ~broken
    /\ phase = "closing"
    /\ \A k \in Tasks : status[k] \in {"new", "finished"}
    /\ phase' = "gone"
    /\ UNCHANGED <<status, broken>>

Break ==
    /\ broken' = TRUE
    /\ UNCHANGED <<status, phase>>

Next ==
    \/ \E k \in Tasks : Submit(k) \/ Start(k) \/ Finish(k)
    \/ Close
    \/ Return
    \/ Break

SafeSpec == Init /\ [][Next]_vars

Spec ==
    /\ SafeSpec
    /\ \A k \in Tasks : WF_vars(Start(k)) /\ WF_vars(Finish(k))
    /\ WF_vars(Return)
=============================================================================
