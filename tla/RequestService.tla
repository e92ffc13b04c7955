--------------------------- MODULE RequestService ---------------------------
(***************************************************************************)
(* What the request path promises its clients, without threads, semaphores *)
(* or slots: requests are queued in the order they were accepted, served   *)
(* one at a time in that order, and each is answered at most once.  A      *)
(* request whose data had not all arrived when its turn came may be passed *)
(* over, and the process may go down.                                      *)
(***************************************************************************)
EXTENDS Naturals, Sequences

CONSTANTS Reqs, NoReq, Capacity

VARIABLES
    queue,      \* accepted requests, oldest first
    serving,    \* the request being served, or NoReq
    answered,   \* requests that have been answered
    passed,     \* requests passed over
    alive

vars == <<queue, serving, answered, passed, alive>>

Init ==
    /\ queue = <<>>
    /\ serving = NoReq
    /\ answered = {}
    /\ passed = {}
    /\ alive = TRUE

Queued == {queue[i] : i \in 1 .. Len(queue)}

Accept(r) ==
    /\ alive
    /\ Len(queue) < Capacity
    /\ r \notin Queued \cup answered \cup passed \cup {serving}
    /\ queue' = Append(queue, r)
    /\ UNCHANGED <<serving, answered, passed, alive>>

Begin ==
    /\ alive
    /\ serving = NoReq /\ queue # <<>>
    /\ serving' = Head(queue)
    /\ queue' = Tail(queue)
    /\ UNCHANGED <<answered, passed, alive>>

Answer ==
    /\ alive
    /\ serving # NoReq
    /\ answered' = answered \cup {serving}
    /\ serving' = NoReq
    /\ UNCHANGED <<queue, passed, alive>>

PassOver ==
    /\ alive
    /\ serving # NoReq
    /\ passed' = passed \cup {serving}
    /\ serving' = NoReq
    /\ UNCHANGED <<queue, answered, alive>>

Fail ==
    /\ alive
    /\ alive' = FALSE
    /\ UNCHANGED <<queue, serving, answered, passed>>

NextReliable == (\E r \in Reqs : Accept(r)) \/ Begin \/ Answer
Next == NextReliable \/ PassOver \/ Fail

Spec == Init /\ [][Next]_vars

\* A service that passes nobody over, never fails, and keeps serving.
ReliableSpec ==
    /\ Init /\ [][NextReliable]_vars
    /\ WF_vars(Begin) /\ WF_vars(Answer)
=============================================================================
