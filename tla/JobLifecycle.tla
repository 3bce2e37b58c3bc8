---------------------------- MODULE JobLifecycle ----------------------------
(***************************************************************************)
(* The life cycle of a mutation job as the code that submits and executes  *)
(* jobs relies on it: no clock, no consumer, no compare-and-set.  Module   *)
(* MemoryJobQueue implements it; MemoryPublication works with claims as it *)
(* describes them.                                                         *)
(***************************************************************************)
EXTENDS Integers

CONSTANTS Job, Owner, None, MaxAttempts

VARIABLES
    job,     \* status, holder and attempts of every job
    cancels  \* jobs whose cancellation was requested while they ran

Claimable == {"pending", "retry"}
Terminal == {"succeeded", "failed", "cancelled"}

Init ==
    /\ job = [j \in Job |-> [status |-> "absent", owner |-> None, attempts |-> 0]]
    /\ cancels = {}

\* Job j goes to status s, nobody holding it.
Ends(j, s) ==
    /\ job' = [job EXCEPT ![j].status = s, ![j].owner = None]
    /\ UNCHANGED cancels

\* A job is submitted.
Submit(j) == job[j].status = "absent" /\ Ends(j, "pending")

\* Owner o takes a waiting job for its next attempt.
Claim(j, o) ==
    /\ job[j].status \in Claimable
    /\ j \notin cancels
    /\ job[j].attempts < MaxAttempts
    /\ job' = [job EXCEPT ![j].status = "running", ![j].owner = o,
                          ![j].attempts = @ + 1]
    /\ UNCHANGED cancels

\* A waiting job is cancelled.
CancelWaiting(j) == job[j].status \in Claimable /\ Ends(j, "cancelled")

\* The cancellation of a running job is requested.
RequestCancel(j) ==
    /\ job[j].status = "running"
    /\ cancels' = cancels \cup {j}
    /\ UNCHANGED job

\* The claim ends with a result, unless a cancel request came first.
Conclude(j) ==
    /\ job[j].status = "running"
    /\ j \notin cancels
    /\ Ends(j, "succeeded") \/ Ends(j, "failed")

\* The claim is given up or lost, with an attempt to spare.
GiveBack(j) ==
    /\ job[j].status = "running"
    /\ j \notin cancels
    /\ job[j].attempts < MaxAttempts
    /\ Ends(j, "retry")

\* A running job is cancelled.
CancelRunning(j) == job[j].status = "running" /\ Ends(j, "cancelled")

Next ==
    \E j \in Job :
        \/ Submit(j)
        \/ \E o \in Owner : Claim(j, o)
        \/ CancelWaiting(j)
        \/ RequestCancel(j)
        \/ Conclude(j)
        \/ GiveBack(j)
        \/ CancelRunning(j)

Spec == Init /\ [][Next]_<<job, cancels>>
=============================================================================
