---------------------------- MODULE WorkerLease ----------------------------
(***************************************************************************)
(* The database lease that makes a worker role exclusive                   *)
(* (app/workers/lease.py over app/core/crud/worker/lease.py).              *)
(*                                                                         *)
(* A role (background_task, session_reply, message_platform, terminal) has *)
(* one row of table worker_lease.  Every process of the role runs          *)
(* run_with_worker_lease: it takes the row under a fresh owner id, runs    *)
(* the role's callback next to a renewal task, stops the callback when the *)
(* renewal task gives up, and deletes the row when the callback is done.   *)
(*                                                                         *)
(* Time is in seconds and relative: rowLeft is lease_until minus the       *)
(* database clock, the other timers count up.  Tick lets one second pass   *)
(* and is blocked while some process has an elapsed timeout it has not     *)
(* acted on, so the timeouts of the code are kept to the second; event     *)
(* loop lag is not modelled.                                               *)
(***************************************************************************)
EXTENDS Integers, FiniteSets

CONSTANTS
    Proc,            \* processes that compete for the role
    Owner,           \* pool of owner ids (uuid4 values)
    NoOwner,         \* no row, or no owner id
    LeaseSeconds,    \* WORKER_LEASE_SECONDS
    RenewInterval,   \* WORKER_LEASE_RENEW_INTERVAL_SECONDS
    AcquireInterval, \* WORKER_LEASE_ACQUIRE_INTERVAL_SECONDS
    RetryInterval,   \* WORKER_LEASE_LOCK_RETRY_INTERVAL_SECONDS
    RenewSafety,     \* WORKER_LEASE_RENEW_SAFETY_SECONDS
    ShutdownTimeout, \* WORKER_SHUTDOWN_TIMEOUT_SECONDS
    CancelTimeout,   \* WORKER_CANCEL_TIMEOUT_SECONDS
    MaxDbDelay       \* longest time from reading the database clock to the
                     \* commit or the error (busy_timeout of the connection)

ASSUME TimingAssumption ==
    /\ LeaseSeconds \in Nat
    /\ RenewInterval \in Nat
    /\ AcquireInterval \in Nat
    /\ RetryInterval \in Nat
    /\ RenewSafety \in Nat
    /\ ShutdownTimeout \in Nat
    /\ CancelTimeout \in Nat
    /\ MaxDbDelay \in Nat
    /\ RenewInterval + RenewSafety < LeaseSeconds

ASSUME OwnerAssumption == NoOwner \notin Owner

VARIABLES
    rowOwner,   \* owner_id of the role's row, NoOwner when there is no row
    rowLeft,    \* lease_until - now of that row
    phase,      \* where run_with_worker_lease of each process is
    renewal,    \* where the renewal task of each process is
    ownerId,    \* owner id of each process's current attempt
    shutdown,   \* shutdown_event of each process
    timer,      \* seconds in the current phase
    renewTimer, \* seconds in the current step of the renewal task
    sinceWake,  \* seconds since the renewal task last woke up
    sinceGrant  \* seconds since the clock reading of the last granted lease

vars == <<rowOwner, rowLeft, phase, renewal, ownerId, shutdown, timer,
          renewTimer, sinceWake, sinceGrant>>

Phase == {"idle", "update", "insert", "reupdate", "backoff",
          "owned", "grace", "cancel", "release", "exited"}
RenewalStep == {"off", "wait", "call", "retry"}

\* The callback of the role is running in process p.
Working(p) == phase[p] \in {"owned", "grace", "cancel"}

\* retry_deadline of _maintain_worker_lease, counted from the wake-up.
RetryDeadline == LeaseSeconds - RenewInterval - RenewSafety

\* Rows this long past their end are all alike to every reader of the clock.
RowFloor == -(MaxDbDelay + 1)

----------------------------------------------------------------------------
Init ==
    /\ rowOwner = NoOwner
    /\ rowLeft = RowFloor
    /\ phase = [p \in Proc |-> "idle"]
    /\ renewal = [p \in Proc |-> "off"]
    /\ ownerId = [p \in Proc |-> NoOwner]
    /\ shutdown = [p \in Proc |-> FALSE]
    /\ timer = [p \in Proc |-> 0]
    /\ renewTimer = [p \in Proc |-> 0]
    /\ sinceWake = [p \in Proc |-> 0]
    /\ sinceGrant = [p \in Proc |-> 0]

\* Mutant: the owner id is a constant of the deployment.
FreshOwnerShared == Owner

\* Ids nobody uses: what uuid4 draws from.
FreshOwner == Owner \ ({rowOwner} \cup {ownerId[q] : q \in Proc})

\* Process p moves to phase ph, its phase timer restarted.
Enter(p, ph) ==
    /\ phase' = [phase EXCEPT ![p] = ph]
    /\ timer' = [timer EXCEPT ![p] = 0]

\* Process p moves to phase ph inside one database call: the timer, which
\* counts from the clock reading, keeps running.
Continue(p, ph) ==
    /\ phase' = [phase EXCEPT ![p] = ph]
    /\ UNCHANGED timer

\* An iteration of the acquisition loop reads the database clock.
AcquireBegin(p) ==
    /\ phase[p] = "idle"
    /\ ~shutdown[p]
    /\ Enter(p, "update")
    /\ \E o \in FreshOwner : ownerId' = [ownerId EXCEPT ![p] = o]
    /\ UNCHANGED <<rowOwner, rowLeft, renewal, shutdown, renewTimer,
                   sinceWake, sinceGrant>>

\* Mutant: lease_until <= now.
ExpiredForEarly(p) == rowOwner # NoOwner /\ rowLeft <= -timer[p]

\* Mutant: only a row of the same owner id is updated.
ExpiredForSelf(p) == rowOwner # NoOwner /\ rowOwner = ownerId[p]

\* lease_until < now, for the clock value read timer[p] seconds ago.
ExpiredFor(p) == rowOwner # NoOwner /\ rowLeft < -timer[p]

\* The row becomes p's and the callback and the renewal task are started; if
\* shutdown was set meanwhile, the callback is told to stop right away.
Grant(p) ==
    /\ rowOwner' = ownerId[p]
    /\ rowLeft' = LeaseSeconds - timer[p]
    /\ Enter(p, IF shutdown[p] THEN "grace" ELSE "owned")
    /\ renewal' = [renewal EXCEPT ![p] = IF shutdown[p] THEN "off" ELSE "wait"]
    /\ renewTimer' = [renewTimer EXCEPT ![p] = 0]
    /\ sinceWake' = [sinceWake EXCEPT ![p] = 0]
    /\ sinceGrant' = [sinceGrant EXCEPT ![p] = timer[p]]
    /\ UNCHANGED <<ownerId, shutdown>>

\* First UPDATE of acquire: takes over an expired row.
AcquireUpdate(p) ==
    /\ phase[p] = "update"
    /\ \/ ExpiredFor(p) /\ Grant(p)
       \/ /\ ~ExpiredFor(p)
          /\ Continue(p, "insert")
          /\ UNCHANGED <<rowOwner, rowLeft, renewal, ownerId, shutdown,
                         renewTimer, sinceWake, sinceGrant>>

\* INSERT of acquire: succeeds when the role has no row, otherwise the
\* primary key raises IntegrityError.
AcquireInsert(p) ==
    /\ phase[p] = "insert"
    /\ \/ rowOwner = NoOwner /\ Grant(p)
       \/ /\ rowOwner # NoOwner
          /\ Continue(p, "reupdate")
          /\ UNCHANGED <<rowOwner, rowLeft, renewal, ownerId, shutdown,
                         renewTimer, sinceWake, sinceGrant>>

\* The attempt is over without a lease: wait before the next one.
NotAcquired(p) ==
    /\ Enter(p, "backoff")
    /\ ownerId' = [ownerId EXCEPT ![p] = NoOwner]
    /\ UNCHANGED <<rowOwner, rowLeft, renewal, shutdown, renewTimer,
                   sinceWake, sinceGrant>>

\* Second UPDATE of acquire, still with the first clock reading.
AcquireReupdate(p) ==
    /\ phase[p] = "reupdate"
    /\ \/ ExpiredFor(p) /\ Grant(p)
       \/ ~ExpiredFor(p) /\ NotAcquired(p)

\* Any database error during acquire is caught and counts as not acquired.
AcquireError(p) ==
    /\ phase[p] \in {"update", "insert", "reupdate"}
    /\ NotAcquired(p)

\* _wait_for_stop between attempts: the interval elapsed, or shutdown, which
\* leaves the loop.
BackoffEnd(p) ==
    /\ phase[p] = "backoff"
    /\ timer[p] >= AcquireInterval \/ shutdown[p]
    /\ Enter(p, "idle")
    /\ UNCHANGED <<rowOwner, rowLeft, renewal, ownerId, shutdown, renewTimer,
                   sinceWake, sinceGrant>>

\* The acquisition loop ends because shutdown is set.
LeaveLoop(p) ==
    /\ phase[p] = "idle"
    /\ shutdown[p]
    /\ Enter(p, "exited")
    /\ UNCHANGED <<rowOwner, rowLeft, renewal, ownerId, shutdown, renewTimer,
                   sinceWake, sinceGrant>>

----------------------------------------------------------------------------
\* The renewal task of p goes to step s with a restarted timer.
RenewalTo(p, s) ==
    /\ renewal' = [renewal EXCEPT ![p] = s]
    /\ renewTimer' = [renewTimer EXCEPT ![p] = 0]

\* The renewal task wakes up after its interval and reads the clock.
RenewWake(p) ==
    /\ phase[p] = "owned"
    /\ renewal[p] = "wait"
    /\ renewTimer[p] >= RenewInterval
    /\ RenewalTo(p, "call")
    /\ sinceWake' = [sinceWake EXCEPT ![p] = 0]
    /\ UNCHANGED <<rowOwner, rowLeft, phase, ownerId, shutdown, timer,
                   sinceGrant>>

\* renew's WHERE clause, for the clock value read renewTimer[p] seconds ago.
RenewMatches(p) == rowOwner = ownerId[p] /\ rowLeft >= -renewTimer[p]

\* renew matched the row: the lease is extended from the clock reading.
RenewOk(p) ==
    /\ renewal[p] = "call"
    /\ RenewMatches(p)
    /\ rowLeft' = LeaseSeconds - renewTimer[p]
    /\ RenewalTo(p, IF phase[p] = "owned" THEN "wait" ELSE "off")
    /\ sinceWake' = [sinceWake EXCEPT ![p] = 0]
    /\ sinceGrant' = [sinceGrant EXCEPT ![p] =
                        IF Working(p) THEN renewTimer[p] ELSE 0]
    /\ UNCHANGED <<rowOwner, phase, ownerId, shutdown, timer>>

\* The renewal task is done; a callback that still runs is told to stop.
RenewalEnds(p) ==
    /\ RenewalTo(p, "off")
    /\ sinceWake' = [sinceWake EXCEPT ![p] = 0]
    /\ \/ phase[p] = "owned" /\ Enter(p, "grace")
       \/ phase[p] # "owned" /\ UNCHANGED <<phase, timer>>
    /\ UNCHANGED <<rowOwner, rowLeft, ownerId, shutdown, sinceGrant>>

\* renew matched no row: the lease is lost.
RenewLost(p) ==
    /\ renewal[p] = "call"
    /\ ~RenewMatches(p)
    /\ RenewalEnds(p)

\* Mutant: no retry deadline.
RenewLockedForever(p) ==
    /\ renewal[p] = "call"
    /\ phase[p] = "owned"
    /\ RenewalTo(p, "retry")
    /\ UNCHANGED <<rowOwner, rowLeft, phase, ownerId, shutdown, timer,
                   sinceWake, sinceGrant>>

\* renew raised: "database is locked" before the deadline is retried, any
\* other error, or any error past the deadline, ends the renewal task.
RenewLocked(p) ==
    /\ renewal[p] = "call"
    /\ phase[p] = "owned"
    /\ sinceWake[p] < RetryDeadline
    /\ RenewalTo(p, "retry")
    /\ UNCHANGED <<rowOwner, rowLeft, phase, ownerId, shutdown, timer,
                   sinceWake, sinceGrant>>

RenewFailed(p) ==
    /\ renewal[p] = "call"
    /\ RenewalEnds(p)

RenewAgain(p) ==
    /\ phase[p] = "owned"
    /\ renewal[p] = "retry"
    /\ renewTimer[p] >= RetryInterval
    /\ RenewalTo(p, "call")
    /\ UNCHANGED <<rowOwner, rowLeft, phase, ownerId, shutdown, timer,
                   sinceWake, sinceGrant>>

----------------------------------------------------------------------------
\* A signal, or another role of the same process, sets shutdown_event: the
\* callback is told to stop; the renewal task ends unless a call is in flight.
Shutdown(p) ==
    /\ phase[p] # "exited"
    /\ ~shutdown[p]
    /\ shutdown' = [shutdown EXCEPT ![p] = TRUE]
    /\ \/ /\ phase[p] = "owned"
          /\ Enter(p, "grace")
          /\ IF renewal[p] = "call"
             THEN UNCHANGED <<renewal, renewTimer, sinceWake>>
             ELSE /\ RenewalTo(p, "off")
                  /\ sinceWake' = [sinceWake EXCEPT ![p] = 0]
       \/ /\ phase[p] # "owned"
          /\ UNCHANGED <<phase, timer, renewal, renewTimer, sinceWake>>
    /\ UNCHANGED <<rowOwner, rowLeft, ownerId, sinceGrant>>

\* The callback returns or raises, by itself or because it was told to.
\* The renewal task is cancelled; a database call in flight completes.
WorkerDone(p) ==
    /\ Working(p)
    /\ Enter(p, "release")
    /\ IF renewal[p] = "call"
       THEN UNCHANGED <<renewal, renewTimer, sinceWake>>
       ELSE /\ RenewalTo(p, "off")
            /\ sinceWake' = [sinceWake EXCEPT ![p] = 0]
    /\ sinceGrant' = [sinceGrant EXCEPT ![p] = 0]
    /\ UNCHANGED <<rowOwner, rowLeft, ownerId, shutdown>>

\* _stop_owned_worker: the graceful stop timed out, the task is cancelled.
GraceTimeout(p) ==
    /\ phase[p] = "grace"
    /\ timer[p] >= ShutdownTimeout
    /\ Enter(p, "cancel")
    /\ UNCHANGED <<rowOwner, rowLeft, renewal, ownerId, shutdown, renewTimer,
                   sinceWake, sinceGrant>>

\* The process is gone, its row is left behind.
Gone(p) ==
    /\ Enter(p, "exited")
    /\ RenewalTo(p, "off")
    /\ ownerId' = [ownerId EXCEPT ![p] = NoOwner]
    /\ sinceWake' = [sinceWake EXCEPT ![p] = 0]
    /\ sinceGrant' = [sinceGrant EXCEPT ![p] = 0]
    /\ UNCHANGED <<rowOwner, rowLeft, shutdown>>

\* _cancel_owned_worker: cancellation timed out too, os._exit.
ForceExit(p) ==
    /\ phase[p] = "cancel"
    /\ timer[p] >= CancelTimeout
    /\ Gone(p)

\* The process is killed at any point.
Crash(p) ==
    /\ phase[p] # "exited"
    /\ Gone(p)

\* Mutant: release deletes the role's row whoever owns it.
ReleaseAny(p) ==
    /\ phase[p] = "release"
    /\ renewal[p] = "off"
    /\ rowOwner' = NoOwner
    /\ rowLeft' = RowFloor
    /\ Enter(p, "exited")
    /\ ownerId' = [ownerId EXCEPT ![p] = NoOwner]
    /\ UNCHANGED <<renewal, shutdown, renewTimer, sinceWake, sinceGrant>>

\* The finally block of run_with_worker_lease once the renewal task has been
\* gathered: release deletes p's row if it is still p's, or fails and is only
\* logged.  Every way out of _run_owned_worker then ends the process's loop.
Release(p) ==
    /\ phase[p] = "release"
    /\ renewal[p] = "off"
    /\ \/ rowOwner = ownerId[p] /\ rowOwner' = NoOwner /\ rowLeft' = RowFloor
       \/ UNCHANGED <<rowOwner, rowLeft>>
    /\ Enter(p, "exited")
    /\ ownerId' = [ownerId EXCEPT ![p] = NoOwner]
    /\ UNCHANGED <<renewal, shutdown, renewTimer, sinceWake, sinceGrant>>

\* The operator starts the process again.
Restart(p) ==
    /\ phase[p] = "exited"
    /\ Enter(p, "idle")
    /\ shutdown' = [shutdown EXCEPT ![p] = FALSE]
    /\ UNCHANGED <<rowOwner, rowLeft, renewal, ownerId, renewTimer,
                   sinceWake, sinceGrant>>

----------------------------------------------------------------------------
\* Process p has no elapsed timeout it must act on before time passes.
MayWait(p) ==
    /\ phase[p] \in {"update", "insert", "reupdate"} => timer[p] < MaxDbDelay
    /\ phase[p] = "backoff" => timer[p] < AcquireInterval /\ ~shutdown[p]
    /\ phase[p] = "grace" => timer[p] < ShutdownTimeout
    /\ phase[p] = "cancel" => timer[p] < CancelTimeout
    /\ renewal[p] = "wait" => renewTimer[p] < RenewInterval
    /\ renewal[p] = "call" => renewTimer[p] < MaxDbDelay
    /\ renewal[p] = "retry" => renewTimer[p] < RetryInterval

\* Phases in which the phase timer is read.
Timed == {"update", "insert", "reupdate", "backoff", "grace", "cancel"}

Tick ==
    /\ \A p \in Proc : MayWait(p)
    /\ rowLeft' = IF rowLeft > RowFloor THEN rowLeft - 1 ELSE rowLeft
    /\ timer' = [p \in Proc |-> IF phase[p] \in Timed THEN timer[p] + 1
                                                      ELSE timer[p]]
    /\ renewTimer' = [p \in Proc |-> IF renewal[p] # "off"
                                     THEN renewTimer[p] + 1
                                     ELSE renewTimer[p]]
    /\ sinceWake' = [p \in Proc |-> IF renewal[p] \in {"call", "retry"}
                                    THEN sinceWake[p] + 1
                                    ELSE sinceWake[p]]
    /\ sinceGrant' = [p \in Proc |-> IF Working(p) THEN sinceGrant[p] + 1
                                                   ELSE sinceGrant[p]]
    /\ UNCHANGED <<rowOwner, phase, renewal, ownerId, shutdown>>

Acquire(p) == AcquireBegin(p) \/ AcquireUpdate(p) \/ AcquireInsert(p)
                \/ AcquireReupdate(p) \/ AcquireError(p) \/ BackoffEnd(p)
                \/ LeaveLoop(p)
Renew(p) == RenewWake(p) \/ RenewOk(p) \/ RenewLost(p) \/ RenewLocked(p)
                \/ RenewFailed(p) \/ RenewAgain(p)
Stop(p) == Shutdown(p) \/ WorkerDone(p) \/ GraceTimeout(p) \/ ForceExit(p)
                \/ Crash(p) \/ Release(p) \/ Restart(p)

Next == Tick \/ \E p \in Proc : Acquire(p) \/ Renew(p) \/ Stop(p)

Spec == Init /\ [][Next]_vars

\* The scheduling the code relies on: time passes (strongly fair: no infinite
\* activity within one second), a statement sent to the database is eventually
\* executed (strongly fair: the database does not fail every attempt), and a
\* process that can go on goes on.
Fairness ==
    /\ SF_vars(Tick)
    /\ \A p \in Proc :
         /\ WF_vars(AcquireBegin(p))
         /\ SF_vars(AcquireUpdate(p))
         /\ WF_vars(AcquireInsert(p))
         /\ WF_vars(AcquireReupdate(p))
         /\ WF_vars(BackoffEnd(p))
         /\ WF_vars(RenewWake(p) \/ RenewOk(p) \/ RenewLost(p) \/ RenewAgain(p))
         /\ WF_vars(GraceTimeout(p))
         /\ WF_vars(ForceExit(p))

FairSpec == Spec /\ Fairness

----------------------------------------------------------------------------
(* Properties *)

\* Every variable has the values the code gives it.
TypeOK ==
    /\ rowOwner \in Owner \cup {NoOwner}
    /\ rowLeft \in RowFloor..LeaseSeconds
    /\ phase \in [Proc -> Phase]
    /\ renewal \in [Proc -> RenewalStep]
    /\ ownerId \in [Proc -> Owner \cup {NoOwner}]
    /\ shutdown \in [Proc -> BOOLEAN]
    /\ timer \in [Proc -> Nat]
    /\ renewTimer \in [Proc -> Nat]
    /\ sinceWake \in [Proc -> Nat]
    /\ sinceGrant \in [Proc -> Nat]

\* What the row gives its owner: two processes run the callback of the role
\* at the same time only after the lease of one of them has run out.
LeaseExclusive ==
    \A p, q \in Proc :
        p # q /\ Working(p) /\ Working(q)
            => sinceGrant[p] > LeaseSeconds \/ sinceGrant[q] > LeaseSeconds

\* How long after its lease has run out a callback can still be running:
\* the retry loop of _maintain_worker_lease stops RenewSafety seconds early,
\* but a statement, a retry pause, the graceful stop and the cancellation may
\* each still take their full time.
MaxOverrun ==
    RetryInterval + 2 * MaxDbDelay + ShutdownTimeout + CancelTimeout
        - RenewSafety - 1

\* A callback never outlives its lease by more than MaxOverrun seconds,
\* whatever fails: after that it has returned or os._exit has ended it.
OverrunBounded ==
    \A p \in Proc : Working(p) => sinceGrant[p] <= LeaseSeconds + MaxOverrun

\* The role is exclusive: at most one process runs its callback.
RoleExclusive ==
    \A p, q \in Proc : p # q => ~(Working(p) /\ Working(q))

\* The row of a running callback changes hands only once its lease has run
\* out: nobody deletes or takes over a live lease, not even a late release
\* of a process that has lost the role.
LiveLeaseKept ==
    [][\A p \in Proc :
          Working(p) /\ rowOwner = ownerId[p] /\ rowOwner' # rowOwner
              => rowLeft < 0]_vars

\* A row no process answers for.
Orphaned == rowOwner # NoOwner /\ \A p \in Proc : ownerId[p] # rowOwner

\* Process p is in the acquisition loop.
Competing(p) ==
    /\ phase[p] \in {"idle", "update", "insert", "reupdate", "backoff"}
    /\ ~shutdown[p]

\* Failover: the row a dead process left behind does not block the role; a
\* process that keeps competing gets it, or another one does.
Failover ==
    \A p \in Proc : (Orphaned /\ Competing(p)) ~> (~Orphaned \/ ~Competing(p))

----------------------------------------------------------------------------
(* The inductive invariant behind LeaseExclusive and OverrunBounded *)

\* No two processes use the same owner id, and an id not yet granted is not
\* the one in the row.
OwnerIdsUnique ==
    /\ \A p, q \in Proc : p # q /\ ownerId[p] # NoOwner
                             => ownerId[p] # ownerId[q]
    /\ \A p \in Proc :
         phase[p] \in {"update", "insert", "reupdate", "owned", "grace",
                       "cancel", "release"} => ownerId[p] # NoOwner

\* A process whose lease has not run out holds the row, and the row's
\* remaining time is the lease counted from the process's last grant.
LiveLeaseIsRow ==
    \A p \in Proc :
        Working(p) /\ sinceGrant[p] <= LeaseSeconds
            => rowOwner = ownerId[p] /\ rowLeft = LeaseSeconds - sinceGrant[p]

\* The renewal task waits or retries only beside a callback that has not been
\* told to stop; beside any other, at most its last call is in flight.
RenewalFollowsPhase ==
    \A p \in Proc :
        /\ phase[p] = "owned" => renewal[p] # "off"
        /\ phase[p] \in {"grace", "cancel", "release"}
             => renewal[p] \in {"call", "off"}
        /\ phase[p] \in {"idle", "update", "insert", "reupdate", "backoff",
                         "exited"} => renewal[p] = "off"

\* No timer passes its timeout.
TimersBounded ==
    \A p \in Proc :
        /\ phase[p] \in {"update", "insert", "reupdate"}
             => timer[p] <= MaxDbDelay
        /\ phase[p] = "grace" => timer[p] <= ShutdownTimeout
        /\ phase[p] = "cancel" => timer[p] <= CancelTimeout
        /\ renewal[p] = "wait" => renewTimer[p] <= RenewInterval
        /\ renewal[p] = "call" => renewTimer[p] <= MaxDbDelay
        /\ renewal[p] = "retry" => renewTimer[p] <= RetryInterval

\* Longest age of a lease when its callback is told to stop.
StopAge == LeaseSeconds - RenewSafety - 1 + RetryInterval + 2 * MaxDbDelay

\* The age of a lease in every step of the renewal task and of the stop.
LeaseAge ==
    \A p \in Proc :
        /\ phase[p] = "owned" /\ renewal[p] = "wait"
             => sinceGrant[p] <= MaxDbDelay + renewTimer[p]
        /\ phase[p] = "owned" /\ renewal[p] \in {"call", "retry"}
             => sinceGrant[p] <= MaxDbDelay + RenewInterval + sinceWake[p]
        /\ phase[p] = "owned" /\ renewal[p] = "retry"
             => sinceWake[p] <= RetryDeadline - 1 + renewTimer[p]
        /\ phase[p] = "owned" /\ renewal[p] = "call"
             => sinceWake[p] <= RetryDeadline - 1 + RetryInterval + renewTimer[p]
        /\ phase[p] = "grace" => sinceGrant[p] <= StopAge + timer[p]
        /\ phase[p] = "cancel"
             => sinceGrant[p] <= StopAge + ShutdownTimeout + timer[p]

LeaseInv == /\ TypeOK
            /\ OwnerIdsUnique
            /\ LiveLeaseIsRow
            /\ RenewalFollowsPhase
            /\ TimersBounded
            /\ LeaseAge
============================================================================
