--------------------------- MODULE MemoryJobQueue ---------------------------
(***************************************************************************)
(* The queue of long-term-memory mutation jobs: table                      *)
(* long_term_memory_mutation_job (app/core/crud/memory/job_*.py) and the   *)
(* consumers that work it off (app/core/memory_jobs/consumer.py).          *)
(*                                                                         *)
(* A consumer's loop recovers jobs whose lease ran out, renews the leases  *)
(* of its own tasks and claims new jobs; every claim is a task of its own, *)
(* fenced by a fresh owner id and a lease.  Consumers of two processes may *)
(* overlap (see WorkerLease), so nothing here relies on there being one.   *)
(*                                                                         *)
(* Time is relative, as in WorkerLease.  A database call reads the clock   *)
(* first and runs its UPDATE up to MaxDbDelay seconds later; age counts    *)
(* the seconds since that reading.  A step "...Read" or "...Begin" is the  *)
(* reading, the step "...Commit" the UPDATE with its WHERE clause.         *)
(* Renewal, recovery and polling intervals are not kept to: a loop may be  *)
(* arbitrarily late, which is what leases are there for.                   *)
(***************************************************************************)
EXTENDS Integers, FiniteSets

CONSTANTS
    Job,            \* rows of the table, present or to come
    Protected,      \* the DELETE_CLEANUP and VECTOR_CLEANUP jobs
    Consumer,       \* MemoryJobConsumer instances
    Owner,          \* pool of worker ids (uuid4 values), one per claim
    None,           \* no owner (locked_by IS NULL), no job, no consumer
    MaxAttempts,    \* max_attempts
    LeaseSeconds,   \* MEMORY_JOB_LEASE_SECONDS
    RecoveryDelay,  \* MEMORY_JOB_RECOVERY_RETRY_DELAY_SECONDS
    ShutdownDelay,  \* MEMORY_JOB_SHUTDOWN_RETRY_DELAY_SECONDS
    MaxConcurrency, \* MEMORY_JOB_MAX_CONCURRENCY
    MaxDbDelay,     \* longest time from the clock reading to the UPDATE
    MaxStops        \* bound on stops and crashes of consumers

ASSUME JobQueueAssumption ==
    /\ Protected \subseteq Job
    /\ None \notin Job \cup Owner \cup Consumer
    /\ MaxAttempts \in Nat \ {0}
    /\ LeaseSeconds \in Nat
    /\ RecoveryDelay \in Nat
    /\ ShutdownDelay \in Nat
    /\ MaxConcurrency \in Nat
    /\ MaxDbDelay \in Nat
    /\ MaxStops \in Nat

VARIABLES
    row,     \* the table
    cancels, \* the jobs with cancel_requested_at set
    loop,    \* what each consumer's loop has in hand
    task,    \* the _run_claimed task of each owner id
    stops    \* stops and crashes so far

vars == <<row, cancels, loop, task, stops>>

Claimable == {"pending", "retry"}
Terminal == {"succeeded", "failed", "cancelled"}
Status == Claimable \cup Terminal \cup {"absent", "running"}

LoopStep == {"idle", "recover", "renew", "claim", "down"}
TaskStep == {"none", "handler", "finalize", "succeed", "fail", "retry",
             "cancel", "stopped", "release"}
LossOutcome == {"retry", "failed", "cancelled"}

\* Leases and waits this far in the past are alike to every clock reading.
RowFloor == -(MaxDbDelay + 1)

Row == [status : Status, owner : Owner \cup {None}, left : Int,
        wait : Int, attempts : Nat]
Loop == [step : LoopStep, job : Job \cup {None}, owner : Owner \cup {None},
         age : Nat, left : Int, next : LossOutcome]
Task == [step : TaskStep, job : Job \cup {None}, host : Consumer \cup {None},
         attempt : Nat, age : Nat, left : Int, next : LossOutcome]

Absent == [status |-> "absent", owner |-> None, left |-> RowFloor,
           wait |-> 0, attempts |-> 0]
InHand(s, j, c) == [step |-> s, job |-> j, owner |-> c, age |-> 0,
                    left |-> RowFloor, next |-> "retry"]
Idle == InHand("idle", None, None)
Down == InHand("down", None, None)
TaskAt(s, j, k, n) == [step |-> s, job |-> j, host |-> k, attempt |-> n,
                       age |-> 0, left |-> RowFloor, next |-> "retry"]
NoTask == TaskAt("none", None, None, 0)

Live(c) == task[c].step # "none"

----------------------------------------------------------------------------
Init ==
    /\ row = [j \in Job |-> Absent]
    /\ cancels = {}
    /\ loop = [k \in Consumer |-> Idle]
    /\ task = [c \in Owner |-> NoTask]
    /\ stops = 0

\* The row with status s and its lock cleared, available in w seconds.
Unlocked(r, s, w) ==
    [status |-> s, owner |-> None, left |-> RowFloor, wait |-> w,
     attempts |-> r.attempts]

\* create: a job enters the queue, available at once.
Submit(j) ==
    /\ row[j].status = "absent"
    /\ row' = [row EXCEPT ![j] = Unlocked(@, "pending", 0)]
    /\ UNCHANGED <<cancels, loop, task, stops>>

\* request_cancel.  A waiting job is cancelled at once, a running one is
\* flagged.  The compare-and-set of the second UPDATE only makes the call
\* report accepted=False when the claim changed hands meanwhile.
RequestCancel(j) ==
    /\ j \notin Protected
    /\ \/ /\ row[j].status \in Claimable
          /\ row' = [row EXCEPT ![j] = Unlocked(@, "cancelled", @.wait)]
          /\ UNCHANGED cancels
       \/ /\ row[j].status = "running"
          /\ j \notin cancels
          /\ cancels' = cancels \cup {j}
          /\ UNCHANGED row
    /\ UNCHANGED <<loop, task, stops>>

----------------------------------------------------------------------------
(* The consumer's loop.                                                    *)

\* Mutant: off by one.
OnLossOneMore(j) ==
    IF j \in cancels THEN "cancelled"
    ELSE IF row[j].attempts > MaxAttempts THEN "failed"
    ELSE "retry"

\* Where a job whose claim ended without a result goes: the branches of
\* recover_expired and of release_claim_for_shutdown.
OnLoss(j) ==
    IF j \in cancels THEN "cancelled"
    ELSE IF row[j].attempts >= MaxAttempts THEN "failed"
    ELSE "retry"

\* The row after a claim was lost, to be taken up again after delay.
AfterLoss(r, next, delay) ==
    Unlocked(r, next, IF next = "retry" THEN delay ELSE r.wait)

LoopTo(k, rec) == loop' = [loop EXCEPT ![k] = rec]

\* recover_expired: the SELECT of expired jobs.
RecoverRead(k, j) ==
    /\ loop[k].step = "idle"
    /\ row[j].status = "running"
    /\ row[j].left < 0
    /\ LoopTo(k, [step |-> "recover", job |-> j, owner |-> row[j].owner,
                  age |-> 0, left |-> row[j].left, next |-> OnLoss(j)])
    /\ UNCHANGED <<row, cancels, task, stops>>

\* Mutant: the UPDATE forgets cancel_requested_at.
RecoverMatchesNoCancel(k) ==
    LET r == row[loop[k].job] IN
    /\ r.status = "running"
    /\ r.owner = loop[k].owner
    /\ r.left = loop[k].left
    /\ r.left < -loop[k].age

\* recover_expired: the WHERE clause of the UPDATE for one of them.
RecoverMatches(k) ==
    LET r == row[loop[k].job] IN
    /\ r.status = "running"
    /\ r.owner = loop[k].owner
    /\ r.left = loop[k].left
    /\ r.left < -loop[k].age
    /\ loop[k].job \in cancels <=> loop[k].next = "cancelled"

\* recover_expired: the UPDATE.
RecoverCommit(k) ==
    /\ loop[k].step = "recover"
    /\ IF RecoverMatches(k)
       THEN row' = [row EXCEPT ![loop[k].job] =
                        AfterLoss(@, loop[k].next, RecoveryDelay - loop[k].age)]
       ELSE UNCHANGED row
    /\ LoopTo(k, Idle)
    /\ UNCHANGED <<cancels, task, stops>>

\* _renew_running_jobs reaches the task of claim c.
RenewBegin(k, c) ==
    /\ loop[k].step = "idle"
    /\ Live(c)
    /\ task[c].host = k
    /\ LoopTo(k, InHand("renew", task[c].job, c))
    /\ UNCHANGED <<row, cancels, task, stops>>

\* Mutant: whoever asks, if only the lease is good.
HoldsAnyOwner(r, c, age) == r.status = "running" /\ r.left >= -age

\* status = RUNNING, locked_by = owner, lock_until >= now, for a clock read
\* age seconds ago: the fence of renew_lease, of _mark_terminal, of
\* release_for_retry and of get_active_claim.
Holds(r, c, age) == r.status = "running" /\ r.owner = c /\ r.left >= -age

\* task.cancel() on a live task; one that already runs its release, which is
\* shielded, goes on.
Interrupt(t) ==
    IF t.step \in {"none", "release"} THEN t
    ELSE [t EXCEPT !.step = "stopped", !.age = 0]

\* renew_lease; a refused or failed renewal cancels the task if it is still
\* the one that was asked about.
RenewCommit(k) ==
    LET c == loop[k].owner
        j == loop[k].job
    IN
    /\ loop[k].step = "renew"
    /\ \/ /\ Holds(row[j], c, loop[k].age)
          /\ row' = [row EXCEPT ![j].left = LeaseSeconds - loop[k].age]
          /\ UNCHANGED task
       \/ /\ UNCHANGED row
          /\ task' = [task EXCEPT ![c] = IF @.job = j THEN Interrupt(@) ELSE @]
    /\ LoopTo(k, Idle)
    /\ UNCHANGED <<cancels, stops>>

\* Mutant: worker ids are reused while somebody remembers them.
FreshOwnerReused == {c \in Owner : \A j \in Job : row[j].owner # c}

\* Worker ids nobody uses: what uuid4 draws from.
FreshOwner ==
    {c \in Owner : /\ ~Live(c)
                   /\ \A j \in Job : row[j].owner # c
                   /\ \A k \in Consumer : loop[k].owner # c}

\* Tasks of consumer k that are not done.
Running(k) == {c \in Owner : Live(c) /\ task[c].host = k}

\* _claim_available_jobs: a listed candidate, a fresh worker id and the clock
\* reading of try_claim.
ClaimBegin(k, j, c) ==
    /\ loop[k].step = "idle"
    /\ Cardinality(Running(k)) < MaxConcurrency
    /\ row[j].status \in Claimable
    /\ row[j].wait <= 0
    /\ j \notin cancels
    /\ c \in FreshOwner
    /\ LoopTo(k, InHand("claim", j, c))
    /\ UNCHANGED <<row, cancels, task, stops>>

\* try_claim: the WHERE clause.
ClaimMatches(k) ==
    LET r == row[loop[k].job] IN
    /\ r.status \in Claimable
    /\ r.wait <= -loop[k].age
    /\ loop[k].job \notin cancels

\* Mutant: attempt_count is left alone.
ClaimedSameAttempt(r, c, age) ==
    [status |-> "running", owner |-> c, left |-> LeaseSeconds - age,
     wait |-> r.wait, attempts |-> r.attempts]

\* try_claim: the row it leaves.
Claimed(r, c, age) ==
    [status |-> "running", owner |-> c, left |-> LeaseSeconds - age,
     wait |-> r.wait, attempts |-> r.attempts + 1]

\* try_claim.  When the loop fails or is stopped right after the commit the
\* job is claimed and has no task.
ClaimCommit(k) ==
    LET c == loop[k].owner
        j == loop[k].job
    IN
    /\ loop[k].step = "claim"
    /\ IF ClaimMatches(k)
       THEN /\ row' = [row EXCEPT ![j] = Claimed(@, c, loop[k].age)]
            /\ \/ task' = [task EXCEPT ![c] =
                                 TaskAt("handler", j, k, row[j].attempts + 1)]
               \/ UNCHANGED task
       ELSE UNCHANGED <<row, task>>
    /\ LoopTo(k, Idle)
    /\ UNCHANGED <<cancels, stops>>

\* A database error in recover_expired or try_claim: logged, nothing done.
LoopError(k) ==
    /\ loop[k].step \in {"recover", "claim"}
    /\ LoopTo(k, Idle)
    /\ UNCHANGED <<row, cancels, task, stops>>

----------------------------------------------------------------------------
(* The task of a claim: _run_claimed and the executor.                     *)

TaskTo(c, step) == task' = [task EXCEPT ![c].step = step, ![c].age = 0]
TaskEnds(c) == task' = [task EXCEPT ![c] = NoTask]

\* A checkpoint finds no active claim: MemoryJobLeaseLostError, only logged.
LeaseLost(c) ==
    /\ task[c].step = "handler"
    /\ ~Holds(row[task[c].job], c, 0)
    /\ TaskEnds(c)
    /\ UNCHANGED <<row, cancels, loop, stops>>

\* A checkpoint finds the cancel request: MemoryJobCancelledError.
SeesCancel(c) ==
    /\ task[c].step = "handler"
    /\ Holds(row[task[c].job], c, 0)
    /\ task[c].job \in cancels
    /\ TaskTo(c, "cancel")
    /\ UNCHANGED <<row, cancels, loop, stops>>

\* A deterministic error, or a retryable one of the last attempt
\* (_handle_failure); a retryable or unexpected error before that
\* (_release_for_retry).
Raises(c) ==
    /\ task[c].step = "handler"
    /\ \/ TaskTo(c, "fail")
       \/ task[c].attempt < MaxAttempts /\ TaskTo(c, "retry")
    /\ UNCHANGED <<row, cancels, loop, stops>>

\* The handler is through its last checkpoint: it marks the job in its own
\* transaction (finalized) or leaves that to the consumer.
Completes(c) ==
    /\ task[c].step = "handler"
    /\ Holds(row[task[c].job], c, 0)
    /\ task[c].job \notin cancels
    /\ TaskTo(c, "finalize") \/ TaskTo(c, "succeed")
    /\ UNCHANGED <<row, cancels, loop, stops>>

\* The WHERE clause of _mark_terminal for SUCCEEDED and FAILED, and of
\* release_for_retry.
MayMark(c) ==
    /\ Holds(row[task[c].job], c, task[c].age)
    /\ task[c].job \notin cancels

\* mark_succeeded inside the handler's transaction.  Refused, the handler
\* rolls back and raises what a checkpoint would; an error after the commit
\* runs into the consumer's retry path.
Finalize(c) ==
    /\ task[c].step = "finalize"
    /\ IF MayMark(c)
       THEN /\ row' = [row EXCEPT ![task[c].job] = Unlocked(@, "succeeded", @.wait)]
            /\ \/ TaskEnds(c)
               \/ TaskTo(c, IF task[c].attempt < MaxAttempts THEN "retry"
                            ELSE "fail")
       ELSE UNCHANGED row /\ TaskTo(c, "handler")
    /\ UNCHANGED <<cancels, loop, stops>>

\* The status a marking step writes.
MarkStatus == [succeed |-> "succeeded", fail |-> "failed"]

\* _mark_succeeded and _mark_failed; refused, the consumer goes on to
\* _mark_cancelled.
Mark(c) ==
    /\ task[c].step \in DOMAIN MarkStatus
    /\ IF MayMark(c)
       THEN /\ row' = [row EXCEPT ![task[c].job] =
                           Unlocked(@, MarkStatus[task[c].step], @.wait)]
            /\ TaskEnds(c)
       ELSE UNCHANGED row /\ TaskTo(c, "cancel")
    /\ UNCHANGED <<cancels, loop, stops>>

\* retry_delay_seconds.
RetryDelay(n) ==
    IF n <= 1 THEN 1 ELSE IF n >= 10 THEN 300 ELSE 2 ^ (n - 1)

\* _release_for_retry.
ReleaseForRetry(c) ==
    /\ task[c].step = "retry"
    /\ IF MayMark(c)
       THEN /\ row' = [row EXCEPT ![task[c].job] =
                           Unlocked(@, "retry",
                                    RetryDelay(task[c].attempt) - task[c].age)]
            /\ TaskEnds(c)
       ELSE UNCHANGED row /\ TaskTo(c, "cancel")
    /\ UNCHANGED <<cancels, loop, stops>>

\* _mark_cancelled.
MarkCancelled(c) ==
    /\ task[c].step = "cancel"
    /\ row' = IF Holds(row[task[c].job], c, task[c].age)
              THEN [row EXCEPT ![task[c].job] = Unlocked(@, "cancelled", @.wait)]
              ELSE row
    /\ TaskEnds(c)
    /\ UNCHANGED <<cancels, loop, stops>>

\* A database error while the outcome is being recorded: only logged.
MarkError(c) ==
    /\ task[c].step \in {"succeed", "fail", "retry", "cancel", "stopped", "release"}
    /\ TaskEnds(c)
    /\ UNCHANGED <<row, cancels, loop, stops>>

\* release_claim_for_shutdown: the SELECT.  The lease may have run out.
ReleaseRead(c) ==
    LET r == row[task[c].job] IN
    /\ task[c].step = "stopped"
    /\ IF r.status = "running" /\ r.owner = c
       THEN task' = [task EXCEPT ![c].step = "release", ![c].left = r.left,
                                 ![c].next = OnLoss(task[c].job)]
       ELSE TaskEnds(c)
    /\ UNCHANGED <<row, cancels, loop, stops>>

\* release_claim_for_shutdown: the WHERE clause of the UPDATE.
ReleaseMatches(c) ==
    LET r == row[task[c].job] IN
    /\ r.status = "running"
    /\ r.owner = c
    /\ r.left = task[c].left
    /\ task[c].job \in cancels <=> task[c].next = "cancelled"

\* release_claim_for_shutdown: the UPDATE.
ReleaseCommit(c) ==
    /\ task[c].step = "release"
    /\ IF ReleaseMatches(c)
       THEN row' = [row EXCEPT ![task[c].job] =
                        AfterLoss(@, task[c].next, ShutdownDelay - task[c].age)]
       ELSE UNCHANGED row
    /\ TaskEnds(c)
    /\ UNCHANGED <<cancels, loop, stops>>

----------------------------------------------------------------------------
(* Stopping, crashing and time.                                            *)

\* stop(): the loop and every running task are cancelled.
Stop(k) ==
    /\ stops < MaxStops
    /\ loop[k].step # "down"
    /\ LoopTo(k, Down)
    /\ task' = [c \in Owner |-> IF c \in Running(k) THEN Interrupt(task[c])
                                ELSE task[c]]
    /\ stops' = stops + 1
    /\ UNCHANGED <<row, cancels>>

\* The consumer's process dies.
Crash(k) ==
    /\ stops < MaxStops
    /\ LoopTo(k, Down)
    /\ task' = [c \in Owner |-> IF c \in Running(k) THEN NoTask ELSE task[c]]
    /\ stops' = stops + 1
    /\ UNCHANGED <<row, cancels>>

\* start(), in the same process once stop() has gathered its tasks or in a
\* new one.
Start(k) ==
    /\ loop[k].step = "down"
    /\ Running(k) = {}
    /\ LoopTo(k, Idle)
    /\ UNCHANGED <<row, cancels, task, stops>>

Later(n, floor) == IF n > floor THEN n - 1 ELSE n

\* Steps of a task and of a loop that wait for the database.
TaskCall == {"finalize", "succeed", "fail", "retry", "cancel", "release"}
LoopCall == {"recover", "renew", "claim"}

\* One second passes; no call takes longer than MaxDbDelay.
Tick ==
    /\ \A k \in Consumer : loop[k].step \in LoopCall => loop[k].age < MaxDbDelay
    /\ \A c \in Owner : task[c].step \in TaskCall => task[c].age < MaxDbDelay
    /\ row' = [j \in Job |->
                  [row[j] EXCEPT !.left = Later(@, RowFloor),
                                 !.wait = Later(@, -MaxDbDelay)]]
    /\ loop' = [k \in Consumer |->
                   IF loop[k].step \in LoopCall
                   THEN [loop[k] EXCEPT !.age = @ + 1, !.left = Later(@, RowFloor)]
                   ELSE loop[k]]
    /\ task' = [c \in Owner |->
                   IF task[c].step \in TaskCall
                   THEN [task[c] EXCEPT !.age = @ + 1, !.left = Later(@, RowFloor)]
                   ELSE task[c]]
    /\ UNCHANGED <<cancels, stops>>

LoopNext(k) ==
    \/ \E j \in Job : RecoverRead(k, j)
    \/ RecoverCommit(k)
    \/ \E c \in Owner : RenewBegin(k, c)
    \/ RenewCommit(k)
    \/ \E j \in Job, c \in Owner : ClaimBegin(k, j, c)
    \/ ClaimCommit(k)
    \/ LoopError(k)
    \/ Stop(k)
    \/ Crash(k)
    \/ Start(k)

TaskNext(c) ==
    \/ LeaseLost(c)
    \/ SeesCancel(c)
    \/ Raises(c)
    \/ Completes(c)
    \/ Finalize(c)
    \/ Mark(c)
    \/ ReleaseForRetry(c)
    \/ MarkCancelled(c)
    \/ MarkError(c)
    \/ ReleaseRead(c)
    \/ ReleaseCommit(c)

Next ==
    \/ \E j \in Job : Submit(j) \/ RequestCancel(j)
    \/ \E k \in Consumer : LoopNext(k)
    \/ \E c \in Owner : TaskNext(c)
    \/ Tick

Spec == Init /\ [][Next]_vars

----------------------------------------------------------------------------
(* The promise the queue implements.                                       *)

\* What the rest of the memory subsystem sees of the table.
Promise == INSTANCE JobLifecycle WITH
    job <- [j \in Job |-> [status |-> row[j].status, owner |-> row[j].owner,
                           attempts |-> row[j].attempts]]

\* Every step of the table is a step of the abstract life cycle: a job is
\* claimed only while it waits, only its holder's claim ends it, it never
\* has more than max_attempts claims, and a terminal job stays as it is
\* (job_claim.py, job_control.py, job_terminal.py).
ImplementsLifecycle == Promise!Spec

----------------------------------------------------------------------------
(* Properties.                                                             *)

\* The three tables have their types, and a row is locked exactly while it
\* runs (locked_by and lock_until are written together with status).
TypeOK ==
    /\ row \in [Job -> Row]
    /\ cancels \subseteq Job
    /\ loop \in [Consumer -> Loop]
    /\ task \in [Owner -> Task]
    /\ stops \in Nat
    /\ \A j \in Job : row[j].status = "running" <=> row[j].owner # None

\* A job that waits to be claimed, or is still to come, has an attempt left, and no job is ever
\* claimed more often than max_attempts allows.  try_claim does not look at
\* max_attempts, so every path back to RETRY has to (recover_expired,
\* release_claim_for_shutdown and _handle_retryable_failure, the last from
\* the claim's own copy of attempt_count).
AttemptsBounded ==
    \A j \in Job : /\ row[j].attempts <= MaxAttempts
                   /\ row[j].status \in Claimable \cup {"absent"} =>
                         row[j].attempts < MaxAttempts

\* An accepted cancel request is never lost: the job it was accepted for is
\* running or cancelled.  A job put back to RETRY with the request still set
\* could never be claimed, recovered or finished, and would keep its record
\* reserved; a job marked SUCCEEDED or FAILED would ignore the request.
CancelIsHonoured ==
    \A j \in cancels : row[j].status \in {"running", "cancelled"}

\* A claim is taken away only after its lease has run out, or by the claim's
\* own task (the locked_by and lock_until conditions of every UPDATE).
ClaimIsFenced ==
    [][\A j \in Job : \A c \in Owner :
          row[j].owner = c /\ row'[j].owner # c =>
              row[j].left < 0 \/ (Live(c) /\ task'[c] # task[c])]_vars

\* What the loops and tasks remember of a claim is still true of the row as
\* long as the row carries that claim's owner id, and an id about to be
\* written by try_claim is nobody else's.
RememberedClaims ==
    /\ \A c \in Owner : Live(c) =>
          /\ task[c].job \in Job
          /\ \A j \in Job : row[j].owner = c =>
                task[c].job = j /\ task[c].attempt = row[j].attempts
          /\ task[c].step = "retry" => task[c].attempt < MaxAttempts
          /\ task[c].step = "release" /\ task[c].next = "retry" =>
                task[c].attempt < MaxAttempts
    /\ \A k \in Consumer : loop[k].step \in LoopCall =>
          /\ loop[k].job \in Job
          /\ loop[k].owner \in Owner
          /\ loop[k].step = "recover" /\ loop[k].next = "retry"
             /\ row[loop[k].job].owner = loop[k].owner =>
                row[loop[k].job].attempts < MaxAttempts
          /\ loop[k].step = "claim" =>
                /\ ~Live(loop[k].owner)
                /\ \A j \in Job : row[j].owner # loop[k].owner
                /\ \A m \in Consumer \ {k} : loop[m].owner # loop[k].owner

\* The inductive invariant: locks, attempts and cancel requests are sound,
\* and so is everything a consumer (_running, claimed_job, the snapshots of
\* recover_expired and release_claim_for_shutdown) will act on later.
QueueInvariant ==
    /\ TypeOK
    /\ AttemptsBounded
    /\ CancelIsHonoured
    /\ RememberedClaims

\* What the event loop and the database guarantee of a consumer that is not
\* stopped: its loop keeps polling, and not every call of it fails; the
\* tasks run; handlers come to an end.
Fairness ==
    /\ WF_vars(Tick)
    /\ \A k \in Consumer :
          /\ SF_vars(\E j \in Job : RecoverRead(k, j))
          /\ SF_vars(RecoverCommit(k))
          /\ SF_vars(\E j \in Job, c \in Owner : ClaimBegin(k, j, c))
          /\ SF_vars(ClaimCommit(k))
          /\ WF_vars(RenewCommit(k))
          /\ WF_vars(Start(k))
    /\ \A c \in Owner : WF_vars(TaskNext(c))

FairSpec == Spec /\ Fairness

\* Every submitted job ends: the attempts are bounded and a claim nobody
\* works on is recovered, across stops, crashes and lost claims.
EveryJobEnds ==
    \A j \in Job : row[j].status # "absent" ~> row[j].status \in Terminal
=============================================================================
