# A TLA+ verification of MonoLight

MonoLight is a self-hosted assistant server: chat sessions answered by language
models, tools that may need the user's confirmation, background tasks, a
long-term memory with a vector store, knowledge bases and message platforms.
Its processes share one database. Nearly everything that can go wrong between
them goes wrong in the same place: a row is claimed under a lease, worked on
outside any transaction, and written back with a conditional UPDATE, while
other processes recover, cancel, merge or reopen the same row. This project
models that core.

Contents: [inventory](#inventory), [modules](#modules), [runs](#runs),
[fairness](#fairness), [proofs](#proofs), [findings](#findings),
[not modelled](#not-modelled), [limits](#limits),
[plan](#plan).

## Inventory

Processes (`src/start.py`) are an API server and workers for roles: general,
session_reply, memory, background_task, terminal and message_platform
(`src/app/workers/`). A role that must run once acquires a lease row first.

| Part | State | Operations | Interacts with | Hard because | Correct if |
|---|---|---|---|---|---|
| **Role leases** `workers/lease.py`, `crud/worker/lease.py` | one row per role: owner id, `lease_until` | acquire (update, insert, update again), renew with retries, stop the callback, force exit, release | every worker | clock readings older than the statement that uses them, a callback that outlives its lease, kills | one owner until the lease is out; bounded overrun; take-over |
| **Memory job queue** `memory_jobs/consumer.py`, `crud/memory/job_*.py` | job rows: status, owner, lease, attempts, cancel request | submit, claim, renew, mark, release, recover, cancel, shutdown | called by the memory service; runs the handlers | zombies, snapshots in the recovery, cancel races | fenced claims, bounded attempts, no lost cancel, every job ends |
| **Memory publication** `memory/service_*.py`, `memory_jobs/handler_*.py`, `vector_cleanup.py` | record versions, reservations, vectors in an external store | create, evict, update, delete, resume, publish, undo, clean up | claims from the job queue, vector store outside the transactions | a crash or lost claim between vector and record | what is recalled has its vector; one job per record; capacity; no forgotten vector |
| **Session reply queue** `session_reply_queue/`, `crud/session/reply_work_item.py`, `external_work.py` | work rows with sequence numbers, frozen inputs, slots for background results | enqueue, claim, freeze and merge, stream, run tools, suspend, wake, reopen, fail, recover, cancel | dispatchers, audit, background tasks | the order of a session against retries and wake-ups; side effects that must not be repeated | one reply at a time, each message once, confirmed tools once, outcome told, nothing waits for ever |
| **Startup cleanup** `run_startup_cleanup`, `background_tasks/recovery.py` | a marker with the owner that cleaned | clear tasks, waiting works, audit executions of an earlier run | two role leases | crash between cleanup and marker | cleaned once per start, never under a running worker |
| **Background tasks** `background_tasks/`, `crud/task/background.py` | task rows with a run claim and a reply claim | submit, claim, start, finish, time out, release, requeue, cancel, clear, reply | reply queue, audit, terminal watches | two claims on one row, a late runner beside a retry, task and audit in two transactions | audited work not repeated, task and attempt tell the same end, every task ends, a result is told |
| **Audit** `audit/`, `crud/audit/` | records, confirmation claims, execution tokens, attempts | prepare, offer, confirm, reject, expire, supersede, claim, attempt, finish, re-audit, mark unknown, recover | reply queue, background tasks, terminals | decision against expiry, stop and recovery; three parts finish one round | a tool call runs at most once, the record is true and final, a card can be answered, no round is left executing |
| **Terminal sessions** `terminal/`, `crud/terminal/session.py` | session and command rows, watches, a shell process | create, claim, start, serve, command, close, exit, finalize, settle, recover, shut down | audit, reply queue | worker death at any step, a lease lost while the shell lives on | session and attempt agree, a command is started once and answered, nothing of a lost worker survives |
| **Subagents** `child_*.py`, `crud/session/subagent.py` | rounds of child works, calls of parents | start, deliver, cancel, recover | reply queue, twice | parent and child in different sessions | a parent is woken once per round |
| **Scheduler** `background_tasks/scheduler.py` | next run of each schedule | dispatch, skip, disable | reply queue | two schedulers on a due row | one trigger per due time |
| **Outbox** `crud/message_platform/outbox.py` | event rows with a lease | enqueue, claim, send, retry | message platforms | lost claims | delivered at least once, bounded attempts |
| **Knowledge jobs** `knowledge_jobs/`, `crud/knowledge/` | job rows with parents, collections | as the memory jobs, collection switch | vector store | switch against late jobs | readers see one whole collection |

The other parts (dispatchers, tools, transformers, providers, channel routing,
retrieval, users and profiles, HTTP API, schemas, migrations, dashboard) convert
data, call external services or edit rows one request at a time; they are listed
in `PROJECT.json` with the reason they are left out. So are the hazards, each at
its line, with the properties that would notice it going wrong; those of parts
that are still to be modelled name the module of the plan.

## Modules

| Module | Models | Used by |
|---|---|---|
| `WorkerLease`, `MCWorkerLease`, `WorkerLeaseProofs` | role leases | |
| `JobLifecycle` | what a memory job promises to the code around the queue (abstract) | implemented by `MemoryJobQueue`, assumed by `MemoryPublication` |
| `MemoryJobQueue`, `MCMemoryJobQueue`, `MemoryJobQueueProofs` | job rows and consumers | |
| `MemoryPublication`, `MCMemoryPublication`, `MemoryPublicationProofs` | service, handlers, record table, vector store | |
| `SessionReplyQueue`, `MCSessionReplyQueue`, `SessionReplyQueueProofs` | work rows, executors, sweep, ends of background tasks, for one session | |
| `AuditRound`, `AuditRoundProofs` | one audit record with its attempts, the UPDATEs of `crud/audit` on it as operators, and the life of a round | the four modules below |
| `AuditLifecycle` | what the parts that write audit records promise each other (abstract) | implemented by the three below |
| `AuditExecution`, `MCAuditExecution`, `AuditExecutionProofs` | audit, confirmation and foreground execution of tool rounds | assumes `SessionReplyQueue` |
| `BackgroundTask`, `MCBackgroundTask`, `BackgroundTaskProofs` | task rows, runners, manager, the reply that handed tasks over | |
| `TerminalSession`, `MCTerminalSession`, `TerminalSessionProofs` | session and command rows, runtimes, coordinators | |

Operators whose comment begins with "Mutant" (`HoldsAnyOwner`,
`FinishAnyway`, ...) are plausible bugs; no specification uses them. They are
named under "mutants" in `PROJECT.json` and show that each checked property
depends on the code it is about.

**A database statement is an atomic step; what the code reads before it is a
step of its own.** The code reads the database clock, or selects rows, and
updates later. Between the two anything may happen; the UPDATE's WHERE clause
is the guard of the second step.

**Time** is relative in `WorkerLease` and `MemoryJobQueue`: a lease is the number
of seconds left, `Tick` counts it down, and a lease or wait further in the past
than any clock reading in use is not told apart (`RowFloor`). `MaxDbDelay` is
the longest time between a clock reading and the UPDATE that uses it. A call
whose deadline is near must be taken before time passes (`MayWait`); the loops
of the job consumers have no such deadline and may be late by any amount. In
`SessionReplyQueue`, `BackgroundTask` and `TerminalSession` only "the lock has run
out or not" is kept, and in `MemoryPublication` a claim may be lost at any moment, which `MemoryJobQueue`
justifies.

### WorkerLease

`rowOwner` and `rowLeft` are the row. A process has a `phase`: the acquisition
loop (idle, update, insert, reupdate, backoff), the callback (owned), its stop
(grace: asked to stop, cancel: cancelled), release and exited; beside it the
`renewal` task waits, has a call in flight or pauses before a retry. Actions are
named for the branches of `_acquire_worker_lease`, `_maintain_worker_lease`,
`_stop_owned_worker`, `_cancel_owned_worker` and `run_with_worker_lease`.
`Crash` and `Restart` stand for the end of the process at any point and for the
supervisor in `start.py`.

### MemoryJobQueue

`row` is the table, `cancels` the jobs with `cancel_requested_at`, `loop` what each
consumer's polling loop has read and is about to write (recover, renew, claim),
`task` the `_run_claimed` task of each claim with the outcome it is about to mark.
A task goes on after its claim is lost, until a statement of it is refused or
the consumer cancels it. Stops and crashes are bounded by `MaxStops`. Protected
jobs, which cannot be cancelled, are a parameter. Which operation a job carries
out, and the delays' exact growth, do not matter here.

### MemoryPublication

For one user. `job`, `record` and `items` (the vector store) are the persistent
state, `task` the handler of each claim, `asking` the calls of `request_cancel`
between their read of `memory_id` and their UPDATE. A publication stages its
vector under an id made of request, version and claim, publishes the record and
ends the job in one transaction, and leaves a cleanup job for what it superseded;
the `finally` block that undoes a staged vector checks the claim and deletes
later. Not told apart: contents, which record is evicted (any evictable one),
memory keys and their unique index, pins. A commit is not interrupted halfway
(`CancellationSafeAsyncSession`), and a vector call that was started is waited for
(`_to_thread_and_wait`). The limit of the store is taken to be the configured one.

### SessionReplyQueue

One session. `row` has status, sequence number, owner, attempts, frozen input and
the slots of background results; `log` what else is saved about a work (stream
events, saved answer, error message, processed message, ...); `exec` the executor
of each claim, `sweep` the recovery of expired rows between its reads and its
writes; `tool` and `notices` the background tasks and the notices that resume a
waiting work. The turns of the model are one phase in which an executor may
stream, bind an audited tool, absorb newer messages, start background tasks,
fail or conclude, in any order. Faults (crash, late renewal, error, stop request,
lost notice) are counted by `MaxFaults`; that the lock of an abandoned row runs out
is not a fault.

Abstracted: skip_reply, reply owners, the actor boundaries of merging, the
capacity for agent work, checkpoints' contents. A consumer does not claim what
it is running itself (`exclude_work_ids`); the model allows it, which only adds
behaviours. A task launched by an attempt that dies before it suspends is not
adopted by the next attempt.

### AuditRound and AuditLifecycle

Three parts write the same audit round, each in transactions of its own: the
executor of a reply, the runner of a background task and the runtime of a
terminal. A round is a value in all three modules (status, execution token, one
attempt per tool call), and `AuditRound` has one operator for each conditional
UPDATE; an operator whose WHERE clause finds no row returns the round unchanged.
`AuditLifecycle` is what the three may assume of each other: a record is
decided, claimed under one token, gets attempts, the attempts end once each, and
the record ends when none is running, with a status that its attempts bear out.
The relations that say so of one round before and after a step (`LifeStep`,
`Ending`, ...) stand in `AuditRound`, where the lemmas on its operators can name them;
`AuditLifecycle` is the specification made of them.
Each of the three modules has `Life == INSTANCE AuditLifecycle` and is checked to
take only its steps; the two with a single round instantiate it with one record.

### AuditExecution

One chat session. `round`, `claims` (confirmation claims) and `ready` (queued works of
confirmed rounds) are tables. `exec` is the executor of a work: it audits a round
(`Supersede`, `Close`, `Create`, `Audited`, `Offer`, `Absorb`), executes it (`ClaimPassed`,
`CreateAttempts`, `Bind`, `StartTool`, `ToolEnds`, `Finish`) or executes a confirmed one
(`SourceValid`, `FilesChanged`, `Retire`, `Reshow`, then the same). Every transaction is a
step. User messages read the current confirmation (`Submit`) and act on it later
(`Approve`, `Reject`, `OtherText`), several at a time. An executor in `lost` has been
swept or stopped and goes on until a fenced statement refuses it. `ran` counts
starts of tools; no statement of the code reads it. The auditor's conclusion is
any of the four, and whether files have changed since the audit is a choice.

### BackgroundTask

One reply with an audited round: call 0 runs in the reply, the calls in `Audited`
are tasks; tasks in `Origin` resume the reply, the others are answered by a work
of their own. `runner` is `run_background_task` per task and claim, so that the
runner of an expired claim goes on beside its successor, also across processes
(`old`: runners of a process that lost its role and has not noticed). The
interrupted reply reads which tasks are active (`ReadActive`) and marks the other
attempts later (`MarkInterrupted`). A task and its attempt are written in one
transaction, except by a runner that lost its lease (`AuditFirst`, `TaskThen`).

### TerminalSession

One session row, its control commands, the round whose attempt `Shell` stands for
the session, and workers that may overlap. `pc` is the runtime task of a worker,
`coord` its coordinator; `local` is the status the runtime believes in, which is not
the row's after a lost lease. `alive` are the shells. The steps follow
`TerminalSessionRuntime.run`: initialize, serve, natural exit or close, finalize,
release, settle, each a transaction or an await. `rowlock` is the row lock that
`_initialize` holds while it starts the shell. Closing the shell may fail with all its
repetitions (`CloseFails`: after a failed start, a failed wait, a close command and at
the end of the runtime), each time as a fault of its own; the status is written and the
claim released all the same, and the shell may live on. `handed` counts the shutdowns
that released the session STARTING. Sessions without an audit skip the
audit statements and are not modelled apart.

## Runs

| Run | Checks | Instance, distinct states |
|---|---|---|
| `lease` | `LeaseExclusive`, `OverrunBounded`, `LeaseInv`, `LiveLeaseKept`, `Failover` | 2 processes, 3 owner ids, lease 5 s, all timeouts and delays 1 s; 64,372 |
| `lease_exclusion` | `RoleExclusive` is violated | the code's timings divided by 5 (lease 12, renew 2, safety 1, stop 2 + 1), no database delay |
| `jobs` | `AttemptsBounded`, `CancelIsHonoured`, `QueueInvariant`, `ClaimIsFenced`, `ImplementsLifecycle`, `EveryJobEnds` | 1 job, 1 consumer with 2 tasks, 2 owner ids, 2 attempts, delay 0, 2 stops; 12,009 |
| `publication` | `PublishedItemIsStored`, `ReservationIsMutual`, `CapacityKept`, `HiddenCanBeLifted`, `SupersededIsCollected`, `PublishedByItsClaim` | 2 requests, 2 attempts, capacity 1, 2 faults; 312,425 |
| `publication_placeholder` | `NoStrandedPlaceholder` is violated | 1 request, 2 attempts |
| `replies` | `ConfirmedOnce`, `OutcomeIsTold`, `OneReplyAtATime` | a confirmed round, a summary and a reply; 1 task, 2 faults; 938,472 |
| `replies_live` | `EveryInputOnce`, `EndedStaysEnded`, `EveryWorkSettles`, `WaitingEnds` | 2 replies, 1 task, 1 fault; 98,806 |
| `replies_freeze` | `FreezeFindsItsMessage` is violated | 2 replies, 1 task, no fault |
| `audit` | `RunsOnce`, `RecordIsTrue`, `CardCanBeAnswered`, `NoOrphanedRound`, `ImplementsAuditLifecycle`, `RoundEnds` | 2 records of 2 calls, 2 executors, 2 messages at a time, 1 fault; 300,760 |
| `audit_reaudit` | `ReshownCanBeAnswered` is violated | 2 records of 1 call, 1 executor, no fault |
| `background` | `TaskMatchesAttempt`, `ExecutedOnce`, `TasksKeepAuditLifecycle`, `TaskEnds`, `ResultIsTold` | an audited origin task, a free task, a call of the reply; 2 attempts, 2 faults; 209,510 |
| `terminal` | `AttemptMatchesSession`, `StartedOnce`, `SessionKeepsAuditLifecycle`, `CommandEnds`, `OrphanEnds` | 1 session, 1 command of any kind, 2 workers, another call, 2 faults; 261,533 |

What the three runs about audited tools say. `audit`: whatever is confirmed twice, expired,
superseded, stopped, swept or restarted, a tool call is started at most once
(`RunsOnce`); a rejected or cancelled call was not started and one with a result
was (`RecordIsTrue`); the card on the screen has the one claim that lets it be
answered (`CardCanBeAnswered`); an executing round always has somebody who will
end it (`NoOrphanedRound`, `RoundEnds`). `background`: the run claim and the audit
fence of `mark_execution_started` together keep audited tools from a second
execution while ordinary tasks are retried beside their late runners; row and
attempt never contradict each other. `terminal`: the same of the session row,
which is recovered and not restarted (`StartedOnce`: only a shutdown that releases it
STARTING allows one more start), of its commands and of its recorded process. `OrphanEnds`
says nothing of the process of a deleted row, which is not recorded any more. The last
disjunct of `CommandEnds` takes a final session without an owner for an answer, so that
the property bites where a session is settled, and not at a release that leaves commands
as they are. In `replies_live` two works never merge into one that is merged already;
that chain is covered by the theorem `MessagesAreAnsweredOnce`.

Why these bounds. Two processes, consumers or executors are what an overlap
takes; the third owner id of the lease is there for the one that comes after both. Every
protocol compares a row with one remembered claim, so a second job adds only
independent behaviour (in `MemoryPublication` requests do meet on records, hence
two). Two attempts have a first that is lost and a last that must end
the job. No job of the runs is protected from cancellation: that branch only drops
steps, and the theorems cover it, as they cover several consumers and stale clock
readings. Capacity 1 makes every second create an eviction. Two audit records are
a card and the round that supersedes it, or a confirmed round and its re-audit;
two calls make a round that is half done. A free and an audited task are the two
ways an expired task can go; a call beside them keeps the round open when they
end. Two faults are a failure and a failure of its handling. In the `audit` run
one is enough for that: losing the work is followed by its handler without a
second fault, and the sweep is a separate actor.

Where a cfg says `CHECK_DEADLOCK FALSE` the inputs are finite: when all
requests or messages have been dealt with, nothing is left to do. The lease and
job modules have clocks, and deadlock is checked there. Symmetry is used for
claim ids, consumers and requests, which are only compared for equality, and
never in a run with a liveness property.

With the bounds of the runs the branches of `Prepare`, `Publish` and `Finalize`
that fail a job for good because its record is not the one it reserved are not
reached: `ReservationIsMutual` says why.

## Fairness

- `WorkerLease`: time passes and is not stopped by infinite activity within a
  second (strong fairness of `Tick`); not every acquisition statement fails for
  ever (strong fairness of `AcquireUpdate`, which an error may disable again and
  again); the timers and tasks of the event loop run (weak fairness). Nothing is
  assumed of callbacks: they need not end, `ForceExit` ends them.
- `MemoryJobQueue`: time passes, tasks proceed and handlers end, a stopped
  consumer is started again (weak); the recovery and the claim of a polling loop
  get through although renewals and failing statements come in between (strong:
  each iteration of `_run_loop` tries again, so only a database that refuses
  every time would starve them).
- `SessionReplyQueue`: weak fairness of each executor, of the claim, of the sweep,
  of `reconcile_external_work` and of the end of background tasks, which have
  timeouts. Each is a polling loop or a task of a live process. Nothing is assumed
  of notices: a lost one is made good by reconciliation.
- `AuditExecution`: weak fairness of each executor (a task of a live process whose
  tools have timeouts, and which meets its fence once its work is lost), of the
  claim of queued works and of the sweep. Users need not answer, and nothing is
  assumed of expiry.
- `BackgroundTask`: weak fairness of the reply's own steps, of each runner, of the
  manager's polling loop for each task, and of the passing of time for a row whose
  runner is gone. A lease with a live runner runs out only by a fault.
- `TerminalSession`: weak fairness of each runtime, of each coordinator (which the
  launcher restarts), of the other calls of the round and of the passing of time
  for a claim nobody renews. A shell need not exit and a command need not be sent.

## Proofs

The eight `...Proofs` modules prove every invariant and every action property that a
passing run checks, and the four refinements, for every value of the constants: any
number of processes, jobs, works, rounds, calls, attempts and faults, and all timings.
What TLC shows on an instance (`Runs`) was there first; each inductive invariant was
checked by TLC as an invariant before it was proved. Each assumption is one of the
named ASSUMEs of the module proved about, which say that identifiers are numbers
where they are compared, that "nobody" is no identifier, and that bounds are
numbers; TLC evaluates them in each run.

The invariants are built alike. A property of a row is never inductive on its own,
because somebody has read the row and will write it. So each adds, for every such
reader, what it knows *as long as its claim stands*; the UPDATE that compares the
owner, the token or the status is then what makes the write lawful, and a step of
anybody else keeps the knowledge or takes the claim away.

**WorkerLeaseProofs**, from `TimingAssumption` and `OwnerAssumption` (timings are
numbers, the renewal interval and the safety margin together are shorter than the
lease; `NoOwner` is no owner id).
`LeaseExclusive` is not inductive: a process may run because it was granted a
lease it believes in, while the row is another's. `LeaseInv` adds that owner ids
are unique, that a process whose lease has not run out *is* the owner in the row
with exactly the remaining time that its own count implies, that the renewal
task fits the phase, that no timer passes its timeout, and how old a lease can be
in each step of renewal and stop (`LeaseAge`). From it:
`LeaseInvariance`, `LeaseIsExclusive`, `OverrunIsBounded` (by
`RetryInterval + 2 MaxDbDelay + ShutdownTimeout + CancelTimeout - RenewSafety - 1`
seconds), `LiveLeaseIsKept`, and `ExclusiveIfStopFits`: if that bound is not
positive the role is exclusive. The last is the repair of the first finding: a
safety margin at least as long as retry pause, two statements and stop path.

**MemoryJobQueueProofs**, from `JobQueueAssumption`. `AttemptsBounded` and
`CancelIsHonoured` depend on what the consumers remember: a recovery decides
"retry" from a snapshot, a task marks an outcome from its own copy of
`attempt_count`. `RememberedClaims` says that such a memory is true of the row
for as long as the row still has the owner it was read with, which is what the
WHERE clauses compare, and that an id about to be written is nobody else's.
`QueueInvariant` is the conjunction and is inductive. From it:
`QueueInvariance`, `AttemptsAreBounded`, `CancelRequestsAreHonoured`,
`ClaimsAreFenced` (an action property) and `QueueImplementsLifecycle`: with status,
owner and attempts of each row for `job` and the cancel requests as they are, the
queue implements `JobLifecycle`. One lemma per action shows which abstract step,
or stutter, it is.

The type invariants of these two modules are conjuncts of `LeaseInv` and
`QueueInvariant` and are proved with them; in the other modules they have a theorem
of their own. That an accepted cancel request takes effect is not a property of its
own: `CancelIsHonoured` keeps the request and `EveryJobEnds` ends the job.

**MemoryPublicationProofs**, from `PublicationAssumption` and `NullAssumption`.
`PublicationInv` has three parts beside the types. `TablesFit` (`JobFit`, `RecordFit`)
relates jobs and records: reservations are mutual, a version is named by the job that
will publish it, and which vectors a cleanup job may delete. `TaskFit` is what a
handler knows while it holds its claim: the record it read, the version it will
publish, the vector it staged. `ItemsFit` says of each stored vector that it is
published, on its way in, or somebody's to delete. A lemma per action shows what the
actor writes, and one for all actions (`Step`) that the handlers that take no part
keep what they know. From it `PublicationStaysFit`, `TablesHaveTheirTypes`,
`RecalledItemsAreStored`, `NoPublishedItemIsForgotten`, `ReservationsAreMutual`,
`CapacityIsNeverExceeded`, `HiddenMemoriesCanBeLifted` and
`VersionsComeFromTheirClaims` (an action property).

**SessionReplyQueueProofs**, from `ReplyAssumption`. `ReplyInv` consists of
`RowFit` (a reply that has begun has frozen its own message; the tools of a confirmed
work that no task has resumed and that waits to be claimed have not run; an end has
its message), `OrderFit` (sequence numbers are allocated once, and the running row is the first), `InputsFit`
(frozen inputs are disjoint and are exactly the processed messages), `ExecFit` and
`SweepFit`: what an executor knows of its work at each step, some of it only while its
claim stands. That confirmed tools run once needs the last: a work is claimed, its
executor is swept, and only because the sweep never returns a confirmed work to the
queue is `ran = 0` true of whoever holds it before its tools start. `Steady` is what
each step keeps for all other executors. From it `RepliesStayFit`, `RepliesAreTyped`
(attempts stay bounded although `claim_next` does not look at them),
`RepliesRunInOrder`, `MessagesAreAnsweredOnce`, `ConfirmedToolsRunOnce`,
`EveryOutcomeIsTold` and `RepliesStayEnded` (an action property).

**AuditRoundProofs** has no specification: its lemmas say of each operator of
`AuditRound`, that is of each UPDATE of `crud/audit`, that it takes a lawful round
(`Lawful`: attempts, token and status fit each other) to a lawful one by a step of the
round's life. The three modules below cite them, which makes the three refinements of
`AuditLifecycle` short.

**AuditExecutionProofs**, from `AuditAssumption`. `ExecutionInv` relates each record,
its token and the starts of its tools (one token per claim, from `issued`), and says
that a record has one holder, an executor or a queued work, and how far that holder
has come (`HoldersFit`); from it `TypeCorrect`, `ToolsRunOnce` and `RecordsAreTrue` (no
call ends as cancelled once it was started, and one with a result was). Two further
invariants are built on it: `CardInv` (one live executor; the session's one confirmation claim is that of a pending
record, and gone before the next card is made) for `CardsCanBeAnswered`, and
`OwnedInv` (an executing round with attempts is an executor's, in hand or bound, or the
sweep's that took it) for `RoundsHaveAnOwner`. `KeepsLifecycle` is the refinement.

**BackgroundTaskProofs**, from `BackgroundAssumption`. `TaskInv` counts claims, starts
and faults of a task against each other (a start needs a claim of its own, a second
claim a fault), relates row and attempt (`Tells`), and says what the interrupted
reply's list of active tasks is still good for when it marks the others (`MarkFit`).
From it `TasksHaveTheirTypes`, `TasksAndAttemptsAgree`, `TasksExecuteOnce` (an action
property) and the refinement `TasksKeepTheRound`.

**TerminalSessionProofs**, from `TerminalAssumption`. That the row never
goes back is a lemma about every step (`RowGoes`). `SessionInv` says that a runtime
knows of an end only after the row does (`RuntimeFit`), that row and attempt tell the same (`Tells`), and that a session which
waits for a start, without an owner or in the hand of one that has not tried yet, was
started no more often than shutdowns have handed it back (`StartFit`). From it
`SessionHasItsType`, `SessionAndAttemptAgree`, `SessionStartsOnce` and the refinement
`SessionKeepsTheRound`.

Only model-checked: the liveness properties (`Failover`, `EveryJobEnds`,
`EveryWorkSettles`, `WaitingEnds`, `RoundEnds`, `TaskEnds`, `ResultIsTold`, `CommandEnds`,
`OrphanEnds`), which with fairness and ENABLED are out of this prover's reach. The
properties of the four runs that expect a violation are false, so there is nothing
to prove of them.

## Findings

1. **A role may run twice** (`lease_exclusion`; `workers/lease.py:99`). README and
   ARCHITECTURE promise mutual exclusion of the leased roles. Renewal is retried
   until 5 s before the lease is out, the stop of the callback may take 15 s more.
   `OverrunIsBounded` says by how much, `ExclusiveIfStopFits` what would repair it.
   The job queue therefore assumes overlapping consumers.
2. **A cancelled create may leave its placeholder** (`publication_placeholder`;
   `crud/memory/job_control.py:226`). `request_cancel` clears the reservation with the
   `memory_id` it read before its UPDATE; if the placeholder was made in between, it
   stays, reserved for a job that has ended.
3. **A woken reply can fail another one** (`replies_freeze`;
   `session_reply_queue/manager_freeze.py:72`). A suspended reply that is woken gets a
   sequence number behind a reply that is claimed and not yet frozen; its message is
   already processed, so the freeze of the other one counts one message too few
   and raises "No unprocessed foreground messages are available".
4. **A re-audited card cannot be answered** (`audit_reaudit`;
   `session_reply_queue/executor_confirmed.py:449`). When files have changed since a
   round was confirmed, it is audited again; if that asks for a confirmation
   again, the new card is saved without a confirmation claim. Both the look-up of
   the current confirmation and the claim for execution join on it, so "approve"
   is taken for ordinary text and the record stays PENDING until it expires.

Observed without a run:

- With `MaxDbDelay = 1` in `MemoryJobQueue`, a mark whose clock reading is stale is
  refused, `_mark_cancelled` follows, and with a renewal in between the job ends
  cancelled although nobody asked.
- The sweep of expired replies reads stream events and updates later
  (`crud/session/reply_work_item.py:1053`); a late but live executor of another
  process can publish in between, so that a reply the user has seen is run again.
- A staged vector that was never published may stay in the store when its undo
  fails or a later attempt overwrites the staged reference; no reader sees it.
- A reply whose final message is saved when its process dies before the row is
  marked gets an error message as well. `fail_session_reply_work` sets the reply
  status of the background task to FAILED even if the mark of the row is refused.
- `mark_work_audit_execution_unknown` reads which tasks and terminals are active and
  marks the other attempts later. If the last of them ends in between, nobody
  completes the round: it stays EXECUTING until the next start. So does a passed
  round that is claimed in the very step in which its executor is cancelled; nothing
  of it has run.
- An audited task that is PENDING when its round becomes unknown is passed over by
  `list_pending` and `try_claim` and is only ended by the next start (`TaskEnds` says
  so).
- A shutdown releases a STARTING terminal session whose start was refused, and the
  next worker starts the command again (the one more start in `StartedOnce`). A crash
  between the start of a shell and the commit that records it leaves a process
  nobody knows of.
- A terminal session whose shell could not be closed ends FAILED, without an owner, while
  the shell lives on. Recovery looks at active sessions only; a close request for the
  session or the deletion of its row kills the shell by its recorded identity.
- If the lease of a terminal runs out between the two transactions of
  `_finalize_after_run`, its commands stay PROCESSING and their callers run into
  their timeouts (the last disjunct of `CommandEnds`).

## Not modelled

- Of the modelled parts: the marker by which `run_startup_cleanup` decides which
  worker cleans (its effects are actions of `BackgroundTask`, `AuditExecution` and
  `TerminalSession`); the step of that cleanup that fails the tasks of rounds that have
  ended (`fail_tasks_for_terminal_audits`, `crud/task/background.py:1158`: its attempts
  have ended before); terminal watches and output buffers; deletion of tasks with
  their session; `crud/task/interrupted.py`; agent works and `skip_reply` in the reply
  queue; idempotent submission. `try_claim_reply`, `renew_reply_lease`,
  `release_reply_claim` and `complete_reply_claim` of `crud/task/background.py` have no
  caller, so that `recover_expired_replies` never finds a row.
- Subagents add a parent that waits for works in other sessions: two instances of
  `SessionReplyQueue` at once, beyond what TLC can enumerate with its present state.
- Scheduler, outbox and knowledge jobs are leased queues of the kind
  `MemoryJobQueue` and `BackgroundTask` already cover; they come after the proofs.
- Memory organization, embedding migration, context summaries, retrieval and
  channel routing compute with texts, vectors and weights; what matters to the
  queues about them is whether they ran.
- Dispatchers, tools, transformers and providers convert data and call external
  services; API, users, profiles, schemas, migrations and dashboard edit rows one
  request at a time or once.

`PROJECT.json` lists every part with its reason. The map covers under a tenth of the
implementation's lines: the rest is mostly provider formats, request handling,
tools and texts, which have no protocol to check.

## Limits

- One session, one user, one role at a time: the rows of different ones meet only
  in shared limits, which are left out.
- The database is taken to be serializable per statement and durable; SQLite's
  locking shows as failing or delayed statements.
- The three data structures outside the database, model answers, vector values
  and terminal output, are abstracted to whether they are there.
- Bounded: everything in the runs table; the theorems have no bounds.

## Plan

1. *(done)* `WorkerLease`, `MemoryJobQueue` with `JobLifecycle`, `MemoryPublication`,
   `SessionReplyQueue`; theorems of the first two.
2. *(done)* `AuditRound` and `AuditLifecycle`; `AuditExecution`, `BackgroundTask` and
   `TerminalSession`, each shown by TLC to keep the life cycle.
3. *(done)* Theorems of `MemoryPublication`, `SessionReplyQueue`, `AuditExecution`,
   `BackgroundTask` and `TerminalSession`, and the lemmas on `AuditRound` that the last
   three share: every safety property of the runs is proved.
4. `StartupCleanup` over two leases, composed with the promises of `WorkerLease`;
   `Outbox` and the scheduler as small lease modules; terminal watches beside
   `TerminalSession`; the collection switch of the knowledge jobs; subagents as an
   extension of `SessionReplyQueue` to two sessions.

New modules get one run that checks safety and liveness together where the state
space allows it, and the runs above are merged rather than multiplied.
