----------------------------- MODULE BackgroundTask -----------------------------
(***************************************************************************)
(* Background tasks: tool calls a reply hands over to the background worker *)
(* (background_tasks/manager.py and runner.py, crud/task/background.py).    *)
(*                                                                          *)
(* One reply has an audited tool round in execution; the round's tool call  *)
(* 0 runs in the reply itself, the calls in Audited become tasks. Tasks in  *)
(* Origin resume the reply that made them (SessionReplyQueue), the others   *)
(* get a reply of their own. A task row and its audit attempt are written   *)
(* in one transaction; the runner, the lease sweep, the user, the startup   *)
(* cleanup and the reply's own error handling all write them.               *)
(*                                                                          *)
(* Abstracted: arguments and results, profiles and their concurrency limit, *)
(* terminal watches, and time: a lease may run out when its runner is late  *)
(* or gone. A claim is named by the attempt_count it set, as worker ids are *)
(* fresh.                                                                   *)
(***************************************************************************)
EXTENDS AuditRound

CONSTANTS
    Tasks,          \* ids of background tasks, a set of positive numbers
    Audited,        \* tasks bound to an attempt of the round; the attempt has their id
    Origin,         \* tasks with an origin_work_id
    MaxAttempts,    \* max_attempts of requeue_expired_running
    MaxFaults       \* bound on crashes, late renewals, errors and requests to stop

ASSUME BackgroundAssumption ==
    /\ Tasks \subseteq Nat \ {0}
    /\ Audited \subseteq Tasks /\ Origin \subseteq Tasks
    /\ Tools = Audited \cup {0}
    /\ MaxAttempts \in Nat \ {0} /\ MaxFaults \in Nat

VARIABLES
    row,            \* the table background_task
    lapsed,         \* RUNNING rows whose lock_until has passed
    round,          \* the audited round of the reply
    reply,          \* the reply that runs the round
    spared,         \* tasks mark_work_audit_execution_unknown found active
    runner,         \* run_background_task, per task and claim
    old,            \* runners of a process that has lost the worker role
    work,           \* the queued reply work of a finished task
    ran,            \* how often the tool of a task was executed
    faults

vars == <<row, lapsed, round, reply, spared, runner, old, work, ran, faults>>

-----------------------------------------------------------------------------
(* State *)

Claims == 1 .. MaxFaults + 1

Active == {"pending", "running"}

\* tries: attempt_count.
Row == [status: Active \cup {"absent", "succeeded", "failed", "cancelled"},
        tries: {0} \cup Claims,
        reply: {"none", "pending", "running", "succeeded", "failed"}]

\* The token the round is executed under.
Token == 1

TypeOK ==
    /\ row \in [Tasks -> Row]
    /\ lapsed \subseteq {b \in Tasks : row[b].status = "running"}
    /\ round \in Round
    /\ reply \in {"live", "waiting", "interrupted", "marking", "over"}
    /\ spared \subseteq Audited
    /\ runner \in [Tasks -> [Claims -> {"gone", "claimed", "starting", "executing", "unknown",
                                        "untold", "releasing"}]]
    /\ old \subseteq Tasks \X Claims
    /\ work \in [Tasks -> {"none", "queued", "ended", "cancelled"}]
    /\ ran \in [Tasks -> 0 .. MaxFaults + 1]
    /\ faults \in 0..MaxFaults

Init ==
    /\ row = [b \in Tasks |-> [status |-> "absent", tries |-> 0, reply |-> "none"]]
    /\ lapsed = {}
    /\ round = [status |-> "executing", token |-> Token, attempts |-> [t \in Tools |-> "running"]]
    /\ reply = "live"
    /\ spared = {}
    /\ runner = [b \in Tasks |-> [k \in Claims |-> "gone"]]
    /\ old = {}
    /\ work = [b \in Tasks |-> "none"]
    /\ ran = [b \in Tasks |-> 0]
    /\ faults = 0

Fault == faults < MaxFaults /\ faults' = faults + 1

\* status = RUNNING and locked_by = the worker of claim k.
Owns(b, k) == row[b].status = "running" /\ row[b].tries = k

\* ... and lock_until >= now.
Holds(b, k) == Owns(b, k) /\ b \notin lapsed

\* The values that end a task: the claim is cleared, and a reply is due if auto_reply.
Ended(b, s) ==
    [row[b] EXCEPT !.status = s, !.reply = IF s = "cancelled" \/ b \in Origin THEN "none" ELSE "pending"]

\* The update of a row; a claim sets locked_by and lock_until, all else clears them.
SetRow(b, r) == row' = [row EXCEPT ![b] = r] /\ lapsed' = lapsed \ {b}

Goto(b, k, pc) == runner' = [runner EXCEPT ![b][k] = pc]

\* A task that must not be executed twice.
NoRetry(b) == b \in Audited \cup Origin

tasks == <<row, lapsed>>
foreground == <<reply, spared>>

-----------------------------------------------------------------------------
(* The audited round *)

\* What mark_execution_unknown asks of the audit, or it rolls the task back: the
\* attempt can be marked now, or it and its record are marked already.
AuditUnknown(b) ==
    \/ b \notin Audited
    \/ MayFinish(round, b)
    \/ round.attempts[b] = "unknown" /\ round.status = "unknown"

\* mark_execution_unknown of claim k: the task fails and the round is marked with it.
MarkUnknownTask(b, k) ==
    IF Owns(b, k) /\ AuditUnknown(b)
    THEN /\ SetRow(b, Ended(b, "failed"))
         /\ round' = IF b \in Audited THEN MarkAttemptUnknown(round, Token, b) ELSE round
    ELSE UNCHANGED <<row, lapsed, round>>

\* The tasks of the session, or all tasks at startup, are cancelled: PENDING ones with
\* their attempts, then RUNNING ones, whose round becomes unknown.
RoundAfterClear ==
    LET pending == {b \in Audited : row[b].status = "pending"}
        running == {b \in Audited : row[b].status = "running"}
        x       == FinishAttempts(round, pending, "cancelled")
        y       == IF x = round THEN x ELSE FinishIfComplete(x, Token)
    IN  IF \E b \in running : y.attempts[b] = "running" THEN MarkUnknown(y, Token) ELSE y

ClearedRow(b) ==
    CASE row[b].status \in Active -> Ended(b, "cancelled")
      [] row[b].status \in {"succeeded", "failed"} /\ row[b].reply \in {"pending", "running"} ->
             [row[b] EXCEPT !.reply = "none"]
      [] OTHER -> row[b]

Cleared ==
    /\ row' = [b \in Tasks |-> ClearedRow(b)]
    /\ lapsed' = {}
    /\ work' = [b \in Tasks |-> IF work[b] = "queued" THEN "cancelled" ELSE work[b]]

-----------------------------------------------------------------------------
(* The reply *)

\* submit, behind the fence of the reply's claim. A bound call must still be in
\* execution; otherwise the round is broken off.
Submit(b) ==
    /\ row[b].status = "absent" /\ reply = "live"
    /\ IF b \in Audited => MayFinish(round, b)
       THEN SetRow(b, [status |-> "pending", tries |-> 0, reply |-> IF b \in Origin THEN "none" ELSE "pending"])
            /\ UNCHANGED reply
       ELSE reply' = "interrupted" /\ UNCHANGED tasks
    /\ UNCHANGED <<round, spared, runner, old, work, ran, faults>>

\* create_task fails: the attempt, and with it the round, becomes unknown.
SubmitFails(b) ==
    /\ row[b].status = "absent" /\ reply = "live" /\ b \in Audited
    /\ Fault
    /\ round' = MarkAttemptUnknown(round, Token, b)
    /\ reply' = "interrupted"
    /\ UNCHANGED <<tasks, spared, runner, old, work, ran>>

\* The tool call that runs in the reply ends.
OwnToolEnds(s) ==
    /\ reply = "live" /\ round.attempts[0] = "running"
    /\ round' = FinishAttempt(round, 0, s)
    /\ UNCHANGED <<tasks, foreground, runner, old, work, ran, faults>>

\* All tool calls are submitted or have ended: finish_execution_round_if_complete; the
\* reply waits for its tasks.
RoundEnds ==
    /\ reply = "live" /\ round.attempts[0] # "running"
    /\ \A b \in Audited : row[b].status # "absent"
    /\ round' = FinishIfComplete(round, Token)
    /\ reply' = "waiting"
    /\ UNCHANGED <<tasks, spared, runner, old, work, ran, faults>>

\* The reply fails, is cancelled, or is recovered after its lease.
Interrupt ==
    /\ reply \in {"live", "waiting"}
    /\ Fault
    /\ reply' = "interrupted"
    /\ UNCHANGED <<tasks, round, spared, runner, old, work, ran>>

\* mark_work_audit_execution_unknown reads the tasks of the round, and marks it then.
ReadActive ==
    /\ reply = "interrupted"
    /\ spared' = {b \in Audited : row[b].status \in Active}
    /\ reply' = "marking"
    /\ UNCHANGED <<tasks, round, runner, old, work, ran, faults>>

MarkInterrupted ==
    /\ reply = "marking"
    /\ round' = IF spared = {} THEN MarkUnknownReliably(round, Token) ELSE MarkUnknownExcept(round, spared)
    /\ reply' = "over"
    /\ UNCHANGED <<tasks, spared, runner, old, work, ran, faults>>

-----------------------------------------------------------------------------
(* Runners *)

\* try_claim. The manager does not schedule a task it still runs.
Claim(b) ==
    LET k == row[b].tries + 1
    IN  /\ row[b].status = "pending"
        /\ b \in Audited => round.status # "unknown"
        /\ \A j \in Claims : runner[b][j] = "gone" \/ <<b, j>> \in old
        /\ SetRow(b, [row[b] EXCEPT !.status = "running", !.tries = k])
        /\ Goto(b, k, "claimed")
        /\ UNCHANGED <<round, foreground, old, work, ran, faults>>

Execute(b, k) == Goto(b, k, "executing") /\ ran' = [ran EXCEPT ![b] = @ + 1]

\* background_task_crud.mark_execution_started, for an audited task only.
StartFenced(b, k) ==
    IF b \notin Audited THEN Execute(b, k)
    ELSE Goto(b, k, IF Holds(b, k) THEN "starting" ELSE "unknown") /\ UNCHANGED ran

Start(b, k) ==
    /\ runner[b][k] = "claimed"
    /\ StartFenced(b, k)
    /\ UNCHANGED <<tasks, round, foreground, old, work, faults>>

\* audit_crud.mark_execution_started: the attempt must be RUNNING.
StartAttempt(b, k) ==
    /\ runner[b][k] = "starting"
    /\ IF round.attempts[b] = "running" THEN Execute(b, k)
       ELSE Goto(b, k, "unknown") /\ UNCHANGED ran
    /\ UNCHANGED <<tasks, round, foreground, old, work, faults>>

\* Mutant: the audit is finished although the task was lost.
FinishMattersNot(b, k) == IF b \in Audited THEN MayFinish(round, b) ELSE Holds(b, k)

\* finish_execution_attempt and mark_succeeded or mark_failed, both or none.
MayEnd(b, k) == Holds(b, k) /\ (b \in Audited => MayFinish(round, b))

\* The tool has returned, or the task could not be prepared (failed): one transaction
\* ends task, attempt and, if it was the last one, the round.
End(b, k, s) ==
    /\ runner[b][k] = "executing" \/ (runner[b][k] \in {"claimed", "starting"} /\ s = "failed")
    /\ IF MayEnd(b, k)
       THEN /\ IF Holds(b, k) THEN SetRow(b, Ended(b, s)) ELSE UNCHANGED tasks
            /\ round' = IF b \in Audited THEN FinishIfComplete(FinishAttempt(round, b, s), Token) ELSE round
            /\ Goto(b, k, "gone")
       ELSE /\ UNCHANGED <<tasks, round>>
            /\ Goto(b, k, IF b \in Audited /\ row[b].status # "cancelled" THEN "unknown" ELSE "gone")
    /\ UNCHANGED <<foreground, old, work, ran, faults>>

\* The execution timed out: task and attempt become unknown; the lease may be over.
TimedOut(b, k) ==
    /\ runner[b][k] = "executing"
    /\ MarkUnknownTask(b, k)
    /\ Goto(b, k, "gone")
    /\ UNCHANGED <<foreground, old, work, ran, faults>>

\* The tool of an audited task raises.
Raises(b, k) ==
    /\ runner[b][k] = "executing" /\ b \in Audited
    /\ Goto(b, k, "unknown")
    /\ UNCHANGED <<tasks, round, foreground, old, work, ran, faults>>

\* _mark_bound_execution_unknown: the audit in one transaction, the task in the next.
AuditFirst(b, k) ==
    /\ runner[b][k] = "unknown"
    /\ round' = MarkAttemptUnknown(round, Token, b)
    /\ Goto(b, k, "untold")
    /\ UNCHANGED <<tasks, foreground, old, work, ran, faults>>

TaskThen(b, k) ==
    /\ runner[b][k] = "untold"
    /\ MarkUnknownTask(b, k)
    /\ Goto(b, k, "gone")
    /\ UNCHANGED <<foreground, old, work, ran, faults>>

\* _watch_task_control or _renew_task_lease finds the claim gone.
NoticeLoss(b, k) ==
    /\ runner[b][k] \notin {"gone", "releasing"} /\ ~Holds(b, k)
    /\ Goto(b, k, "releasing")
    /\ UNCHANGED <<tasks, round, foreground, old, work, ran, faults>>

\* Mutant: a stopped task is put back, whatever it is.
ReleasedAnyway(b, k) ==
    IF Owns(b, k) THEN SetRow(b, [row[b] EXCEPT !.status = "pending"]) /\ UNCHANGED round
    ELSE UNCHANGED <<tasks, round>>

\* release_claim: back to PENDING, but unknown if it must not run twice.
Released(b, k) ==
    IF NoRetry(b) THEN MarkUnknownTask(b, k)
    ELSE IF Owns(b, k) THEN SetRow(b, [row[b] EXCEPT !.status = "pending"]) /\ UNCHANGED round
    ELSE UNCHANGED <<tasks, round>>

Release(b, k) ==
    /\ runner[b][k] = "releasing"
    /\ Goto(b, k, "gone")
    /\ Released(b, k)
    /\ UNCHANGED <<foreground, old, work, ran, faults>>

\* The statement fails, or a renewal comes between its read and its write.
ReleaseFails(b, k) ==
    /\ runner[b][k] = "releasing"
    /\ Fault
    /\ Goto(b, k, "gone")
    /\ UNCHANGED <<tasks, round, foreground, old, work, ran>>

-----------------------------------------------------------------------------
(* The worker *)

\* lock_until passes: the runner is late, or there is none.
Lapse(b) ==
    /\ row[b].status = "running" /\ b \notin lapsed
    /\ IF runner[b][row[b].tries] = "gone" THEN UNCHANGED faults ELSE Fault
    /\ lapsed' = lapsed \cup {b}
    /\ UNCHANGED <<row, round, foreground, runner, old, work, ran>>

\* Mutant: only tasks that can be retried are visited.
RequeueRetryable(b) ==
    /\ b \in lapsed /\ ~NoRetry(b)
    /\ SetRow(b, IF row[b].tries >= MaxAttempts THEN Ended(b, "failed") ELSE [row[b] EXCEPT !.status = "pending"])
    /\ UNCHANGED <<round, foreground, runner, old, work, ran, faults>>

\* requeue_expired_running.
Requeue(b) ==
    /\ b \in lapsed
    /\ IF NoRetry(b) THEN MarkUnknownTask(b, row[b].tries)
       ELSE /\ SetRow(b, IF row[b].tries >= MaxAttempts THEN Ended(b, "failed")
                         ELSE [row[b] EXCEPT !.status = "pending"])
            /\ UNCHANGED round
    /\ UNCHANGED <<foreground, runner, old, work, ran, faults>>

\* The role goes to another process while the runners of this one go on.
RoleLost ==
    /\ Fault
    /\ old' = {c \in Tasks \X Claims : runner[c[1]][c[2]] # "gone"}
    /\ UNCHANGED <<tasks, round, foreground, runner, work, ran>>

\* BackgroundTaskManager.stop cancels the runners, which release their claims.
Shutdown ==
    /\ Fault
    /\ runner' = [b \in Tasks |-> [k \in Claims |-> IF runner[b][k] = "gone" THEN "gone" ELSE "releasing"]]
    /\ UNCHANGED <<tasks, round, foreground, old, work, ran>>

Crash ==
    /\ Fault
    /\ runner' = [b \in Tasks |-> [k \in Claims |-> "gone"]]
    /\ old' = {}
    /\ UNCHANGED <<tasks, round, foreground, work, ran>>

\* clear_background_tasks_on_startup, when a worker role starts: by the session reply
\* worker this may happen beside live runners. A waiting reply is cancelled, its round
\* marked.
StartupCleanup ==
    /\ Fault
    /\ Cleared
    /\ round' = IF reply = "waiting" THEN MarkUnknownReliably(RoundAfterClear, Token) ELSE RoundAfterClear
    /\ reply' = IF reply = "waiting" THEN "over" ELSE reply
    /\ UNCHANGED <<spared, runner, old, ran>>

-----------------------------------------------------------------------------
(* The user *)

\* stop_interactive_reply: the session's works and tasks are cancelled.
Stop ==
    /\ Fault
    /\ Cleared
    /\ round' = CancelUnexecuted(RoundAfterClear)
    /\ reply' = CASE reply = "live" -> "interrupted" [] reply = "waiting" -> "over" [] OTHER -> reply
    /\ UNCHANGED <<spared, runner, old, ran>>

\* cancel_user_task commits: a RUNNING task needs a live lease, an audited one an
\* attempt that can be marked.
MayCancel(b) ==
    /\ row[b].status = "pending" \/ (row[b].status = "running" /\ b \notin lapsed)
    /\ b \in Audited => MayFinish(round, b)

\* The cancel operation of the background task tool.
Cancel(b) ==
    /\ MayCancel(b)
    /\ SetRow(b, Ended(b, "cancelled"))
    /\ round' = CASE b \in Audited /\ row[b].status = "running" -> MarkAttemptUnknown(round, Token, b)
                  [] b \in Audited /\ row[b].status = "pending" ->
                         FinishIfComplete(FinishAttempt(round, b, "cancelled"), Token)
                  [] OTHER -> round
    /\ UNCHANGED <<foreground, runner, old, work, ran, faults>>

-----------------------------------------------------------------------------
(* Replies to finished tasks *)

\* Mutant: the work is queued after the transaction, if the process lives so long.
TriggerThenQueue(b) ==
    /\ row[b].status \in {"succeeded", "failed"} /\ row[b].reply = "pending"
    /\ SetRow(b, [row[b] EXCEPT !.reply = "running"])
    /\ work' \in {work, [work EXCEPT ![b] = IF @ = "none" THEN "queued" ELSE @]}
    /\ UNCHANGED <<round, foreground, runner, old, ran, faults>>

\* trigger_background_task_reply: the claim of the reply and its work, in one transaction.
TriggerReply(b) ==
    /\ row[b].status \in {"succeeded", "failed"} /\ row[b].reply = "pending"
    /\ SetRow(b, [row[b] EXCEPT !.reply = "running"])
    /\ work' = [work EXCEPT ![b] = IF @ = "none" THEN "queued" ELSE @]
    /\ UNCHANGED <<round, foreground, runner, old, ran, faults>>

\* The end of the work: execute_session_reply_work, fail_session_reply_work.
ReplyEnds(b, s) ==
    /\ work[b] = "queued"
    /\ work' = [work EXCEPT ![b] = "ended"]
    /\ SetRow(b, IF s = "failed" \/ row[b].reply = "running" THEN [row[b] EXCEPT !.reply = s] ELSE row[b])
    /\ UNCHANGED <<round, foreground, runner, old, ran, faults>>

-----------------------------------------------------------------------------
(* Specification *)

ReplyStep ==
    \/ \E b \in Tasks : Submit(b)
    \/ \E s \in {"succeeded", "failed"} : OwnToolEnds(s)
    \/ RoundEnds \/ ReadActive \/ MarkInterrupted

RunnerStep(b, k) ==
    \/ Start(b, k) \/ StartAttempt(b, k)
    \/ \E s \in {"succeeded", "failed"} : End(b, k, s)
    \/ TimedOut(b, k) \/ Raises(b, k)
    \/ AuditFirst(b, k) \/ TaskThen(b, k) \/ NoticeLoss(b, k) \/ Release(b, k)

\* The polling loop of the manager.
Poll(b) == Claim(b) \/ Requeue(b) \/ TriggerReply(b)

WorkEnds(b) == \E s \in {"succeeded", "failed"} : ReplyEnds(b, s)

Orphaned(b) == row[b].status = "running" /\ runner[b][row[b].tries] = "gone"

Next ==
    \/ ReplyStep
    \/ \E b \in Tasks : Poll(b) \/ WorkEnds(b) \/ Lapse(b) \/ Cancel(b) \/ SubmitFails(b)
    \/ \E b \in Tasks, k \in Claims : RunnerStep(b, k) \/ ReleaseFails(b, k)
    \/ Interrupt \/ RoleLost \/ Shutdown \/ Crash \/ StartupCleanup \/ Stop

Spec == Init /\ [][Next]_vars

\* Replies and runners are asyncio tasks whose tools have timeouts; the manager polls;
\* time passes for a row nobody renews.
FairSpec ==
    /\ Spec
    /\ WF_vars(ReplyStep)
    /\ \A b \in Tasks :
        /\ WF_vars(Poll(b))
        /\ WF_vars(Orphaned(b) /\ Lapse(b))
        /\ \A k \in Claims : WF_vars(RunnerStep(b, k))

-----------------------------------------------------------------------------
(* Properties *)

\* The tool of an audited task, or of one a reply waits for, is executed at most once,
\* through lost leases, stops, restarts and two workers at a time; that of an audited
\* task not after the task was cancelled or has ended.
ExecutedOnce ==
    [][\A b \in Tasks : NoRetry(b) /\ ran'[b] # ran[b] =>
            ran[b] = 0 /\ (b \in Audited => row[b].status = "running")]_vars

\* A task and its audit attempt tell the same story, whoever wrote the last of it; while
\* the task can still run, its attempt can still be finished or all is known to be lost.
TaskMatchesAttempt ==
    \A b \in Audited :
        LET a == round.attempts[b]
        IN  CASE row[b].status = "succeeded" -> a = "succeeded"
              [] row[b].status = "failed"    -> a \in {"failed", "unknown"}
              [] row[b].status = "cancelled" -> a \in {"cancelled", "unknown"}
              [] OTHER -> MayFinish(round, b) \/ (a = "unknown" /\ (round.status = "unknown" \/ row[b].status = "absent"))

Life == INSTANCE AuditLifecycle WITH Records <- {1}, round <- [r \in {1} |-> round]

\* Whatever runners, sweep, user, cleanup and the interrupted reply do to the round is a
\* step of the life of an audit record.
TasksKeepAuditLifecycle == Life!Spec

\* Every task ends. One that is PENDING when its round becomes unknown is the exception:
\* list_pending and try_claim pass over it, and only the next start of the service ends it.
TaskEnds ==
    \A b \in Tasks :
        row[b].status \in Active ~>
            \/ row[b].status \notin Active
            \/ b \in Audited /\ row[b].status = "pending" /\ round.status = "unknown"

\* The end of a task that is nobody's origin is answered by one reply work, unless the
\* session was stopped or the service restarted.
ResultIsTold ==
    \A b \in Tasks \ Origin :
        row[b].status \in {"succeeded", "failed"} ~> (work[b] # "none" \/ row[b].reply = "none")
=============================================================================
