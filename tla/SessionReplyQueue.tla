---------------------------- MODULE SessionReplyQueue ----------------------------
(***************************************************************************)
(* The queue that answers the messages of one chat session: the rows of     *)
(* session_reply_work_items, the consumer's executors, its lease sweep and  *)
(* the background tasks a reply may wait for.                               *)
(*                                                                          *)
(* A foreground work answers a user message ("reply"), runs tools the user  *)
(* has confirmed ("confirmed") or summarises a background result            *)
(* ("summary"). A work and the message it was queued for share an id.       *)
(* An executor is named by the worker_id (a fresh uuid) of its claim; an id *)
(* is used again only when nothing refers to it any more.                   *)
(*                                                                          *)
(* Abstracted: message texts, the LLM turns (one "reply" phase in which the *)
(* executor may stream, run audited tools, absorb messages, start           *)
(* background tasks, fail or conclude), available_at, and lock_until, of    *)
(* which only "passed or not" is kept. Every read that a later write        *)
(* relies on is a step of its own.                                          *)
(***************************************************************************)
EXTENDS Naturals, FiniteSets

CONSTANTS
    Works,          \* work ids, a set of positive numbers
    Kind,           \* what each work is: "reply", "confirmed" or "summary"
    Claims,         \* worker ids
    Nobody,         \* locked_by IS NULL
    Tools,          \* background tasks and audited tool rounds of the replies
    MaxAttempts,    \* max_attempts of a row
    MaxFaults       \* bound on crashes, late renewals, errors and requests to cancel

ASSUME ReplyAssumption ==
    /\ Works \subseteq Nat \ {0}
    /\ Kind \in [Works -> {"reply", "confirmed", "summary"}]
    /\ Nobody \notin Claims
    /\ MaxAttempts \in Nat \ {0}
    /\ MaxFaults \in Nat

VARIABLES
    row,            \* session_reply_work_items
    nextSeq,        \* session_reply_sequences.next_sequence_no
    log,            \* what is saved about each work besides its row
    ran,            \* how often the confirmed tools of a work were started
    tool,           \* background tasks: [state, work]
    notices,        \* ended tasks whose runner has yet to resume the work
    exec,           \* executors, by claim
    sweep,          \* the consumer's recovery of expired leases
    faults          \* how many faults have happened

vars == <<row, nextSeq, log, ran, tool, notices, exec, sweep, faults>>

tasks == <<tool, notices>>

-----------------------------------------------------------------------------
(* State *)

Statuses == {"none", "ready", "running", "waiting", "merged", "succeeded", "failed", "cancelled"}

Terminal == {"merged", "succeeded", "failed", "cancelled"}

NoWork == 0

\* "lapsed": lock_until has passed; "resuming": external_resume_pending;
\* "auditing": active_audit_execution.
Flags == {"lapsed", "resuming", "auditing"}

WorkRow == [status: Statuses, seq: Nat, owner: Claims \cup {Nobody}, attempts: 0..MaxAttempts,
            flags: SUBSET Flags, input: SUBSET Works, into: Works \cup {NoWork}, pending: SUBSET Tools]

\* "processed": is_processed of the work's message; "streamed": it has a stream event
\* other than work_suspended; "answered", "error": its final or error message is saved.
Entries == {"processed", "streamed", "answered", "error"}

Phases == {"idle", "claimed", "freeze", "merge", "tools", "reply", "absorb", "suspend",
           "recheck", "deliver", "finish", "error", "release", "fail", "mark"}

Executor == [pc: Phases, work: Works \cup {NoWork}, read: SUBSET Works, started: SUBSET Tools]

Task == [state: {"none", "running", "ended", "interrupted"}, work: Works \cup {NoWork}]

Idle == [pc |-> "idle", work |-> NoWork, read |-> {}, started |-> {}]

NoSweep == [pc |-> "idle", work |-> NoWork, owner |-> Nobody]

NewRow == [status |-> "none", seq |-> 0, owner |-> Nobody, attempts |-> 0, flags |-> {},
           input |-> {}, into |-> NoWork, pending |-> {}]

Init ==
    /\ row = [w \in Works |-> NewRow]
    /\ nextSeq = 1
    /\ log = [w \in Works |-> {}]
    /\ ran = [w \in Works |-> 0]
    /\ tool = [t \in Tools |-> [state |-> "none", work |-> NoWork]]
    /\ notices = {}
    /\ exec = [c \in Claims |-> Idle]
    /\ sweep = NoSweep
    /\ faults = 0

Fault == faults < MaxFaults /\ faults' = faults + 1

Has(entry) == {w \in Works : entry \in log[w]}

Note(w, entry) == log' = [log EXCEPT ![w] = @ \cup {entry}]

Lapsed(w) == "lapsed" \in row[w].flags

\* Rows that hold a place in the session's order: neither ended nor waiting.
Queued == {w \in Works : row[w].status \in {"ready", "running"}}

\* The fencing condition of update_claimed: RUNNING and still locked by the claim.
ClaimStands(w, owner) == row[w].status = "running" /\ row[w].owner = owner

Holds(c) == ClaimStands(exec[c].work, c)

\* A worker id nothing refers to.
Fresh(c) == exec[c] = Idle /\ (\A w \in Works : row[w].owner # c) /\ sweep.owner # c

Goto(c, pc) == exec' = [exec EXCEPT ![c].pc = pc]

Exit(c) == exec' = [exec EXCEPT ![c] = Idle]

\* The row leaves the RUNNING status: its lock is cleared.
Unlocked(w, status) ==
    [row[w] EXCEPT !.status = status, !.owner = Nobody, !.flags = @ \ {"lapsed"}]

-----------------------------------------------------------------------------
(* Submission and cancellation: the API process *)

\* submit_user_message, or the enqueueing of a confirmed round or of a summary:
\* the sequence number is allocated in the transaction that inserts the row.
Enqueue(w) ==
    /\ row[w].status = "none"
    /\ \A v \in Works : v < w => row[v].status # "none"
    /\ row' = [row EXCEPT ![w] = [NewRow EXCEPT !.status = "ready", !.seq = nextSeq]]
    /\ nextSeq' = nextSeq + 1
    /\ UNCHANGED <<log, ran, tasks, exec, sweep, faults>>

\* cancel_session: every row of the session that has not ended is cancelled.
StopReplies ==
    LET active == {w \in Works : row[w].status \in {"ready", "running", "waiting"}}
    IN  /\ active # {}
        /\ row' = [w \in Works |-> IF w \in active THEN Unlocked(w, "cancelled") ELSE row[w]]
        /\ Fault
        /\ UNCHANGED <<nextSeq, log, ran, tasks, exec, sweep>>

-----------------------------------------------------------------------------
(* The consumer: claims, leases, recovery *)

\* claim_next: the READY row must have no earlier queued row in its session, and
\* no row of the session may be RUNNING under a live lease.
Claimable(w) ==
    /\ row[w].status = "ready"
    /\ \A v \in Queued : row[v].seq >= row[w].seq
    /\ \A v \in Works : row[v].status = "running" => Lapsed(v)

Claim(c, w) ==
    /\ Fresh(c)
    /\ Claimable(w)
    /\ row' = [row EXCEPT ![w] = [row[w] EXCEPT !.status = "running", !.owner = c, !.attempts = @ + 1]]
    /\ exec' = [exec EXCEPT ![c] = [Idle EXCEPT !.pc = "claimed", !.work = w]]
    /\ UNCHANGED <<nextSeq, log, ran, tasks, sweep, faults>>

\* No executor renews the lock of w any more.
Abandoned(w) == \A c \in Claims : exec[c] # Idle => ~(exec[c].work = w /\ row[w].owner = c)

\* lock_until passes: the executor is gone, or (a fault) its loop has not renewed in time.
Lapse(w) ==
    /\ row[w].status = "running" /\ ~Lapsed(w)
    /\ row' = [row EXCEPT ![w].flags = @ \cup {"lapsed"}]
    /\ IF Abandoned(w) THEN UNCHANGED faults ELSE Fault
    /\ UNCHANGED <<nextSeq, log, ran, tasks, exec, sweep>>

\* renew_active_claims: RUNNING rows still locked by c are renewed, expired or not.
Renew(c) ==
    /\ exec[c] # Idle /\ Holds(c) /\ Lapsed(exec[c].work)
    /\ row' = [row EXCEPT ![exec[c].work].flags = @ \ {"lapsed"}]
    /\ UNCHANGED <<nextSeq, log, ran, tasks, exec, sweep, faults>>

\* The executor ends without touching its row: the process dies, the consumer is
\* stopped, or the poll loop cancels the task because its claim is gone.
Stopped(c) ==
    /\ exec[c] # Idle
    /\ Exit(c)
    /\ Fault
    /\ UNCHANGED <<row, nextSeq, log, ran, tasks, sweep>>

\* Mutant: a confirmed round is told by its audit binding, which only replies have.
RetryConfirmed(w) == "auditing" \in row[w].flags \/ w \in Has("streamed") \/ row[w].attempts >= MaxAttempts

\* An interrupted work that must not run again.
NoRetry(w) ==
    \/ "auditing" \in row[w].flags
    \/ Kind[w] = "confirmed"
    \/ w \in Has("streamed")
    \/ row[w].attempts >= MaxAttempts

\* Mutant: the sweep passes over what it may not retry.
RecoverRetryable(w) ==
    /\ sweep = NoSweep
    /\ row[w].status = "running" /\ Lapsed(w) /\ ~NoRetry(w)
    /\ sweep' = [pc |-> "retry", work |-> w, owner |-> row[w].owner]
    /\ UNCHANGED <<row, nextSeq, log, ran, tasks, exec, faults>>

\* recover_expired reads the expired rows and their stream events ...
RecoverRead(w) ==
    /\ sweep = NoSweep
    /\ row[w].status = "running" /\ Lapsed(w)
    /\ sweep' = [pc |-> IF NoRetry(w) THEN "fail" ELSE "retry", work |-> w, owner |-> row[w].owner]
    /\ UNCHANGED <<row, nextSeq, log, ran, tasks, exec, faults>>

\* ... then returns those it may retry to the queue, if they are still as they were,
RecoverRetry ==
    LET w == sweep.work
    IN  /\ sweep.pc = "retry"
        /\ sweep' = NoSweep
        /\ row' = IF ClaimStands(w, sweep.owner) /\ Lapsed(w) /\ row[w].attempts < MaxAttempts
                  THEN [row EXCEPT ![w] = Unlocked(w, "ready")]
                  ELSE row
        /\ UNCHANGED <<nextSeq, log, ran, tasks, exec, faults>>

\* Mutant: the row is marked before the user is told.
MarkThenTell ==
    LET w == sweep.work
    IN  /\ sweep.pc = "fail"
        /\ IF ClaimStands(w, sweep.owner)
           THEN row' = [row EXCEPT ![w] = Unlocked(w, "failed")] /\ sweep' = [sweep EXCEPT !.pc = "mark"]
           ELSE sweep' = NoSweep /\ UNCHANGED row
        /\ UNCHANGED <<nextSeq, log, ran, tasks, exec, faults>>

\* ... and fails the others: fail_session_reply_work saves the error message in a
\* first transaction, if the claim still stands,
RecoverFail ==
    LET w == sweep.work
    IN  /\ sweep.pc = "fail"
        /\ IF ClaimStands(w, sweep.owner)
           THEN Note(w, "error") /\ sweep' = [sweep EXCEPT !.pc = "mark"]
           ELSE sweep' = NoSweep /\ UNCHANGED log
        /\ UNCHANGED <<row, nextSeq, ran, tasks, exec, faults>>

\* Mutant: a mark without fencing.
EndedUnfenced(w, owner, status) == [row EXCEPT ![w] = Unlocked(w, status)]

\* mark_terminal: the rows after a work has ended for the claim it was decided for.
Ended(w, owner, status) ==
    IF ClaimStands(w, owner) THEN [row EXCEPT ![w] = Unlocked(w, status)] ELSE row

\* and marks the row in a second one.
RecoverMark ==
    /\ sweep.pc = "mark"
    /\ sweep' = NoSweep
    /\ row' = Ended(sweep.work, sweep.owner, "failed")
    /\ UNCHANGED <<nextSeq, log, ran, tasks, exec, faults>>

\* The sweeping process dies.
SweepStops ==
    /\ sweep # NoSweep
    /\ sweep' = NoSweep
    /\ Fault
    /\ UNCHANGED <<row, nextSeq, log, ran, tasks, exec>>

-----------------------------------------------------------------------------
(* The executor of a claim: execute_session_reply_work *)

\* The row is read; what there is to do depends on what earlier runs have left.
Begin(c) ==
    LET w == exec[c].work
        frozen == row[w].input # {}
    IN  /\ exec[c].pc = "claimed"
        /\ IF ~Holds(c) THEN Exit(c)
           ELSE IF w \in Has("answered") THEN Goto(c, "deliver")
           ELSE IF "resuming" \in row[w].flags THEN Goto(c, "reply")
           ELSE Goto(c, CASE Kind[w] = "reply"     -> IF frozen THEN "reply" ELSE "freeze"
                          [] Kind[w] = "confirmed" -> "tools"
                          [] Kind[w] = "summary"   -> "reply")
        /\ UNCHANGED <<row, nextSeq, log, ran, tasks, sweep, faults>>

\* list_contiguous_foreground: the queued replies from w on, up to the first queued
\* row of another kind.
Contiguous(w) ==
    {v \in Queued : /\ Kind[v] = "reply"
                    /\ row[v].seq >= row[w].seq
                    /\ \A b \in Queued : Kind[b] # "reply" /\ row[b].seq > row[w].seq => row[v].seq < row[b].seq}

\* freeze_foreground_input: the rows are listed and their messages read; a message
\* that is processed already, or an empty list, is an error.
FreezeRead(c) ==
    LET items == Contiguous(exec[c].work)
    IN  /\ exec[c].pc = "freeze"
        /\ exec' = [exec EXCEPT ![c] = IF items # {} /\ items \cap Has("processed") = {}
                                       THEN [@ EXCEPT !.pc = "merge", !.read = items]
                                       ELSE [@ EXCEPT !.pc = "error"]]
        /\ UNCHANGED <<row, nextSeq, log, ran, tasks, sweep, faults>>

\* merge_ready_foreground, the update of is_processed and update_claimed: one
\* transaction, rolled back unless each of them changes all the rows it names.
MayMerge(c, items) ==
    /\ Holds(c)
    /\ items \cap Has("processed") = {}
    /\ \A v \in items \ {exec[c].work} : row[v].status = "ready"

\* Mutant: the messages are not marked as processed.
MergeUnmarked(c, items) ==
    /\ row' = [v \in Works |->
                  IF v = exec[c].work THEN [row[v] EXCEPT !.input = @ \cup items]
                  ELSE IF v \in items THEN [row[v] EXCEPT !.status = "merged", !.into = exec[c].work]
                  ELSE row[v]]
    /\ UNCHANGED log

Merge(c, items) ==
    LET w == exec[c].work
    IN  /\ row' = [v \in Works |->
                      IF v = w THEN [row[v] EXCEPT !.input = @ \cup items]
                      ELSE IF v \in items THEN [row[v] EXCEPT !.status = "merged", !.into = w]
                      ELSE row[v]]
        /\ log' = [v \in Works |-> IF v \in items THEN log[v] \cup {"processed"} ELSE log[v]]

FreezeWrite(c) ==
    /\ exec[c].pc = "merge"
    /\ IF MayMerge(c, exec[c].read)
       THEN Merge(c, exec[c].read) /\ exec' = [exec EXCEPT ![c].pc = "reply", ![c].read = {}]
       ELSE exec' = [exec EXCEPT ![c].pc = "error", ![c].read = {}] /\ UNCHANGED <<row, log>>
    /\ UNCHANGED <<nextSeq, ran, tasks, sweep, faults>>

\* A step of the executor that is fenced by its claim: the executor is cancelled when
\* the claim is lost.
Fenced(c, Step) == IF Holds(c) THEN Step ELSE Exit(c) /\ UNCHANGED <<row, log, ran, tool>>

\* _execute_confirmed_tools: the claim is checked, then the tools run.
RunTools(c) ==
    LET w == exec[c].work
    IN  /\ exec[c].pc = "tools"
        /\ Fenced(c, /\ ran' = [ran EXCEPT ![w] = @ + 1]
                     /\ Goto(c, "reply")
                     /\ UNCHANGED <<row, log, tool>>)
        /\ UNCHANGED <<nextSeq, notices, sweep, faults>>

Interactive(c) == exec[c].pc = "reply" /\ Kind[exec[c].work] # "summary"

\* An audited tool round t of the reply: its binding is saved before the tools run ...
Bind(c, t) ==
    /\ Interactive(c) /\ tool[t].state = "none"
    /\ Fenced(c, /\ row' = [row EXCEPT ![exec[c].work].flags = @ \cup {"auditing"}]
                 /\ tool' = [tool EXCEPT ![t].state = "ended"]
                 /\ UNCHANGED <<log, ran, exec>>)
    /\ UNCHANGED <<nextSeq, notices, sweep, faults>>

\* ... and removed once the round is complete.
Unbind(c) ==
    /\ Interactive(c) /\ "auditing" \in row[exec[c].work].flags
    /\ Fenced(c, /\ row' = [row EXCEPT ![exec[c].work].flags = @ \ {"auditing"}]
                 /\ UNCHANGED <<log, ran, tool, exec>>)
    /\ UNCHANGED <<nextSeq, notices, sweep, faults>>

\* A stream event of a reply that streams.
Stream(c) ==
    LET w == exec[c].work
    IN  /\ Interactive(c) /\ w \notin Has("streamed")
        /\ Fenced(c, Note(w, "streamed") /\ UNCHANGED <<row, ran, tool, exec>>)
        /\ UNCHANGED <<nextSeq, notices, sweep, faults>>

\* absorb_contiguous_foreground_messages: between turns the executor looks for messages
\* that arrived meanwhile. A lost claim, or a message already processed, ends the look.
AbsorbRead(c) ==
    LET more == {v \in Contiguous(exec[c].work) \ {exec[c].work} : row[v].status = "ready"}
    IN  /\ Interactive(c) /\ Holds(c)
        /\ more # {} /\ more \cap Has("processed") = {}
        /\ exec' = [exec EXCEPT ![c].pc = "absorb", ![c].read = more]
        /\ UNCHANGED <<row, nextSeq, log, ran, tasks, sweep, faults>>

AbsorbWrite(c) ==
    /\ exec[c].pc = "absorb"
    /\ exec' = [exec EXCEPT ![c].pc = "reply", ![c].read = {}]
    /\ IF MayMerge(c, exec[c].read) THEN Merge(c, exec[c].read) ELSE UNCHANGED <<row, log>>
    /\ UNCHANGED <<nextSeq, ran, tasks, sweep, faults>>

\* The reply starts background tasks and will wait for them.
Launch(c, started) ==
    /\ Interactive(c)
    /\ started # {} /\ (\A t \in started : tool[t].state = "none")
    /\ Fenced(c, /\ tool' = [t \in Tools |-> IF t \in started THEN [state |-> "running", work |-> exec[c].work]
                                                              ELSE tool[t]]
                 /\ exec' = [exec EXCEPT ![c].pc = "suspend", ![c].started = started]
                 /\ UNCHANGED <<row, log, ran>>)
    /\ UNCHANGED <<nextSeq, notices, sweep, faults>>

\* suspend_claimed: the row waits for the tasks this run has started, and for those
\* it still waited for.
Suspend(c) ==
    LET w == exec[c].work
    IN  /\ exec[c].pc = "suspend"
        /\ Fenced(c, /\ row' = [row EXCEPT ![w] = [Unlocked(w, "waiting") EXCEPT
                                                      !.pending = @ \cup exec[c].started,
                                                      !.flags = @ \ {"resuming"}]]
                     /\ exec' = [exec EXCEPT ![c].pc = "recheck", ![c].started = {}]
                     /\ UNCHANGED <<log, ran, tool>>)
        /\ UNCHANGED <<nextSeq, notices, sweep, faults>>

\* The reply is concluded: save_assistant_message stores the final message.
SaveReply(c) ==
    /\ exec[c].pc = "reply"
    /\ Fenced(c, Note(exec[c].work, "answered") /\ Goto(c, "deliver") /\ UNCHANGED <<row, ran, tool>>)
    /\ UNCHANGED <<nextSeq, notices, sweep, faults>>

\* The response is stored in the row and sent to the session ...
Deliver(c) ==
    /\ exec[c].pc = "deliver"
    /\ Fenced(c, Goto(c, "finish") /\ UNCHANGED <<row, log, ran, tool>>)
    /\ UNCHANGED <<nextSeq, notices, sweep, faults>>

\* ... and the row is marked.
Finish(c) ==
    /\ exec[c].pc = "finish"
    /\ Fenced(c, /\ row' = Ended(exec[c].work, c, "succeeded")
                 /\ Goto(c, "recheck")
                 /\ UNCHANGED <<log, ran, tool>>)
    /\ UNCHANGED <<nextSeq, notices, sweep, faults>>

-----------------------------------------------------------------------------
(* Failures of an executor: _run_claimed *)

\* An exception: the LLM request failed, a tool broke, the database refused.
Errs(c) ==
    /\ exec[c].pc \in {"reply", "deliver"}
    /\ Goto(c, "error")
    /\ Fault
    /\ UNCHANGED <<row, nextSeq, log, ran, tasks, sweep>>

\* The handler reads the row and its stream events; a business exception fails the work
\* even where a retry would be allowed.
Handle(c) ==
    /\ exec[c].pc = "error"
    /\ \/ Goto(c, "fail")
       \/ ~NoRetry(exec[c].work) /\ Goto(c, "release")
    /\ UNCHANGED <<row, nextSeq, log, ran, tasks, sweep, faults>>

\* release_for_retry
Release(c) ==
    /\ exec[c].pc = "release"
    /\ row' = Ended(exec[c].work, c, "ready")
    /\ Exit(c)
    /\ UNCHANGED <<nextSeq, log, ran, tasks, sweep, faults>>

\* fail_session_reply_work: error message, then the mark.
Fail(c) ==
    /\ exec[c].pc = "fail"
    /\ Fenced(c, Note(exec[c].work, "error") /\ Goto(c, "mark") /\ UNCHANGED <<row, ran, tool>>)
    /\ UNCHANGED <<nextSeq, notices, sweep, faults>>

MarkFailed(c) ==
    /\ exec[c].pc = "mark"
    /\ row' = Ended(exec[c].work, c, "failed")
    /\ Exit(c)
    /\ UNCHANGED <<nextSeq, log, ran, tasks, sweep, faults>>

-----------------------------------------------------------------------------
(* External work: background tasks wake the replies that wait for them *)

\* A task ends, or is found interrupted by a restart; its runner will tell the work.
TaskEnds(t) ==
    /\ tool[t].state = "running"
    /\ \E end \in {"ended", "interrupted"} : tool' = [tool EXCEPT ![t].state = end]
    /\ notices' = notices \cup {t}
    /\ UNCHANGED <<row, nextSeq, log, ran, exec, sweep, faults>>

\* Tasks of w's slots that have ended.
Results(w) == {t \in row[w].pending : tool[t].state \in {"ended", "interrupted"}}

\* reopen_completed_waiting: an answered work still has a slot for a task that has ended.
Reopen(w) ==
    /\ row' = [row EXCEPT ![w] = [row[w] EXCEPT !.status = "waiting", !.attempts = 0, !.flags = @ \ {"resuming"}]]
    /\ log' = [log EXCEPT ![w] = @ \ {"answered"}]
    /\ UNCHANGED nextSeq

\* Mutant: the woken row keeps its old place.
WakeInPlace(w) ==
    /\ row' = [row EXCEPT ![w] = [row[w] EXCEPT !.status = "ready", !.pending = @ \ Results(w),
                                                !.attempts = 0, !.flags = {"resuming"}]]
    /\ UNCHANGED <<nextSeq, log>>

\* _resume_waiting: the results are taken and the work is queued again, behind what
\* came meanwhile; a result a restart has interrupted cancels it. The tool_end events
\* are published for sessions that show tool calls.
Wake(w) ==
    LET broken == \E t \in Results(w) : tool[t].state = "interrupted"
    IN  /\ row' = [row EXCEPT ![w] = [row[w] EXCEPT
                       !.status = IF broken THEN "cancelled" ELSE "ready",
                       !.seq = nextSeq,
                       !.pending = @ \ Results(w),
                       !.attempts = IF broken THEN @ ELSE 0,
                       !.flags = (@ \ Flags) \cup IF broken THEN {} ELSE {"resuming"}]]
        /\ nextSeq' = nextSeq + 1
        /\ \E shown \in SUBSET {"streamed"} : log' = [log EXCEPT ![w] = @ \cup shown]

\* resume_external_work_for_task, for tasks that may have a slot in w. Reopening and
\* waking are two transactions; done tells whether the call is over.
Resume(w, slots, done) ==
    IF row[w].status = "succeeded" /\ slots \cap Results(w) # {}
    THEN Reopen(w) /\ ~done
    ELSE /\ done
         /\ IF row[w].status = "waiting" /\ Results(w) # {} THEN Wake(w)
                                                            ELSE UNCHANGED <<row, nextSeq, log>>

\* The runner of an ended task.
Notify(t) ==
    /\ t \in notices
    /\ \E done \in BOOLEAN : /\ Resume(tool[t].work, {t}, done)
                             /\ notices' = IF done THEN notices \ {t} ELSE notices
    /\ UNCHANGED <<ran, tool, exec, sweep, faults>>

\* The process of the runner dies before it has told the work.
LoseNotice(t) ==
    /\ t \in notices
    /\ notices' = notices \ {t}
    /\ Fault
    /\ UNCHANGED <<row, nextSeq, log, ran, tool, exec, sweep>>

\* _resume_pending_external_results: after it has suspended or answered, the executor
\* looks whether a task ended while the work could not be woken.
Recheck(c) ==
    /\ exec[c].pc = "recheck"
    /\ \E done \in BOOLEAN : /\ Resume(exec[c].work, row[exec[c].work].pending, done)
                             /\ IF done THEN Exit(c) ELSE UNCHANGED exec
    /\ UNCHANGED <<ran, tasks, sweep, faults>>

\* Mutant: only interrupted tasks are looked for.
ReconcileInterrupted(w) ==
    /\ row[w].status = "waiting" /\ (\E t \in row[w].pending : tool[t].state = "interrupted")
    /\ Wake(w)
    /\ UNCHANGED <<ran, tasks, exec, sweep, faults>>

\* reconcile_external_work: the periodic look at the waiting works.
Reconcile(w) ==
    /\ row[w].status = "waiting" /\ Results(w) # {}
    /\ Wake(w)
    /\ UNCHANGED <<ran, tasks, exec, sweep, faults>>

\* cancel_all_waiting: the clean-up of a starting worker cancels what waits.
CancelWaiting(w) ==
    /\ row[w].status = "waiting"
    /\ row' = [row EXCEPT ![w] = [Unlocked(w, "cancelled") EXCEPT !.seq = nextSeq]]
    /\ nextSeq' = nextSeq + 1
    /\ Fault
    /\ UNCHANGED <<log, ran, tasks, exec, sweep>>

-----------------------------------------------------------------------------

ExecutorStep(c) ==
    \/ Begin(c) \/ FreezeRead(c) \/ FreezeWrite(c) \/ RunTools(c)
    \/ AbsorbWrite(c) \/ Suspend(c) \/ Recheck(c)
    \/ SaveReply(c) \/ Deliver(c) \/ Finish(c)
    \/ Handle(c) \/ Release(c) \/ Fail(c) \/ MarkFailed(c)

Recover == (\E w \in Works : RecoverRead(w)) \/ RecoverRetry \/ RecoverFail \/ RecoverMark

Next ==
    \/ \E w \in Works : Enqueue(w) \/ Lapse(w) \/ Reconcile(w) \/ CancelWaiting(w)
    \/ StopReplies
    \/ Recover \/ SweepStops
    \/ \E c \in Claims : \/ ExecutorStep(c)
                         \/ Renew(c) \/ Stopped(c) \/ Errs(c)
                         \/ Stream(c) \/ AbsorbRead(c) \/ Unbind(c)
                         \/ \E w \in Works : Claim(c, w)
                         \/ \E t \in Tools : Bind(c, t)
                         \/ \E started \in SUBSET Tools : Launch(c, started)
    \/ \E t \in Tools : TaskEnds(t) \/ Notify(t) \/ LoseNotice(t)

Spec == Init /\ [][Next]_vars

\* An executor whose process is alive goes on, the consumer polls and sweeps, and the
\* background manager reconciles: each of these is a loop of a running process. The lock
\* of a row no executor renews runs out, and background tasks have timeouts. Nothing is
\* assumed of faults, of notices, or of what a reply does before it ends.
Fairness ==
    /\ \A c \in Claims : WF_vars(ExecutorStep(c))
    /\ WF_vars(\E c \in Claims, w \in Works : Claim(c, w))
    /\ \A w \in Works : /\ WF_vars(Abandoned(w) /\ Lapse(w))
                        /\ WF_vars(Reconcile(w))
    /\ WF_vars(Recover)
    /\ \A t \in Tools : WF_vars(TaskEnds(t))

FairSpec == Spec /\ Fairness

-----------------------------------------------------------------------------
(* Properties *)

\* Types, and the bounds that hold by the protocol: no row is claimed more than
\* MaxAttempts times between two wake-ups.
TypeOK ==
    /\ row \in [Works -> WorkRow]
    /\ nextSeq \in Nat \ {0}
    /\ log \in [Works -> SUBSET Entries]
    /\ ran \in [Works -> Nat]
    /\ tool \in [Tools -> Task]
    /\ notices \subseteq Tools
    /\ faults \in 0..MaxFaults
    /\ exec \in [Claims -> Executor]
    /\ sweep \in [pc: {"idle", "retry", "fail", "mark"}, work: Works \cup {NoWork}, owner: Claims \cup {Nobody}]

\* One reply at a time, in order: whatever crashes, expires, is retried or is woken, a
\* running row is the first of the queued rows of its session (claim_next, wake_waiting).
OneReplyAtATime ==
    \A w \in Works : row[w].status = "running" =>
        \A v \in Queued \ {w} : row[v].seq > row[w].seq

\* Every user message goes into exactly one reply: a processed message is in the input of
\* one work, a merged work is in the input of the work it was merged into, which is not
\* merged itself, and a reply that is still to run owns its own message
\* (freeze_foreground_input, absorb_contiguous_foreground_messages).
EveryInputOnce ==
    /\ \A m \in Works : m \in Has("processed") <=> \E w \in Works : m \in row[w].input
    /\ \A w \in Works : \A v \in Works \ {w} : row[w].input \cap row[v].input = {}
    /\ \A w \in Works : row[w].status = "merged" =>
           /\ w \in row[row[w].into].input
           /\ row[row[w].into].status # "merged"
    /\ \A w \in Works : row[w].status \in {"ready", "running", "waiting"} /\ w \in Has("processed") =>
           w \in row[w].input

\* Tools the user confirmed once run once: no crash, retry, wake-up or reopening starts
\* them a second time (recover_expired, _run_claimed).
ConfirmedOnce == \A w \in Works : ran[w] <= 1

\* The user is told how a work has ended: an answered work has its final message, a failed
\* one its error message, also if a process dies between the two transactions
\* (execute_session_reply_work, fail_session_reply_work).
OutcomeIsTold ==
    \A w \in Works : /\ row[w].status = "succeeded" => w \in Has("answered")
                     /\ row[w].status = "failed" => w \in Has("error")

\* What has ended stays ended: a late executor, sweep or wake-up never revives or relabels
\* a merged, failed or cancelled row; an answered one only goes back to waiting, for a
\* result it still has a slot for (update_claimed, reopen_completed_waiting).
EndedStaysEnded ==
    [][\A w \in Works : row[w].status \in Terminal /\ row'[w].status # row[w].status =>
           /\ row[w].status = "succeeded" /\ row'[w].status = "waiting"
           /\ Results(w) # {}]_vars

\* Freezing finds the message the work was queued for: the error "No unprocessed foreground
\* messages are available" (ERR_SESSION_REPLY_NO_FOREGROUND_INPUT) is not raised for a
\* work that holds its claim and whose message is unprocessed.
FreezeFindsItsMessage ==
    [][\A c \in Claims :
           exec[c].pc = "freeze" /\ Holds(c) /\ exec[c].work \notin Has("processed") => exec'[c].pc # "error"]_vars

\* Every queued work settles: it is answered, merged, failed, cancelled, or waits.
EveryWorkSettles ==
    \A w \in Works : row[w].status = "ready" ~> row[w].status \in Terminal \cup {"waiting"}

\* No wake-up is lost: a work does not wait for ever, whatever order tasks end, executors
\* suspend and notices arrive or are lost in.
WaitingEnds == \A w \in Works : row[w].status = "waiting" ~> row[w].status # "waiting"

=============================================================================
