----------------------------- MODULE AuditExecution -----------------------------
(***************************************************************************)
(* Audited tool rounds of one chat session: the audit of a round, the       *)
(* confirmation it may need, and its execution by the executor of a reply   *)
(* or, once confirmed, of a work of its own.                                *)
(*                                                                          *)
(* The works themselves are SessionReplyQueue's. What it guarantees is      *)
(* assumed here: one executor of the session holds a live claim, and one    *)
(* that has lost it (lost) runs on until a statement guarded by             *)
(* ensure_session_reply_work_claim refuses it.                              *)
(*                                                                          *)
(* Abstracted: the auditor's scores (any conclusion), texts of tool         *)
(* results, the status written on a confirmation card (only which cards     *)
(* were shown is kept), file snapshots (they may have changed at any time). *)
(***************************************************************************)
EXTENDS AuditRound, FiniteSets

CONSTANTS
    Records,        \* ids of audit records, numbers in the order of their creation
    Executors,      \* claims of works of the session, a set of numbers
    MaxAsked,       \* bound on user messages under way at the same time
    MaxFaults       \* bound on restarts, late renewals, errors and requests to stop

NoRecord == 0

ASSUME AuditAssumption ==
    /\ Records \subseteq Nat \ {NoRecord}
    /\ Tools # {} /\ Tools \subseteq Nat
    /\ Executors \subseteq Nat
    /\ MaxAsked \in Nat /\ MaxFaults \in Nat

VARIABLES
    round,          \* audit_records and audit_execution_records
    issued,         \* number of execution claims made of each record
    claims,         \* audit_confirmation_claims: the records that can be answered
    shown,          \* records whose confirmation card was saved with its claim
    reshown,        \* records whose card was saved after a re-audit
    expired,        \* expires_at has passed
    ready,          \* queued CONFIRMED_TOOL_EXECUTION works, as bindings
    exec,           \* executors
    lost,           \* executors whose work is no longer claimed by them
    sweep,          \* bindings the lease sweep is about to mark
    asked,          \* number of messages that found each record to confirm and are about
                    \* to carry out what they say
    ran,            \* how often each tool call was started
    faults

vars == <<round, issued, claims, shown, reshown, expired, ready, exec, lost, sweep, asked, ran, faults>>

-----------------------------------------------------------------------------
(* State *)

\* A round and the token it is executed under.
Binding == [r: Records \cup {NoRecord}, k: Nat]

NoBinding == [r |-> NoRecord, k |-> 0]

\* kind: what the work is; at: the round in hand; was: the confirmed round a re-audit
\* replaces; stale: the claim that cancel_confirmation_by_session read; said: the
\* result audit_tool_round returned; bind: the round bound to the work's row.
Executor == [pc: {"idle", "check", "supersede", "close", "create", "audit", "offer", "shown",
                  "retire", "reshow", "claim", "attempt", "bind", "run", "abort", "giveup", "handler"},
             kind: {"reply", "confirmed"}, at: Binding, was: Binding, stale: Records \cup {NoRecord},
             said: RecordStatus, bind: Binding, started: SUBSET Tools, ended: SUBSET Tools]

Idle == [pc |-> "idle", kind |-> "reply", at |-> NoBinding, was |-> NoBinding, stale |-> NoRecord,
         said |-> "absent", bind |-> NoBinding, started |-> {}, ended |-> {}]

TypeOK ==
    /\ round \in [Records -> Round]
    /\ issued \in [Records -> Nat]
    /\ claims \cup shown \cup reshown \cup expired \subseteq Records
    /\ ready \cup sweep \subseteq Binding
    /\ exec \in [Executors -> Executor]
    /\ lost \subseteq Executors
    /\ asked \in [Records -> 0..MaxAsked]
    /\ ran \in [Records -> [Tools -> Nat]]
    /\ faults \in 0..MaxFaults

Init ==
    /\ round = [r \in Records |-> NewRound]
    /\ issued = [r \in Records |-> 0]
    /\ claims = {} /\ shown = {} /\ reshown = {} /\ expired = {}
    /\ ready = {}
    /\ exec = [e \in Executors |-> Idle]
    /\ lost = {}
    /\ sweep = {}
    /\ asked = [r \in Records |-> 0]
    /\ ran = [r \in Records |-> [t \in Tools |-> 0]]
    /\ faults = 0

cards == <<shown, reshown>>

\* What the steps of an executor seldom touch.
rest == <<issued, cards, expired, ready, sweep, asked, ran, faults>>

Fault == faults < MaxFaults /\ faults' = faults + 1

Live(e) == exec[e].pc # "idle" /\ e \notin lost

At(e, pc) == exec[e].pc = pc

\* ensure_session_reply_work_claim passes.
Fenced(e, pc) == At(e, pc) /\ e \notin lost

Goto(e, pc) == exec' = [exec EXCEPT ![e].pc = pc] /\ UNCHANGED lost

\* The executor is done with its work, or with the round.
Exit(e) == exec' = [exec EXCEPT ![e] = Idle] /\ lost' = lost \ {e}

Here(e) == exec[e].at.r

Set(r, x) == round' = [round EXCEPT ![r] = x]

Unused == {r \in Records : round[r].status = "absent"}

\* Ids are given out in their order.
IsNext(r) == r \in Unused /\ \A s \in Unused : r <= s

-----------------------------------------------------------------------------
(* Confirmations: what a user's message does to the pending one *)

\* Mutant: the status is not compared.
ClosePendingAnyway(r, s) ==
    /\ Set(r, Closed(round[r], s))
    /\ claims' = claims \ {r}

\* close_pending: PENDING goes to s and its claim is deleted.
ClosePending(r, s) ==
    IF round[r].status = "pending"
    THEN Set(r, Closed(round[r], s)) /\ claims' = claims \ {r}
    ELSE UNCHANGED <<round, claims>>

\* expire_confirmation_by_session, with which submit_user_message begins.
Expires(r) == r \in claims \cap expired /\ round[r].status = "pending"

\* get_current_confirmation.
Current == {r \in claims \ expired : round[r].status = "pending"}

\* submit_user_message up to its decision: an expired confirmation is closed, then the
\* current one is read; without one the message is an ordinary message.
Submit ==
    /\ claims # {}
    /\ round' = [r \in Records |-> IF Expires(r) THEN Closed(round[r], "expired") ELSE round[r]]
    /\ claims' = {r \in claims : ~Expires(r)}
    /\ \/ Current = {} /\ UNCHANGED asked
       \/ \E r \in Current : asked[r] < MaxAsked /\ asked' = [asked EXCEPT ![r] = @ + 1]
    /\ UNCHANGED <<issued, cards, expired, ready, exec, lost, sweep, ran, faults>>

Answer(r) == asked[r] > 0 /\ asked' = [asked EXCEPT ![r] = @ - 1]

\* Mutant: the claim is not asked for again when the decision is carried out.
MayExecutePassedOver(r) == round[r].status \in {"pending", "executing"}

\* The WHERE clause of claim_pending_for_execution.
MayExecute(r) == round[r].status = "pending" /\ r \notin expired /\ r \in claims

\* "approve": the record is claimed for execution and the work enqueued in one
\* transaction; if another answer came first the message is an ordinary one.
Approve(r) ==
    LET k == issued[r] + 1
    IN  /\ Answer(r)
        /\ IF MayExecute(r)
           THEN /\ Set(r, Claimed(round[r], k))
                /\ issued' = [issued EXCEPT ![r] = k]
                /\ claims' = claims \ {r}
                /\ ready' = ready \cup {[r |-> r, k |-> k]}
           ELSE UNCHANGED <<round, issued, claims, ready>>
        /\ UNCHANGED <<cards, expired, exec, lost, sweep, ran, faults>>

\* "reject": what close_pending returns is ignored.
Reject(r) ==
    /\ Answer(r)
    /\ ClosePending(r, "rejected")
    /\ UNCHANGED <<issued, cards, expired, ready, exec, lost, sweep, ran, faults>>

\* Any other text: cancel_persisted_pending_confirmation_bundle, which raises if the
\* record is neither PENDING nor CANCELLED; nothing is written then.
OtherText(r) ==
    /\ Answer(r)
    /\ ClosePending(r, "cancelled")
    /\ UNCHANGED <<issued, cards, expired, ready, exec, lost, sweep, ran, faults>>

\* expires_at passes.
Expire(r) ==
    /\ round[r].status = "pending" /\ r \notin expired
    /\ expired' = expired \cup {r}
    /\ UNCHANGED <<round, issued, claims, cards, ready, exec, lost, sweep, asked, ran, faults>>

-----------------------------------------------------------------------------
(* The audit of a round: audit_tool_round *)

\* claim_next gave a work of the session to a new claim: no other one is live.
MayBegin(e) ==
    /\ At(e, "idle")
    /\ \A f \in Executors : ~Live(f) /\ (f < e => ~At(f, "idle"))

\* A reply has come to a tool round.
BeginReply(e) ==
    /\ MayBegin(e) /\ Unused # {}
    /\ Goto(e, "supersede")
    /\ UNCHANGED <<round, claims, rest>>

\* cancel_confirmation_by_session: get_confirmation_claim, and after it
\* cancel_persisted_pending_confirmation_bundle on what it found.
Supersede(e) ==
    /\ At(e, "supersede")
    /\ \E r \in IF claims = {} THEN {NoRecord} ELSE claims :
           exec' = [exec EXCEPT ![e].pc = IF r = NoRecord THEN "create" ELSE "close", ![e].stale = r]
    /\ UNCHANGED <<round, claims, lost, rest>>

\* The claim that was found may have been answered since: LookupError.
Close(e) ==
    LET r == exec[e].stale
    IN  /\ At(e, "close")
        /\ ClosePending(r, "cancelled")
        /\ Goto(e, IF round[r].status \in {"pending", "cancelled"} THEN "create" ELSE "handler")
        /\ UNCHANGED rest

\* create_preparing.
Create(e) ==
    /\ Fenced(e, "create")
    /\ \E r \in Records :
        /\ IsNext(r)
        /\ Set(r, [NewRound EXCEPT !.status = "preparing"])
        /\ exec' = [exec EXCEPT ![e].pc = "audit", ![e].at = [r |-> r, k |-> 0]]
    /\ UNCHANGED <<claims, lost, rest>>

\* Where the dispatcher, or the confirmed work after cancelling the round it had, goes
\* with the result of the audit.
AfterAudit(e, s) ==
    IF exec[e].was # NoBinding THEN "retire"
    ELSE CASE s = "pending" -> "offer" [] s = "passed" -> "claim" [] OTHER -> "idle"

\* complete_preparation: PREPARING becomes what the auditor concluded; if the record
\* was cancelled meanwhile the round is reported as AUDIT_FAILED.
Audited(e, s) ==
    LET said == IF round[Here(e)].status = "preparing" THEN s ELSE "audit_failed"
    IN  /\ Fenced(e, "audit")
        /\ IF round[Here(e)].status = "preparing" THEN Set(Here(e), [round[Here(e)] EXCEPT !.status = s])
           ELSE UNCHANGED round
        /\ IF AfterAudit(e, said) = "idle" THEN Exit(e)
           ELSE /\ exec' = [exec EXCEPT ![e].pc = AfterAudit(e, said), ![e].said = said]
                /\ UNCHANGED lost
        /\ UNCHANGED <<claims, rest>>

\* Mutant: the confirmation claim is forgotten.
OfferUnclaimed(e) ==
    /\ Fenced(e, "offer")
    /\ shown' = shown \cup {Here(e)}
    /\ Goto(e, "shown")
    /\ UNCHANGED <<round, claims, issued, reshown, expired, ready, sweep, asked, ran, faults>>

\* persist_pending_confirmation_bundle: tool results, card and confirmation claim in
\* one transaction. A claim of another record breaks the unique key of the session.
Offer(e) ==
    LET r == Here(e)
    IN  /\ Fenced(e, "offer")
        /\ IF round[r].status = "pending" /\ claims \subseteq {r}
           THEN /\ shown' = shown \cup {r}
                /\ claims' = claims \cup {r}
                /\ Goto(e, "shown")
                /\ UNCHANGED round
           ELSE /\ IF round[r].status = "pending" THEN Set(r, Closed(round[r], "audit_failed"))
                   ELSE UNCHANGED round
                /\ Goto(e, "handler")
                /\ UNCHANGED <<claims, shown>>
        /\ UNCHANGED <<issued, reshown, expired, ready, sweep, asked, ran, faults>>

\* A newer user message comes first: persist_cancelled_pending_audit_results before the
\* card is shown, supersede_persisted_pending_confirmation_bundle after.
Absorb(e) ==
    /\ At(e, "offer") \/ At(e, "shown")
    /\ ClosePending(Here(e), "cancelled")
    /\ IF \/ round[Here(e)].status = "pending"
          \/ round[Here(e)].status = "cancelled" /\ At(e, "shown")
       THEN Exit(e)
       ELSE Goto(e, "handler")
    /\ UNCHANGED rest

\* The card is the answer of the work.
Offered(e) ==
    /\ At(e, "shown")
    /\ Exit(e)
    /\ UNCHANGED <<round, claims, rest>>

-----------------------------------------------------------------------------
(* Execution of a round *)

\* The consumer claims a confirmed work, under the binding saved with it.
BeginConfirmed(e, b) ==
    /\ MayBegin(e) /\ b \in ready
    /\ exec' = [exec EXCEPT ![e] = [Idle EXCEPT !.pc = "check", !.kind = "confirmed", !.at = b, !.bind = b]]
    /\ ready' = ready \ {b}
    /\ UNCHANGED <<round, issued, claims, cards, expired, lost, sweep, asked, ran, faults>>

\* _execute_confirmed_tools: the record must execute under the work's token; what else
\* is validated may be found changed. Invalid: mark_source_message_invalid.
SourceInvalid(e) ==
    /\ At(e, "check")
    /\ IF Executing(round[Here(e)], exec[e].at.k) THEN Set(Here(e), Closed(round[Here(e)], "failed"))
       ELSE UNCHANGED round
    /\ Exit(e)
    /\ UNCHANGED <<claims, rest>>

SourceValid(e) ==
    /\ At(e, "check")
    /\ Executing(round[Here(e)], exec[e].at.k)
    /\ Goto(e, "attempt")
    /\ UNCHANGED <<round, claims, rest>>

\* A file the command names has changed: the round is audited again.
FilesChanged(e) ==
    /\ At(e, "check") /\ Unused # {}
    /\ Executing(round[Here(e)], exec[e].at.k)
    /\ exec' = [exec EXCEPT ![e].pc = "supersede", ![e].was = exec[e].at]
    /\ UNCHANGED <<round, claims, lost, rest>>

\* cancel_execution_for_file_reaudit on the confirmed round, whatever the re-audit said.
Retire(e) ==
    LET b == exec[e].was
    IN  /\ At(e, "retire")
        /\ IF Executing(round[b.r], b.k) THEN Set(b.r, Closed(round[b.r], "cancelled")) ELSE UNCHANGED round
        /\ CASE exec[e].said = "pending" -> Goto(e, "reshow")
             [] exec[e].said = "passed" -> Goto(e, "claim")
             [] OTHER -> Exit(e)
        /\ UNCHANGED <<claims, rest>>

\* The re-audited round needs a confirmation: its card is saved, and nothing else.
Reshow(e) ==
    /\ Fenced(e, "reshow")
    /\ reshown' = reshown \cup {Here(e)}
    /\ Exit(e)
    /\ UNCHANGED <<round, issued, claims, shown, expired, ready, sweep, asked, ran, faults>>

\* claim_passed_for_execution. The commit may be the last thing the executor does: a
\* cancellation that arrives during it is raised after it.
ClaimPassed(e) ==
    LET r == Here(e)
        k == issued[r] + 1
    IN  /\ Fenced(e, "claim")
        /\ IF round[r].status = "passed"
           THEN /\ Set(r, Claimed(round[r], k))
                /\ issued' = [issued EXCEPT ![r] = k]
                /\ \/ /\ exec' = [exec EXCEPT ![e].at.k = k,
                                             ![e].pc = IF exec[e].kind = "confirmed" THEN "bind" ELSE "attempt"]
                      /\ UNCHANGED faults
                   \/ Fault /\ exec' = [exec EXCEPT ![e].pc = "handler"]
           ELSE /\ exec' = [exec EXCEPT ![e].pc = "handler"]
                /\ UNCHANGED <<round, issued, faults>>
        /\ UNCHANGED <<claims, cards, expired, ready, lost, sweep, asked, ran>>

\* create_execution_attempt for each tool call; a refusal gives the round up.
CreateAttempts(e, t) ==
    /\ Fenced(e, "attempt")
    /\ round[Here(e)].attempts[t] = "none"
    /\ \A u \in Tools : u < t => round[Here(e)].attempts[u] # "none"
    /\ IF Executing(round[Here(e)], exec[e].at.k)
       THEN Set(Here(e), CreateAttempt(round[Here(e)], t)) /\ UNCHANGED <<exec, lost>>
       ELSE Goto(e, "abort") /\ UNCHANGED round
    /\ UNCHANGED <<claims, rest>>

AllAttempted(e) ==
    /\ Fenced(e, "attempt")
    /\ Attempted(round[Here(e)], "none") = {}
    /\ Goto(e, IF exec[e].kind = "reply" THEN "bind" ELSE "run")
    /\ UNCHANGED <<round, claims, rest>>

\* The round is bound to the work's row, fenced by its claim: in the checkpoint of a
\* reply, before its first tool; _persist_confirmed_work_audit_execution_binding for a
\* re-audited round, before its first attempt.
Bind(e) ==
    /\ Fenced(e, "bind")
    /\ exec' = [exec EXCEPT ![e].bind = exec[e].at,
                           ![e].pc = IF exec[e].kind = "reply" THEN "run" ELSE "attempt"]
    /\ UNCHANGED <<round, claims, lost, rest>>

\* The prechecks of a confirmed round fail before its first tool.
Precheck(e) ==
    /\ At(e, "run") /\ exec[e].kind = "confirmed" /\ exec[e].started = {}
    /\ Goto(e, "abort")
    /\ UNCHANGED <<round, claims, rest>>

\* The attempts made are cancelled one by one, then the round is closed as FAILED.
AbortAttempts(e) ==
    /\ At(e, "abort")
    /\ Set(Here(e), FinishAttempts(round[Here(e)], Tools, "cancelled"))
    /\ Goto(e, "giveup")
    /\ UNCHANGED <<claims, rest>>

AbortRound(e) ==
    /\ At(e, "giveup")
    /\ Set(Here(e), FinishRound(round[Here(e)], exec[e].at.k, "failed"))
    /\ IF exec[e].kind = "confirmed" /\ ~Executing(round[Here(e)], exec[e].at.k) THEN Goto(e, "handler") ELSE Exit(e)
    /\ UNCHANGED <<claims, rest>>

\* process_single_tool, after its fence: the tools of a reply run side by side, those
\* of a confirmed round in their order, one after another.
StartTool(e, t) ==
    /\ Fenced(e, "run") /\ t \notin exec[e].started
    /\ exec[e].kind = "reply" \/ exec[e].ended = {u \in Tools : u < t}
    /\ exec' = [exec EXCEPT ![e].started = @ \cup {t}]
    /\ ran' = [ran EXCEPT ![Here(e)][t] = @ + 1]
    /\ UNCHANGED <<round, issued, claims, cards, expired, ready, lost, sweep, asked, faults>>

\* The tool returns, or times out, and its attempt is finished.
ToolEnds(e, t, s) ==
    /\ At(e, "run") /\ t \in exec[e].started \ exec[e].ended
    /\ Set(Here(e), FinishAttempt(round[Here(e)], t, s))
    /\ exec' = [exec EXCEPT ![e].ended = @ \cup {t}]
    /\ UNCHANGED <<claims, lost, rest>>

\* finish_execution_round_if_complete; the reply goes on with its next turn.
Finish(e) ==
    /\ At(e, "run") /\ exec[e].ended = Tools
    /\ Set(Here(e), FinishIfComplete(round[Here(e)], exec[e].at.k))
    /\ Exit(e)
    /\ UNCHANGED <<claims, rest>>

-----------------------------------------------------------------------------
(* Errors, lost claims, stops and restarts *)

\* Mutant: the tool that is running is cancelled with the others.
OnCancelEveryTool(e) == FinishAttempts(round[Here(e)], Tools, "cancelled")

\* The CancelledError handler of _execute_confirmed_tools: only what was not started.
OnCancel(e) == FinishAttempts(round[Here(e)], Tools \ exec[e].started, "cancelled")

\* CancelledError at the executor's next statement: it is lost, or cancelled. What the
\* code it is in does with the round before the error reaches _run_claimed.
Cancelled(e) ==
    /\ exec[e].pc \notin {"idle", "handler"}
    /\ IF e \in lost THEN UNCHANGED faults ELSE Fault
    /\ CASE At(e, "audit") ->
               /\ Set(Here(e), CancelUnexecuted(round[Here(e)]))
               /\ claims' = claims \ {Here(e)}
         [] exec[e].pc \in {"attempt", "bind"} /\ exec[e].kind = "reply" ->
               Set(Here(e), MarkUnknown(round[Here(e)], exec[e].at.k)) /\ UNCHANGED claims
         [] At(e, "bind") /\ exec[e].kind = "confirmed" ->
               Set(Here(e), MarkUnknownReliably(round[Here(e)], exec[e].at.k)) /\ UNCHANGED claims
         [] At(e, "run") /\ exec[e].kind = "confirmed" ->
               Set(Here(e), OnCancel(e)) /\ UNCHANGED claims
         [] OTHER -> UNCHANGED <<round, claims>>
    /\ Goto(e, "handler")
    /\ UNCHANGED <<issued, cards, expired, ready, sweep, asked, ran>>

\* Any other exception. audit_tool_round and _execute_confirmed_tools do not catch it.
Fails(e) ==
    /\ exec[e].pc \notin {"idle", "handler"}
    /\ Fault
    /\ IF exec[e].pc \in {"attempt", "bind"} /\ exec[e].kind = "reply"
       THEN Set(Here(e), MarkUnknown(round[Here(e)], exec[e].at.k))
       ELSE IF At(e, "bind")
       THEN Set(Here(e), MarkUnknownReliably(round[Here(e)], exec[e].at.k))
       ELSE UNCHANGED round
    /\ Goto(e, "handler")
    /\ UNCHANGED <<issued, claims, cards, expired, ready, sweep, asked, ran>>

\* Mutant: a round that is bound to the work is left alone.
HandledNot(b) == UNCHANGED round

\* mark_work_audit_execution_unknown: nothing if no round is bound to the work.
Handled(b) == IF b = NoBinding THEN UNCHANGED round ELSE Set(b.r, MarkUnknownReliably(round[b.r], b.k))

\* The handlers of _run_claimed.
Handler(e) ==
    /\ At(e, "handler")
    /\ Handled(exec[e].bind)
    /\ Exit(e)
    /\ UNCHANGED <<claims, rest>>

\* recover_expired takes the work of a late executor; if a round is bound to it,
\* _recover_expired marks that round next.
Sweep(e) ==
    /\ Live(e)
    /\ Fault
    /\ lost' = lost \cup {e}
    /\ sweep' = IF exec[e].bind = NoBinding THEN sweep ELSE sweep \cup {exec[e].bind}
    /\ UNCHANGED <<round, issued, claims, cards, expired, ready, exec, asked, ran>>

SweepMark(b) ==
    /\ b \in sweep
    /\ Handled(b)
    /\ sweep' = sweep \ {b}
    /\ UNCHANGED <<issued, claims, cards, expired, ready, exec, lost, asked, ran, faults>>

\* stop_interactive_reply: the works of the session are cancelled and so is every round
\* that has not begun, in one transaction.
Stop ==
    /\ Fault
    /\ round' = [r \in Records |-> CancelUnexecuted(round[r])]
    /\ claims' = {r \in claims : CancelUnexecuted(round[r]) = round[r]}
    /\ ready' = {}
    /\ lost' = {e \in Executors : ~At(e, "idle")}
    /\ UNCHANGED <<issued, cards, expired, exec, sweep, asked, ran>>

\* The service stops and starts again: recover_and_cleanup_audit_data runs before
\* anything else. Queued works are still there, claimed ones run out of their lease.
Restart ==
    LET over == {r \in expired : round[r].status = "pending"}
    IN  /\ Fault
        /\ round' = [r \in Records |-> IF r \in over THEN Closed(round[r], "expired") ELSE Recovered(round[r])]
        /\ claims' = claims \ over
        /\ exec' = [e \in Executors |-> Idle]
        /\ lost' = {} /\ sweep' = {}
        /\ asked' = [r \in Records |-> 0]
        /\ UNCHANGED <<issued, cards, expired, ready, ran>>

-----------------------------------------------------------------------------
(* Specification *)

Decision(r) == Approve(r) \/ Reject(r) \/ OtherText(r)

Audit(e) ==
    \/ Supersede(e) \/ Close(e) \/ Create(e) \/ Offer(e) \/ Absorb(e) \/ Offered(e)
    \/ \E s \in {"passed", "pending", "blocked", "audit_failed"} : Audited(e, s)

Execute(e) ==
    \/ SourceInvalid(e) \/ SourceValid(e) \/ FilesChanged(e) \/ Retire(e) \/ Reshow(e)
    \/ ClaimPassed(e) \/ AllAttempted(e) \/ Bind(e) \/ Precheck(e)
    \/ AbortAttempts(e) \/ AbortRound(e) \/ Finish(e) \/ Handler(e)
    \/ \E t \in Tools : CreateAttempts(e, t) \/ StartTool(e, t)
    \/ \E t \in Tools, s \in {"succeeded", "failed", "unknown"} : ToolEnds(e, t, s)

Next ==
    \/ Submit
    \/ \E r \in Records : Decision(r) \/ Expire(r)
    \/ \E e \in Executors : BeginReply(e) \/ Audit(e) \/ Execute(e) \/ Cancelled(e) \/ Fails(e) \/ Sweep(e)
    \/ \E e \in Executors, b \in ready : BeginConfirmed(e, b)
    \/ \E b \in sweep : SweepMark(b)
    \/ Stop
    \/ Restart

Spec == Init /\ [][Next]_vars

\* Executors and the sweep are asyncio tasks that go on; the tools have timeouts; a
\* lost executor meets its fence; the consumer claims what is queued.
FairSpec ==
    /\ Spec
    /\ \A e \in Executors : WF_vars(Audit(e) \/ Execute(e) \/ (e \in lost /\ Cancelled(e)))
    /\ WF_vars(\E e \in Executors, b \in ready : BeginConfirmed(e, b))
    /\ WF_vars(\E b \in sweep : SweepMark(b))

-----------------------------------------------------------------------------
(* Properties *)

\* A tool call is carried out at most once, whatever is retried, confirmed twice or
\* recovered: claim_pending_for_execution and claim_passed_for_execution hand out one
\* token per record, and an executor that lost its work starts nothing.
RunsOnce == \A r \in Records, t \in Tools : ran[r][t] <= 1

\* What is recorded of a round is what happened: a tool call of a rejected, expired or
\* blocked round was not started, nor was one whose attempt was cancelled or never
\* made; one whose attempt ended with a result was.
RecordIsTrue ==
    \A r \in Records, t \in Tools :
        /\ ran[r][t] > 0 => /\ round[r].status \in {"executing", "succeeded", "failed", "cancelled", "unknown"}
                            /\ round[r].attempts[t] \notin {"none", "cancelled"}
        /\ round[r].attempts[t] \in {"succeeded", "failed"} => ran[r][t] > 0

Life == INSTANCE AuditLifecycle

\* The audit records go their way: a late decision, expiry, stop, sweep or executor does
\* not reopen or rewrite a record that has ended, an attempt ends once, and a record ends
\* when nothing of it runs, with a status that its attempts bear out.
ImplementsAuditLifecycle == Life!Spec

\* The card a user sees can be answered until it expires: its confirmation claim is
\* there, as get_current_confirmation and claim_pending_for_execution need, and it is
\* the only one of the session.
CardCanBeAnswered ==
    /\ \A r \in shown \ expired : round[r].status = "pending" => r \in claims
    /\ Cardinality(claims) <= 1

\* The same of the card saved by a re-audit (executor_confirmed.py), which says "Reply
\* only approve or continue to run it, or reject to cancel".
ReshownCanBeAnswered ==
    \A r \in reshown \ expired : round[r].status = "pending" => r \in claims

\* A round that executes and has attempts is somebody's: an executor has it in hand or
\* bound to its work, or the sweep is about to mark it. Otherwise it would stay
\* EXECUTING until the next start of the service.
NoOrphanedRound ==
    \A r \in Records :
        round[r].status = "executing" /\ Attempted(round[r], "none") # Tools =>
            \/ \E e \in Executors : exec[e].pc # "idle" /\ r \in {exec[e].at.r, exec[e].bind.r}
            \/ \E b \in sweep : b.r = r

\* An approved round, and a round with attempts, ends: by its executor, by the handlers
\* of its work's failure or by the sweep.
RoundEnds ==
    \A r \in Records :
        (round[r].status = "executing" /\ (Attempted(round[r], "none") # Tools \/ \E b \in ready : b.r = r))
            ~> round[r].status \in RecordEnds
=============================================================================
