------------------------------- MODULE AuditRound -------------------------------
(***************************************************************************)
(* One audited tool round: the audit record with its execution claim token *)
(* and the execution attempts of its tool calls, and the conditional        *)
(* UPDATEs of crud/audit on them. A round is a value; an operator returns   *)
(* the round after the statement, which is the same round if no row         *)
(* matches. AuditExecution runs rounds in the foreground, BackgroundTask    *)
(* and TerminalSession finish the attempts that were handed to them.        *)
(***************************************************************************)
EXTENDS Naturals

CONSTANT Tools      \* the tool calls of a round; every one gets one attempt

RecordStatus == {"absent", "preparing", "passed", "blocked", "audit_failed", "pending",
                 "rejected", "expired", "cancelled", "executing", "succeeded", "failed",
                 "unknown"}

\* The statuses nothing leads out of.
RecordEnds == RecordStatus \ {"absent", "preparing", "passed", "pending", "executing"}

\* "none": no AuditExecutionRecord of the tool call yet.
AttemptStatus == {"none", "running", "succeeded", "failed", "cancelled", "unknown"}

\* token 0: execution_claim_token IS NULL. The attempts carry the token of the
\* claim that made them.
Round == [status: RecordStatus, token: Nat, attempts: [Tools -> AttemptStatus]]

NewRound == [status |-> "absent", token |-> 0, attempts |-> [t \in Tools |-> "none"]]

\* status = EXECUTING and execution_claim_token = k.
Executing(x, k) == x.status = "executing" /\ x.token = k

Attempted(x, s) == {t \in Tools : x.attempts[t] = s}

\* The record with a final status: the token is cleared with it.
Closed(x, s) == [x EXCEPT !.status = s, !.token = 0]

\* The attempts of T end with s.
Attempts(x, T, s) == [x EXCEPT !.attempts = [t \in Tools |-> IF t \in T THEN s ELSE @[t]]]

-----------------------------------------------------------------------------
(* Claims *)

\* build_pending_execution_claim_update and build_passed_execution_claim_update: the
\* values they write.
Claimed(x, k) == [x EXCEPT !.status = "executing", !.token = k]

\* cancel_unexecuted: what has not begun to execute is cancelled.
CancelUnexecuted(x) ==
    IF \/ x.status \in {"preparing", "passed", "pending"}
       \/ x.status = "executing" /\ Attempted(x, "none") = Tools
    THEN Closed(x, "cancelled")
    ELSE x

-----------------------------------------------------------------------------
(* Attempts *)

\* create_execution_attempt, once the record is found EXECUTING under the token.
CreateAttempt(x, t) == Attempts(x, {t}, "running")

\* finish_execution_attempt and cancel_execution_attempt: a RUNNING attempt of a
\* record that still executes under the attempt's token.
MayFinish(x, t) == x.status = "executing" /\ x.attempts[t] = "running"

FinishAttempts(x, T, s) == Attempts(x, {t \in T : MayFinish(x, t)}, s)

FinishAttempt(x, t, s) == FinishAttempts(x, {t}, s)

\* Mutant: the first case, of an attempt nothing is known of, is dropped.
OutcomeKnown(x) ==
    CASE Attempted(x, "cancelled") # {} -> "cancelled"
      [] Attempted(x, "cancelled") = {} /\ Attempted(x, "failed") # {} -> "failed"
      [] OTHER -> "succeeded"

\* The CASE expression of finish_execution_round_if_complete.
Outcome(x) ==
    CASE Attempted(x, "unknown") # {}   -> "unknown"
      [] Attempted(x, "unknown") = {} /\ Attempted(x, "cancelled") # {} -> "cancelled"
      [] Attempted(x, "unknown") \cup Attempted(x, "cancelled") = {} /\ Attempted(x, "failed") # {} -> "failed"
      [] OTHER -> "succeeded"

\* Every tool call has an attempt and none is running.
IsComplete(x, k) == Executing(x, k) /\ Attempted(x, "running") \cup Attempted(x, "none") = {}

\* Mutant: the first attempt that ends finishes the round.
FinishAnyway(x, k) == IF Executing(x, k) THEN Closed(x, Outcome(x)) ELSE x

\* finish_execution_round_if_complete.
FinishIfComplete(x, k) == IF IsComplete(x, k) THEN Closed(x, Outcome(x)) ELSE x

\* finish_execution_round; it raises while an attempt is RUNNING.
FinishRound(x, k, s) ==
    IF Executing(x, k) /\ Attempted(x, "running") = {} THEN Closed(x, s) ELSE x

\* Mutant: the record is left to the handler, which does not run again.
MarkUnknownAttempts(x, k) == Attempts(x, Attempted(x, "running"), "unknown")

\* mark_execution_unknown without an execution id: nothing if no attempt is RUNNING.
MarkUnknown(x, k) ==
    LET running == Attempted(x, "running")
        y       == Attempts(x, running, "unknown")
    IN  IF running = {} THEN x ELSE IF Executing(x, k) THEN Closed(y, "unknown") ELSE y

\* mark_execution_unknown for the attempt of t, which takes the other RUNNING ones along.
MarkAttemptUnknown(x, k, t) == IF x.attempts[t] = "running" THEN MarkUnknown(x, k) ELSE x

\* mark_running_executions_unknown_except: the record itself goes on.
MarkUnknownExcept(x, T) == Attempts(x, Attempted(x, "running") \ T, "unknown")

\* _mark_audit_execution_unknown_reliably: complete the round, or mark it unknown, or
\* close it as unknown if it has no RUNNING attempt.
MarkUnknownReliably(x, k) ==
    IF IsComplete(x, k) THEN FinishIfComplete(x, k)
    ELSE IF Attempted(x, "running") # {} THEN MarkUnknown(x, k)
    ELSE FinishRound(x, k, "unknown")

\* recover_interrupted and recover_preparing, when the service starts.
Recovered(x) ==
    LET y == Attempts(x, Attempted(x, "running"), "unknown")
    IN  CASE x.status = "executing" -> Closed(y, "unknown")
          [] x.status = "preparing" -> Closed(y, "audit_failed")
          [] OTHER -> y
-----------------------------------------------------------------------------
(* The life of a round: what a step of any part may do to it *)

\* All calls of the round are under way: where the modules of the calls that were handed
\* over come in.
UnderWay(x) == x.status = "executing" /\ x.token # 0 /\ Attempted(x, "running") = Tools

Decisions ==
    {<<"absent", "preparing">>}
      \cup ({"preparing"} \X {"passed", "blocked", "pending", "audit_failed", "cancelled"})
      \cup ({"pending"} \X {"rejected", "expired", "cancelled"})
      \cup {<<"passed", "cancelled">>}

\* It is audited and decided on: nothing of it has been executed or will be.
Decided(x, y) ==
    /\ <<x.status, y.status>> \in Decisions
    /\ Attempted(x, "none") = Tools /\ y.attempts = x.attempts
    /\ y.token = 0

\* It passed or was confirmed and is taken for execution, once.
Taken(x, y) == x.status \in {"passed", "pending"} /\ y.token # 0 /\ y = Claimed(x, y.token)

\* A tool call is about to be started.
AttemptMade(x, y) ==
    /\ x.status = "executing"
    /\ \E t \in Tools : x.attempts[t] = "none" /\ y = CreateAttempt(x, t)

\* The record says of its attempts what is the case.
Says(x) ==
    CASE x.status = "succeeded" -> Attempted(x, "succeeded") = Tools
      [] x.status \in {"failed", "cancelled"} -> Attempted(x, "unknown") = {}
      [] OTHER -> x.status = "unknown"

\* RUNNING attempts end, each once, and the record with the last of them or without any.
Ending(x, y) ==
    /\ x.status = "executing"
    /\ \A t \in Tools :
        \/ y.attempts[t] = x.attempts[t]
        \/ x.attempts[t] = "running" /\ y.attempts[t] # "none"
    /\ \/ y.status = "executing" /\ y.token = x.token
       \/ Says(y) /\ y.token = 0 /\ Attempted(y, "running") = {}

LifeStep(x, y) == Decided(x, y) \/ Taken(x, y) \/ AttemptMade(x, y) \/ Ending(x, y) \/ y = x
=============================================================================
