---------------------------- MODULE TerminalSession ----------------------------
(***************************************************************************)
(* Interactive terminals: a shell tool call that was handed over to a       *)
(* terminal session (core/terminal, crud/terminal/session.py).              *)
(*                                                                          *)
(* One session row, the control commands sent to it, the audited round      *)
(* whose attempt Shell stands for the session, and the terminal workers. A  *)
(* worker is the coordinator of one process: it claims a session, runs it   *)
(* in a runtime task that owns the shell process, and recovers sessions of  *)
(* workers that are gone. Workers normally follow each other under a role   *)
(* lease (WorkerLease); here they may overlap at any time.                  *)
(*                                                                          *)
(* Abstracted: output and its offsets, watches (only the command results    *)
(* stored with them), resizing, unaudited sessions, which skip the audit    *)
(* statements, and time: a lease may run out when its worker is late or     *)
(* gone. Killing a process by its recorded identity succeeds; closing one   *)
(* by its own driver may fail, each time anew.                              *)
(***************************************************************************)
EXTENDS AuditRound

CONSTANTS
    Workers,        \* worker ids, a set of positive numbers; a crashed one is not reused
    Commands,       \* ids of control commands, 1..n
    Shell,          \* the tool call that is the session; the others run in the reply
    MaxFaults       \* bound on crashes, stops, late leases and errors

ASSUME TerminalAssumption ==
    /\ Workers \subseteq Nat \ {0}
    /\ Commands \subseteq Nat \ {0}
    /\ Shell \in Tools
    /\ MaxFaults \in Nat

VARIABLES
    row,            \* the row of terminal_session; proc: the worker in process_identity
    lapsed,         \* its lock_until has passed
    rowlock,        \* the worker whose open transaction holds the row, or 0
    round,          \* the audited round
    cmd, kind,      \* the control commands
    told,           \* command results stored with the completion of the session
    coord,          \* TerminalWorkerCoordinator._run, per worker
    pc,             \* the worker's runtime task for the session
    local,          \* its _status
    flag,           \* its _stop_event and _lease_lost_confirmed
    cur, last,      \* its command in hand and _last_completed_command_id
    alive,          \* workers whose shell process is alive
    reply,          \* the reply whose round it is: live, or what its interruption found
    starts,         \* how often a shell process was started
    handed,         \* how often a shutdown has given a STARTING session back
    faults

vars == <<row, lapsed, rowlock, round, cmd, kind, told, coord, pc, local, flag, cur, last,
          alive, reply, starts, handed, faults>>

-----------------------------------------------------------------------------
(* State *)

Active == {"starting", "running", "closing"}

\* TERMINAL_SESSION_FINAL_STATUSES
Final == {"exited", "failed", "lost"}

Status == Active \cup Final

Unfinished == {"pending", "processing"}

Owner == Workers \cup {0}

TypeOK ==
    /\ row \in [status: Status \cup {"absent", "settled", "deleted"}, by: Owner, proc: Owner]
    /\ lapsed \in BOOLEAN /\ handed \in Nat
    /\ rowlock \in Owner
    /\ round \in Round
    /\ cmd \in [Commands -> Unfinished \cup {"none", "succeeded", "failed", "deleted"}]
    /\ kind \in [Commands -> {"none", "read", "write", "close"}]
    /\ told \in [Commands -> {"nothing", "succeeded", "failed"}]
    /\ coord \in [Workers -> {"polling", "recovering", "stopping", "releasing", "off", "dead"}]
    /\ pc \in [Workers -> {"none", "claimed", "starting", "failing", "serving", "command", "closing",
                           "answer", "refuse", "ending", "finalize", "unclosed", "release", "settle"}]
    /\ local \in [Workers -> Status]
    /\ flag \in [Workers -> {"run", "stop", "lost"}]
    /\ cur \in [Workers -> Commands \cup {0}] /\ last \in [Workers -> Commands \cup {0}]
    /\ alive \subseteq Workers
    /\ reply \in {"live", "spares", "marks", "over"}
    /\ starts \in Nat
    /\ faults \in 0..MaxFaults

\* The token of the round and its attempts.
Token == 1

Init ==
    /\ row = [status |-> "absent", by |-> 0, proc |-> 0]
    /\ lapsed = FALSE /\ handed = 0
    /\ rowlock = 0
    /\ round = [status |-> "executing", token |-> Token, attempts |-> [t \in Tools |-> "running"]]
    /\ cmd = [c \in Commands |-> "none"] /\ kind = [c \in Commands |-> "none"]
    /\ told = [c \in Commands |-> "nothing"]
    /\ coord = [w \in Workers |-> "polling"]
    /\ pc = [w \in Workers |-> "none"]
    /\ local = [w \in Workers |-> "starting"]
    /\ flag = [w \in Workers |-> "run"]
    /\ cur = [w \in Workers |-> 0] /\ last = [w \in Workers |-> 0]
    /\ alive = {}
    /\ reply = "live"
    /\ starts = 0
    /\ faults = 0

Fault == faults < MaxFaults /\ faults' = faults + 1

\* locked_by = w and lock_until >= now.
Mine(w) == row.by = w /\ ~lapsed

\* can_transition_terminal_status
CanMove(s, t) ==
    \/ s = t /\ s \in Status
    \/ s = "starting" /\ t \in Status
    \/ s = "running" /\ t \in Status \ {"starting"}
    \/ s = "closing" /\ t \in Final

\* update_runtime_snapshot matches the row. It reads the status first and compares it
\* in the UPDATE, so that a status written in between refuses it as well.
Updated(w, s) == CanMove(row.status, s) /\ Mine(w)

Goto(w, to) == pc' = [pc EXCEPT ![w] = to]

\* _TerminalLeaseLost: the runtime ends without writing anything more.
Lose(w) == flag' = [flag EXCEPT ![w] = "lost"] /\ Goto(w, "ending")

\* close of the driver, in the end successful.
Closes(w) == alive' = alive \ {w} /\ UNCHANGED faults

\* close of the driver raises, its forced repetition too: the shell may live on.
CloseFails(w) == Fault /\ alive' \in {alive, alive \ {w}}

\* The runtime task is over and forgotten by its coordinator.
Done(w) ==
    /\ Goto(w, "none")
    /\ local' = [local EXCEPT ![w] = "starting"]
    /\ flag' = [flag EXCEPT ![w] = "run"]
    /\ cur' = [cur EXCEPT ![w] = 0] /\ last' = [last EXCEPT ![w] = 0]

\* fail_unfinished_commands
Failed == [c \in Commands |-> IF cmd[c] \in Unfinished THEN "failed" ELSE cmd[c]]

\* Mutant: the audit of a lost session is left to the startup recovery.
FinalizedUnlessLost(s, a) ==
    IF s \in Final \ {"lost"} /\ MayFinish(round, Shell)
    THEN FinishIfComplete(FinishAttempt(round, Shell, a), Token)
    ELSE round

\* finalize_terminal_session_audit, in the transaction that writes the final status s.
Finalized(s, a) ==
    IF s \in Final /\ MayFinish(round, Shell)
    THEN FinishIfComplete(FinishAttempt(round, Shell, a), Token)
    ELSE round

\* _update_runtime_snapshot: status s or the loss of the lease.
Update(w, s, a, next) ==
    /\ rowlock = 0
    /\ IF Updated(w, s)
       THEN /\ row' = [row EXCEPT !.status = s]
            /\ round' = Finalized(s, a)
            /\ local' = [local EXCEPT ![w] = s]
            /\ Goto(w, next) /\ UNCHANGED flag
       ELSE Lose(w) /\ UNCHANGED <<row, round, local>>

commands == <<cmd, kind, told>>
runtimes == <<pc, local, flag, cur, last>>
counters == <<starts, handed, reply>>

-----------------------------------------------------------------------------
(* Starting *)

\* create_session
CreateSession ==
    /\ row.status = "absent" /\ reply = "live" /\ MayFinish(round, Shell)
    /\ row' = [row EXCEPT !.status = "starting"]
    /\ UNCHANGED <<lapsed, rowlock, round, commands, coord, runtimes, alive, counters, faults>>

\* Mutant: a claim that has run out is claimed to be started.
MayStartAgain == row.status = "starting" /\ (row.by = 0 \/ lapsed)

\* claim_next_starting: only a session nobody has claimed.
MayStart == row.status = "starting" /\ row.by = 0

ClaimStarting(w) ==
    /\ coord[w] = "polling" /\ pc[w] = "none" /\ rowlock = 0
    /\ MayStart
    /\ row' = [row EXCEPT !.by = w] /\ lapsed' = FALSE
    /\ Goto(w, "claimed")
    /\ UNCHANGED <<rowlock, round, commands, coord, local, flag, cur, last, alive, counters, faults>>

\* _initialize: the row is locked by its owner, whether the lease has run out or not,
\* and the shell is started with the transaction open.
Initialize(w) ==
    /\ pc[w] = "claimed" /\ rowlock = 0
    /\ IF row.by = w
       THEN /\ rowlock' = w /\ alive' = alive \cup {w} /\ starts' = starts + 1
            /\ Goto(w, "starting") /\ UNCHANGED flag
       ELSE Lose(w) /\ UNCHANGED <<rowlock, alive, starts>>
    /\ UNCHANGED <<row, lapsed, round, commands, coord, local, cur, last, handed, reply, faults>>

\* The end of _initialize: RUNNING with the process identity, or rolled back.
Started(w) ==
    /\ pc[w] = "starting"
    /\ rowlock' = 0
    /\ IF Updated(w, "running")
       THEN /\ row' = [row EXCEPT !.status = "running", !.proc = w]
            /\ local' = [local EXCEPT ![w] = "running"]
            /\ Goto(w, IF flag[w] = "run" THEN "serving" ELSE "ending")
            /\ UNCHANGED flag
       ELSE Lose(w) /\ UNCHANGED <<row, local>>
    /\ UNCHANGED <<lapsed, round, commands, coord, cur, last, alive, counters, faults>>

\* The start or its transaction fails: the process is closed, if that does not fail as
\* well, then FAILED is written.
StartError(w) ==
    /\ pc[w] = "starting" /\ CloseFails(w)
    /\ rowlock' = 0
    /\ Goto(w, "failing")
    /\ UNCHANGED <<row, lapsed, round, commands, coord, local, flag, cur, last, counters>>

FailStart(w) ==
    /\ pc[w] = "failing"
    /\ Update(w, "failed", "failed", "ending")
    /\ UNCHANGED <<lapsed, rowlock, commands, coord, cur, last, alive, counters, faults>>

-----------------------------------------------------------------------------
(* Serving *)

\* The shell ends by itself.
ProcessExits(w) ==
    /\ w \in alive /\ pc[w] # "starting"
    /\ alive' = alive \ {w}
    /\ UNCHANGED <<row, lapsed, rowlock, round, commands, coord, runtimes, counters, faults>>

\* The stop event or a final status, at the top of the loop of _serve.
LeaveServe(w) ==
    /\ pc[w] = "serving" /\ (flag[w] # "run" \/ local[w] \in Final)
    /\ Goto(w, "ending")
    /\ UNCHANGED <<row, lapsed, rowlock, round, commands, coord, local, flag, cur, last, alive, counters, faults>>

\* _complete_natural_exit, also of a shell that lives on when waiting for it has raised;
\* an iteration that is under way does not see the stop event.
NaturalExit(w) ==
    /\ pc[w] = "serving" /\ local[w] \notin Final
    /\ \/ /\ w \notin alive /\ UNCHANGED <<alive, faults>>
          /\ \E a \in {"succeeded", "failed"} : Update(w, "exited", a, "serving")
       \/ /\ IF w \in alive THEN CloseFails(w) ELSE UNCHANGED <<alive, faults>>
          /\ Update(w, "failed", "failed", "serving")
    /\ UNCHANGED <<lapsed, rowlock, commands, coord, cur, last, counters>>

\* The snapshot of each iteration is refused; one that is not changes nothing here.
SnapshotRefused(w) ==
    /\ pc[w] = "serving" /\ local[w] \notin Final /\ w \in alive /\ rowlock = 0
    /\ ~Updated(w, local[w])
    /\ Lose(w)
    /\ UNCHANGED <<row, lapsed, rowlock, round, commands, coord, local, cur, last, alive, counters, faults>>

\* claim_next: the first PENDING command of a session whose lease is live.
ClaimCommand(w) ==
    /\ pc[w] = "serving" /\ flag[w] = "run" /\ local[w] \notin Final
    /\ Mine(w)
    /\ \E c \in Commands :
        /\ cmd[c] = "pending" /\ \A d \in Commands : cmd[d] = "pending" => c <= d
        /\ cmd' = [cmd EXCEPT ![c] = "processing"]
        /\ cur' = [cur EXCEPT ![w] = c]
    /\ Goto(w, "command")
    /\ UNCHANGED <<row, lapsed, rowlock, round, kind, told, coord, local, flag, last, alive, counters, faults>>

\* _execute_command: a read is always answered, a write needs the process.
ReadOrWrite(w) ==
    /\ pc[w] = "command" /\ kind[cur[w]] # "close"
    /\ Goto(w, IF kind[cur[w]] = "read" \/ w \in alive THEN "answer" ELSE "refuse")
    /\ UNCHANGED <<row, lapsed, rowlock, round, commands, coord, local, flag, cur, last, alive, counters, faults>>

\* _execute_close: CLOSING, the process, the final status.
BeginClose(w) ==
    /\ pc[w] = "command" /\ kind[cur[w]] = "close"
    /\ Update(w, "closing", "running", "closing")
    /\ UNCHANGED <<lapsed, rowlock, commands, coord, cur, last, alive, counters, faults>>

\* FAILED is written whether the forced close has worked or not.
CloseProcess(w) ==
    /\ pc[w] = "closing"
    /\ \/ Closes(w) /\ \E a \in {"succeeded", "failed"} : Update(w, "exited", a, "answer")
       \/ (Closes(w) \/ CloseFails(w)) /\ Update(w, "failed", "failed", "refuse")
    /\ UNCHANGED <<lapsed, rowlock, commands, coord, cur, last, counters>>

\* mark_succeeded and mark_failed
Mark(w) ==
    /\ pc[w] \in {"answer", "refuse"}
    /\ IF Mine(w) /\ cmd[cur[w]] = "processing"
       THEN /\ cmd' = [cmd EXCEPT ![cur[w]] = IF pc[w] = "answer" THEN "succeeded" ELSE "failed"]
            /\ last' = [last EXCEPT ![w] = cur[w]]
            /\ Goto(w, "serving") /\ UNCHANGED flag
       ELSE Lose(w) /\ UNCHANGED <<cmd, last>>
    /\ UNCHANGED <<row, lapsed, rowlock, round, kind, told, coord, local, cur, alive, counters, faults>>

\* A command's own lock_until is not renewed: one that takes too long is not marked,
\* and its runtime takes the session for lost.
MarkLate(w) ==
    /\ pc[w] \in {"answer", "refuse"} /\ Fault
    /\ Lose(w)
    /\ UNCHANGED <<row, lapsed, rowlock, round, commands, coord, local, cur, last, alive, counters>>

\* Any other exception, of the database for one.
RuntimeError(w) ==
    /\ pc[w] \in {"serving", "command", "closing", "answer", "refuse"} /\ Fault
    /\ flag' = [flag EXCEPT ![w] = IF @ = "run" THEN "stop" ELSE @]
    /\ Goto(w, "ending")
    /\ UNCHANGED <<row, lapsed, rowlock, round, commands, coord, local, cur, last, alive, counters>>

-----------------------------------------------------------------------------
(* Ending *)

\* run, the finally clause: the process is closed, or all attempts to close it fail.
ForceClose(w) ==
    /\ pc[w] = "ending"
    /\ \/ Closes(w) /\ Goto(w, "finalize")
       \/ CloseFails(w) /\ Goto(w, "unclosed")
    /\ UNCHANGED <<row, lapsed, rowlock, round, commands, coord, local, flag, cur, last, counters>>

\* _finalize_after_run, first part: LOST unless the session has ended, nothing at all
\* after the loss of the lease.
Finalize(w) ==
    /\ pc[w] \in {"finalize", "unclosed"}
    /\ \/ /\ flag[w] = "lost"
          /\ Done(w) /\ UNCHANGED <<row, round>>
       \/ /\ flag[w] # "lost" /\ local[w] \in Final
          /\ Goto(w, IF pc[w] = "finalize" /\ local[w] # "lost" THEN "settle" ELSE "release")
          /\ UNCHANGED <<row, round, local, flag, cur, last>>
       \/ /\ flag[w] # "lost" /\ local[w] \notin Final /\ rowlock = 0
          /\ IF Updated(w, "lost")
             THEN /\ row' = [row EXCEPT !.status = "lost"]
                  /\ round' = Finalized("lost", "unknown")
                  /\ local' = [local EXCEPT ![w] = "lost"]
                  /\ Goto(w, "release") /\ UNCHANGED <<flag, cur, last>>
             ELSE Done(w) /\ UNCHANGED <<row, round>>
    /\ UNCHANGED <<lapsed, rowlock, commands, coord, alive, counters, faults>>

\* _finalize_after_run, second part: commands are failed under a live lease only, the
\* claim is released under any.
Release(w) ==
    /\ pc[w] = "release" /\ rowlock = 0
    /\ IF row.by = w
       THEN /\ cmd' = IF lapsed THEN cmd ELSE Failed
            /\ row' = [row EXCEPT !.by = 0] /\ lapsed' = FALSE
       ELSE UNCHANGED <<row, lapsed, cmd>>
    /\ Done(w)
    /\ UNCHANGED <<rowlock, round, kind, told, coord, alive, counters, faults>>

\* The row and its commands are deleted: settled by its completion or a close, or
\* deleted with all that was asked of it.
DeleteRow(how) ==
    /\ row' = [status |-> how, by |-> 0, proc |-> 0] /\ lapsed' = FALSE
    /\ cmd' = [c \in Commands |-> IF cmd[c] = "none" THEN "none" ELSE "deleted"]

\* Mutant: only the commands that were claimed are answered.
AnswersClaimed(w) ==
    [c \in Commands |->
        CASE cmd[c] = "processing" -> IF kind[c] = "write" THEN "failed" ELSE "succeeded"
          [] cmd[c] # "processing" /\ c = last[w] -> cmd[c]
          [] OTHER -> told[c]]

\* What _persist_completion_and_cleanup stores for commands without an answer, and for
\* the last one that got one.
Answers(w) ==
    [c \in Commands |->
        CASE cmd[c] \in Unfinished -> IF kind[c] = "write" THEN "failed" ELSE "succeeded"
          [] cmd[c] \notin Unfinished /\ c = last[w] -> cmd[c]
          [] OTHER -> told[c]]

\* _persist_completion_and_cleanup
Settle(w) ==
    /\ pc[w] = "settle" /\ rowlock = 0
    /\ IF row.by = w
       THEN told' = Answers(w) /\ DeleteRow("settled")
       ELSE UNCHANGED <<row, lapsed, cmd, told>>
    /\ Done(w)
    /\ UNCHANGED <<rowlock, round, kind, coord, alive, counters, faults>>

\* A transaction of the end of the runtime fails and is logged.
SettleError(w) ==
    /\ pc[w] \in {"finalize", "unclosed", "release", "settle"} /\ Fault
    /\ Done(w)
    /\ UNCHANGED <<row, lapsed, rowlock, round, commands, coord, alive, counters>>

-----------------------------------------------------------------------------
(* The coordinator *)

\* A renewal is refused, or fails for any other reason: the runtime is told that its
\* lease is lost.
RenewLost(w) ==
    /\ coord[w] = "polling" /\ pc[w] # "none" /\ flag[w] # "lost"
    /\ Mine(w) => Fault
    /\ ~Mine(w) => UNCHANGED faults
    /\ flag' = [flag EXCEPT ![w] = "lost"]
    /\ UNCHANGED <<row, lapsed, rowlock, round, commands, coord, pc, local, cur, last, alive, counters>>

\* force_close waits for the end of _initialize.
Initializing == {"claimed", "starting", "failing"}

\* force_close by the coordinator; when it fails, that is logged.
CoordinatorCloses(w) ==
    /\ flag[w] # "run" /\ coord[w] # "dead" /\ w \in alive
    /\ pc[w] \notin {"none"} \cup Initializing
    /\ alive' = alive \ {w}
    /\ UNCHANGED <<row, lapsed, rowlock, round, commands, coord, runtimes, counters, faults>>

\* Mutant: a session whose worker died while starting it is forgotten.
RecoverableStarted ==
    row.status \in {"running", "closing"} /\ (row.by = 0 \/ lapsed)

\* claim_next_recoverable
Recoverable ==
    \/ row.status \in {"running", "closing"} /\ (row.by = 0 \/ lapsed)
    \/ row.status = "starting" /\ row.by # 0 /\ lapsed

\* The claim and the cleanup of the recorded process. A worker comes to its own session
\* only after force_close for the loss of the lease, which may have failed.
ClaimRecoverable(w) ==
    /\ coord[w] = "polling" /\ rowlock = 0
    /\ Recoverable
    /\ \/ pc[w] = "none" /\ UNCHANGED faults
       \/ /\ flag[w] = "lost" /\ pc[w] \notin {"none"} \cup Initializing
          /\ IF w \in alive THEN Fault ELSE UNCHANGED faults
    /\ row' = [row EXCEPT !.by = w] /\ lapsed' = FALSE
    /\ alive' = alive \ {row.proc}
    /\ coord' = [coord EXCEPT ![w] = "recovering"]
    /\ UNCHANGED <<rowlock, round, commands, runtimes, counters>>

\* _recover_session: one transaction, or nothing if the row has changed.
RecoverSession(w) ==
    /\ coord[w] = "recovering" /\ rowlock = 0
    /\ IF Updated(w, "lost")
       THEN /\ row' = [row EXCEPT !.status = "lost", !.by = 0]
            /\ round' = Finalized("lost", "unknown")
            /\ cmd' = Failed
       ELSE UNCHANGED <<row, round, cmd>>
    /\ coord' = [coord EXCEPT ![w] = "polling"]
    /\ UNCHANGED <<lapsed, rowlock, kind, told, runtimes, alive, counters, faults>>

\* cleanup_expired_final_claims
CleanupFinal(w) ==
    /\ coord[w] = "polling" /\ rowlock = 0
    /\ row.status \in Final /\ row.by # 0 /\ lapsed
    /\ row' = [row EXCEPT !.by = 0] /\ lapsed' = FALSE
    /\ cmd' = Failed
    /\ UNCHANGED <<rowlock, round, kind, told, coord, runtimes, alive, counters, faults>>

\* stop and _shutdown_runtimes; "releasing": the session is among the owned ones.
Shutdown(w) ==
    /\ coord[w] = "polling" /\ Fault
    /\ coord' = [coord EXCEPT ![w] = IF pc[w] = "none" THEN "stopping" ELSE "releasing"]
    /\ flag' = [flag EXCEPT ![w] = IF pc[w] # "none" /\ @ = "run" THEN "stop" ELSE @]
    /\ UNCHANGED <<row, lapsed, rowlock, round, commands, pc, local, cur, last, alive, counters>>

\* The end of _shutdown_runtimes: the claim is released whatever the status.
ShutdownRelease(w) ==
    /\ coord[w] \in {"stopping", "releasing"} /\ pc[w] = "none" /\ rowlock = 0
    /\ IF coord[w] = "releasing" /\ row.by = w
       THEN /\ row' = [row EXCEPT !.by = 0] /\ lapsed' = FALSE
            /\ handed' = IF row.status = "starting" THEN handed + 1 ELSE handed
       ELSE UNCHANGED <<row, lapsed, handed>>
    /\ coord' = [coord EXCEPT ![w] = "off"]
    /\ UNCHANGED <<rowlock, round, commands, runtimes, alive, starts, reply, faults>>

\* The process has the role again; its worker id is the same.
Restart(w) ==
    /\ coord[w] = "off"
    /\ coord' = [coord EXCEPT ![w] = "polling"]
    /\ UNCHANGED <<row, lapsed, rowlock, round, commands, runtimes, alive, counters, faults>>

\* The process of the worker dies, the shell it started need not; another process will
\* have the role.
Crash(w) ==
    /\ coord[w] # "dead" /\ \E v \in Workers \ {w} : coord[v] # "dead"
    /\ Fault
    /\ coord' = [coord EXCEPT ![w] = "dead"]
    /\ rowlock' = IF rowlock = w THEN 0 ELSE rowlock
    /\ Done(w)
    /\ UNCHANGED <<row, lapsed, round, commands, alive, counters>>

\* Nobody renews the claim any more.
Orphaned ==
    /\ row.by # 0 /\ ~lapsed
    /\ pc[row.by] = "none" /\ coord[row.by] # "recovering"

\* lock_until passes.
Lapse ==
    /\ row.by # 0 /\ ~lapsed
    /\ Orphaned \/ faults < MaxFaults
    /\ faults' = IF Orphaned THEN faults ELSE faults + 1
    /\ lapsed' = TRUE
    /\ UNCHANGED <<row, rowlock, round, commands, coord, runtimes, alive, counters>>

-----------------------------------------------------------------------------
(* Callers *)

\* enqueue_control and enqueue_read, under the lock of the row.
Enqueue(c, k) ==
    /\ row.status \in Status /\ rowlock = 0
    /\ cmd[c] = "none" /\ \A d \in Commands : d < c => cmd[d] # "none"
    /\ cmd' = [cmd EXCEPT ![c] = "pending"] /\ kind' = [kind EXCEPT ![c] = k]
    /\ UNCHANGED <<row, lapsed, rowlock, round, told, coord, runtimes, alive, counters, faults>>

\* _complete_unowned_terminal_command, after the enqueue or when the request is repeated.
\* A close deletes the session.
CompleteUnowned(c) ==
    /\ row.status \in Final /\ row.by = 0 /\ rowlock = 0
    /\ cmd[c] = "pending"
    /\ IF kind[c] = "close"
       THEN /\ told' = [told EXCEPT ![c] = "succeeded"]
            /\ alive' = alive \ {row.proc}
            /\ DeleteRow("settled")
       ELSE /\ cmd' = [cmd EXCEPT ![c] = IF kind[c] = "read" THEN "succeeded" ELSE "failed"]
            /\ UNCHANGED <<row, lapsed, told, alive>>
    /\ UNCHANGED <<rowlock, round, kind, coord, runtimes, counters, faults>>

\* cleanup_terminal_session for a stopped, idle or deleted chat session. A stop that saw
\* the session STARTING does not kill the process of one that has started since.
DeleteSession ==
    /\ row.status \in Status /\ rowlock = 0
    /\ round' = IF row.status \in Final THEN round ELSE Finalized("lost", "unknown")
    /\ alive' \in {alive, alive \ {row.proc}}
    /\ DeleteRow("deleted")
    /\ UNCHANGED <<rowlock, kind, told, coord, runtimes, counters, faults>>

\* The other tool calls of the round end in the reply.
OtherEnds(t) ==
    /\ t # Shell /\ reply = "live" /\ MayFinish(round, t)
    /\ \E s \in {"succeeded", "failed"} :
        round' = FinishIfComplete(FinishAttempt(round, t, s), Token)
    /\ UNCHANGED <<row, lapsed, rowlock, commands, coord, runtimes, alive, counters, faults>>

\* mark_work_audit_execution_unknown for an interrupted reply: it looks for active
\* terminal sessions of the round, and marks all but their attempts unknown.
Interrupt ==
    /\ reply = "live" /\ Fault
    /\ reply' = IF row.status \in Active THEN "spares" ELSE "marks"
    /\ UNCHANGED <<row, lapsed, rowlock, round, commands, coord, runtimes, alive, starts, handed>>

MarkInterrupted ==
    /\ reply \in {"spares", "marks"}
    /\ round' = IF reply = "spares" THEN MarkUnknownExcept(round, {Shell}) ELSE MarkUnknownReliably(round, Token)
    /\ reply' = "over"
    /\ UNCHANGED <<row, lapsed, rowlock, commands, coord, runtimes, alive, starts, handed, faults>>

\* The service restarts: recover_interrupted marks every RUNNING attempt unknown.
ServiceRestart ==
    /\ Fault
    /\ round.status = "executing"
    /\ round' = Recovered(round)
    /\ UNCHANGED <<row, lapsed, rowlock, commands, coord, runtimes, alive, counters>>

-----------------------------------------------------------------------------

RuntimeStep(w) ==
    \/ Initialize(w) \/ Started(w) \/ FailStart(w)
    \/ LeaveServe(w) \/ NaturalExit(w) \/ SnapshotRefused(w) \/ ClaimCommand(w)
    \/ ReadOrWrite(w) \/ BeginClose(w) \/ CloseProcess(w) \/ Mark(w)
    \/ ForceClose(w) \/ Finalize(w) \/ Release(w) \/ Settle(w)

RuntimeFault(w) == StartError(w) \/ MarkLate(w) \/ RuntimeError(w) \/ SettleError(w)

Poll(w) ==
    \/ ClaimStarting(w) \/ ClaimRecoverable(w) \/ RecoverSession(w) \/ CleanupFinal(w)
    \/ ShutdownRelease(w) \/ Restart(w)

Next ==
    \/ CreateSession \/ DeleteSession \/ Interrupt \/ MarkInterrupted \/ ServiceRestart \/ Lapse
    \/ \E w \in Workers :
        \/ RuntimeStep(w) \/ RuntimeFault(w) \/ ProcessExits(w)
        \/ Poll(w) \/ RenewLost(w) \/ CoordinatorCloses(w) \/ Shutdown(w) \/ Crash(w)
    \/ \E c \in Commands : CompleteUnowned(c) \/ \E k \in {"read", "write", "close"} : Enqueue(c, k)
    \/ \E t \in Tools : OtherEnds(t)

Spec == Init /\ [][Next]_vars

\* The runtime is an asyncio task, the coordinator polls, the launcher restarts a worker
\* that has stopped, time passes for a claim nobody renews, and a tool call of the reply
\* has a timeout. A shell need not exit.
FairSpec ==
    /\ Spec
    /\ WF_vars(Orphaned /\ Lapse)
    /\ \A w \in Workers : WF_vars(RuntimeStep(w)) /\ WF_vars(Poll(w))
    /\ \A t \in Tools : WF_vars(OtherEnds(t))

-----------------------------------------------------------------------------
(* Properties *)

Over == row.status \in Final \cup {"settled", "deleted"}

\* The session and its audit attempt tell the same story, whoever wrote the last of it:
\* the runtime, a recovery, a stop or the idle cleanup. While the session is active its
\* attempt can be finished, also after the reply was interrupted, unless a restart of
\* the service has declared the whole round unknown.
AttemptMatchesSession ==
    LET a == round.attempts[Shell]
    IN  CASE row.status = "failed" -> a \in {"failed", "unknown"}
          [] row.status = "lost" -> a = "unknown"
          [] Over /\ row.status \notin {"failed", "lost"} -> a # "running"
          [] ~Over -> MayFinish(round, Shell) \/ (a = "unknown" /\ round.status = "unknown")

Life == INSTANCE AuditLifecycle WITH Records <- {1}, round <- [r \in {1} |-> round]

\* Whatever runtimes, recovery, stops, cleanups and the interrupted reply do to the round
\* is a step of the life of an audit record.
SessionKeepsAuditLifecycle == Life!Spec

\* The command of a session is started once, and once more for each shutdown that has
\* released it STARTING, which happens without a look at whether its start was tried. A
\* claim that has run out is recovered and not started again, and neither a crash nor a
\* lost lease between claim and start adds one.
StartedOnce == starts <= 1 + handed

\* Every command gets an answer its caller can find, is deleted together with the
\* session, or asks a session that is over and has no owner, where a repeated request
\* answers it if it is still PENDING.
CommandEnds ==
    \A c \in Commands :
        cmd[c] \in Unfinished ~>
            \/ cmd[c] \in {"succeeded", "failed"} \/ told[c] # "nothing"
            \/ row.status = "deleted" \/ (row.status \in Final /\ row.by = 0)

\* A session whose worker is gone, at whatever step, ends, and its recorded process
\* with it. Once the row is deleted nothing is recorded any more: a stop that saw the
\* session STARTING leaves the shell that has started since.
OrphanEnds == row.status \in Active /\ Orphaned ~> Over /\ (row.status = "deleted" \/ row.proc \notin alive)
=============================================================================
