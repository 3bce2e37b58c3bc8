----------------------------- MODULE AuditLifecycle -----------------------------
(***************************************************************************)
(* The life of audit records as the rest of the program relies on it: no    *)
(* confirmation claims, executors, tasks, terminals or leases. The          *)
(* foreground executors (AuditExecution), the background tasks              *)
(* (BackgroundTask) and the terminal sessions (TerminalSession) write the   *)
(* attempts and the record of the same round, each in transactions of its   *)
(* own. Each of the three modules is shown to take only steps of this       *)
(* specification, which is what they may assume of each other.              *)
(***************************************************************************)
EXTENDS AuditRound

CONSTANT Records    \* ids of audit records

VARIABLE round      \* their rounds

Init == \A r \in Records : round[r] = NewRound \/ UnderWay(round[r])

Next == \A r \in Records : LifeStep(round[r], round'[r])

Spec == Init /\ [][Next]_round
=================================================================================
