----------------------------- MODULE AuditRoundProofs -----------------------------
(***************************************************************************)
(* Facts about the statements of AuditRound, for any set of tool calls. The *)
(* proofs about AuditExecution, BackgroundTask and TerminalSession rest on  *)
(* them: a statement takes a lawful round to a lawful round, by a step of   *)
(* the life of a round.                                                     *)
(***************************************************************************)
EXTENDS AuditRound, TLAPS

\* What is true of every round between two statements: only an executing record has a
\* token, what was not executed has no attempts, what has ended has no running ones.
Lawful(x) ==
    /\ x \in Round
    /\ x.status = "executing" <=> x.token # 0
    /\ x.status \notin {"executing", "succeeded", "failed", "cancelled", "unknown"} =>
            \A t \in Tools : x.attempts[t] = "none"
    /\ x.status # "executing" => \A t \in Tools : x.attempts[t] # "running"

\* A statement that does what it may.
Keeps(x, y) == Lawful(y) /\ LifeStep(x, y)

\* One that ends attempts, the record, both or nothing.
Ends(x, y) == Lawful(y) /\ (Ending(x, y) \/ y = x)

-----------------------------------------------------------------------------
(* Types *)

LEMMA NewRoundLawful == Lawful(NewRound)
BY DEF Lawful, NewRound, Round, RecordStatus, AttemptStatus

LEMMA AttemptsType ==
    ASSUME NEW x \in Round, NEW T, NEW s \in AttemptStatus
    PROVE  /\ Attempts(x, T, s) \in Round
           /\ Attempts(x, T, s).status = x.status
           /\ Attempts(x, T, s).token = x.token
           /\ \A t \in Tools : Attempts(x, T, s).attempts[t] = IF t \in T THEN s ELSE x.attempts[t]
BY DEF Round, Attempts

LEMMA ClosedType ==
    ASSUME NEW x \in Round, NEW s \in RecordStatus
    PROVE  /\ Closed(x, s) \in Round
           /\ Closed(x, s).status = s
           /\ Closed(x, s).token = 0
           /\ Closed(x, s).attempts = x.attempts
BY DEF Round, Closed

LEMMA ClaimedType ==
    ASSUME NEW x \in Round, NEW k \in Nat
    PROVE  /\ Claimed(x, k) \in Round
           /\ Claimed(x, k).status = "executing"
           /\ Claimed(x, k).token = k
           /\ Claimed(x, k).attempts = x.attempts
BY DEF Round, Claimed, RecordStatus

LEMMA FinishAttemptsType ==
    ASSUME NEW x \in Round, NEW T, NEW s \in AttemptStatus
    PROVE  /\ FinishAttempts(x, T, s) \in Round
           /\ FinishAttempts(x, T, s).status = x.status
           /\ FinishAttempts(x, T, s).token = x.token
           /\ \A t \in Tools : FinishAttempts(x, T, s).attempts[t] =
                  IF t \in T /\ x.status = "executing" /\ x.attempts[t] = "running" THEN s ELSE x.attempts[t]
<1> DEFINE M == {t \in T : MayFinish(x, t)}
<1>1. \A t : t \in M <=> t \in T /\ x.status = "executing" /\ x.attempts[t] = "running"
  BY DEF MayFinish
<1> HIDE DEF M
<1>2. /\ Attempts(x, M, s) \in Round
      /\ Attempts(x, M, s).status = x.status
      /\ Attempts(x, M, s).token = x.token
      /\ \A t \in Tools : Attempts(x, M, s).attempts[t] = IF t \in M THEN s ELSE x.attempts[t]
  BY AttemptsType
<1>3. FinishAttempts(x, T, s) = Attempts(x, M, s)
  BY DEF FinishAttempts, M
<1> QED BY <1>1, <1>2, <1>3

-----------------------------------------------------------------------------
(* Statements that end attempts or the record *)

\* What ends keeps the round lawful and is a step of its life.
LEMMA EndsKeeps ==
    ASSUME NEW x, NEW y, Ends(x, y)
    PROVE  Keeps(x, y)
BY DEF Ends, Keeps, LifeStep

\* Several such statements in one transaction are one of them.
LEMMA EndsTransitive ==
    ASSUME NEW x, NEW y, NEW z, Ends(x, y), Ends(y, z)
    PROVE  Ends(x, z)
<1>1. CASE y = x \/ z = y
  BY <1>1 DEF Ends
<1>2. CASE Ending(x, y) /\ Ending(y, z)
  <2>1. ASSUME NEW t \in Tools
        PROVE  z.attempts[t] = x.attempts[t] \/ (x.attempts[t] = "running" /\ z.attempts[t] # "none")
    BY <1>2 DEF Ending
  <2>2. \/ z.status = "executing" /\ z.token = x.token
        \/ Says(z) /\ z.token = 0 /\ Attempted(z, "running") = {}
    <3>1. y.status = "executing"
      BY <1>2 DEF Ending
    <3>2. ~Says(y)
      BY <3>1 DEF Says
    <3>3. y.token = x.token
      BY <1>2, <3>2 DEF Ending
    <3>4. \/ z.status = "executing" /\ z.token = y.token
          \/ Says(z) /\ z.token = 0 /\ Attempted(z, "running") = {}
      BY <1>2 DEF Ending
    <3> QED BY <3>3, <3>4
  <2>3. x.status = "executing"
    BY <1>2 DEF Ending
  <2>4. Ending(x, z)
    BY <2>1, <2>2, <2>3 DEF Ending
  <2> QED BY <2>4 DEF Ends
<1> QED BY <1>1, <1>2 DEF Ends

\* RUNNING attempts of an executing record get another status.
LEMMA AttemptsEnd ==
    ASSUME NEW x, Lawful(x), x.status = "executing",
           NEW T, \A t \in Tools : t \in T => x.attempts[t] = "running",
           NEW s \in AttemptStatus \ {"none"}
    PROVE  Ends(x, Attempts(x, T, s))
<1> DEFINE y == Attempts(x, T, s)
<1>1. /\ y \in Round /\ y.status = x.status /\ y.token = x.token
      /\ \A t \in Tools : y.attempts[t] = IF t \in T THEN s ELSE x.attempts[t]
  BY AttemptsType DEF Lawful
<1> HIDE DEF y
<1>2. Lawful(y)
  BY <1>1 DEF Lawful
<1>3. Ending(x, y)
  BY <1>1 DEF Ending
<1> QED BY <1>2, <1>3 DEF Ends, y

\* The record of a round without RUNNING attempts ends.
LEMMA ClosedEnds ==
    ASSUME NEW x, Lawful(x), x.status = "executing",
           Attempted(x, "running") = {},
           NEW s \in {"succeeded", "failed", "cancelled", "unknown"},
           Says(Closed(x, s))
    PROVE  Ends(x, Closed(x, s))
<1> DEFINE y == Closed(x, s)
<1>1. y \in Round /\ y.status = s /\ y.token = 0 /\ y.attempts = x.attempts
  BY ClosedType DEF Lawful, RecordStatus
<1>2. Says(y)
  OBVIOUS
<1> HIDE DEF y
<1>3. \A t \in Tools : y.attempts[t] # "running"
  BY <1>1 DEF Attempted
<1>4. Lawful(y)
  BY <1>1, <1>3 DEF Lawful
<1>5. Ending(x, y)
  BY <1>1, <1>2, <1>3 DEF Ending, Attempted
<1> QED BY <1>4, <1>5 DEF Ends, y

\* No row matches.
LEMMA SameEnds == ASSUME NEW x, Lawful(x) PROVE Ends(x, x)
BY DEF Ends

LEMMA FinishAttemptsEnds ==
    ASSUME NEW x, Lawful(x), NEW T, NEW s \in AttemptStatus \ {"none"}
    PROVE  Ends(x, FinishAttempts(x, T, s))
<1> DEFINE M == {t \in T : MayFinish(x, t)}
<1>1. CASE x.status = "executing"
  <2>1. \A t \in Tools : t \in M => x.attempts[t] = "running"
    BY DEF MayFinish
  <2> HIDE DEF M
  <2>2. Ends(x, Attempts(x, M, s))
    BY <1>1, <2>1, AttemptsEnd
  <2> QED BY <2>2 DEF FinishAttempts, M
<1>2. CASE x.status # "executing"
  <2>1. M = {}
    BY <1>2 DEF MayFinish
  <2>2. [t \in Tools |-> IF t \in {} THEN s ELSE x.attempts[t]] = x.attempts
    BY DEF Lawful, Round
  <2>3. Attempts(x, {}, s) = x
    BY <2>2 DEF Attempts, Lawful, Round
  <2> QED BY <2>1, <2>3, SameEnds DEF FinishAttempts
<1> QED BY <1>1, <1>2

LEMMA FinishIfCompleteEnds ==
    ASSUME NEW x, Lawful(x), NEW k
    PROVE  Ends(x, FinishIfComplete(x, k))
<1>1. CASE IsComplete(x, k)
  <2>1. x.status = "executing" /\ Attempted(x, "running") = {} /\ Attempted(x, "none") = {}
    BY <1>1 DEF IsComplete, Executing
  <2>2. Outcome(x) \in {"succeeded", "failed", "cancelled", "unknown"}
    BY DEF Outcome
  <2>3. /\ Closed(x, Outcome(x)).status = Outcome(x)
        /\ Closed(x, Outcome(x)).attempts = x.attempts
    BY <2>2, ClosedType DEF Lawful, RecordStatus
  <2>4. Says(Closed(x, Outcome(x)))
    <3>1. \A t \in Tools : x.attempts[t] \in {"succeeded", "failed", "cancelled", "unknown"}
      BY <2>1 DEF Attempted, Lawful, Round, AttemptStatus
    <3> QED BY <2>3, <3>1 DEF Says, Outcome, Attempted
  <2> QED BY <1>1, <2>1, <2>2, <2>4, ClosedEnds DEF FinishIfComplete
<1>2. CASE ~IsComplete(x, k)
  BY <1>2, SameEnds DEF FinishIfComplete
<1> QED BY <1>1, <1>2

\* FAILED or CANCELLED need a round of which nothing is unknown.
LEMMA FinishRoundEnds ==
    ASSUME NEW x, Lawful(x), NEW k, NEW s \in {"failed", "cancelled", "unknown"},
           s # "unknown" /\ Executing(x, k) => Attempted(x, "unknown") = {}
    PROVE  Ends(x, FinishRound(x, k, s))
<1>1. CASE Executing(x, k) /\ Attempted(x, "running") = {}
  <2>1. Closed(x, s).status = s /\ Closed(x, s).attempts = x.attempts
    BY ClosedType DEF Lawful, RecordStatus
  <2>2. Says(Closed(x, s))
    BY <1>1, <2>1 DEF Says, Attempted
  <2> QED BY <1>1, <2>2, ClosedEnds DEF FinishRound, Executing
<1>2. CASE ~(Executing(x, k) /\ Attempted(x, "running") = {})
  <2>1. FinishRound(x, k, s) = x
    BY <1>2 DEF FinishRound
  <2> QED BY <2>1, SameEnds
<1> QED BY <1>1, <1>2

\* All RUNNING attempts but those of T become unknown.
LEMMA MarkUnknownExceptEnds ==
    ASSUME NEW x, Lawful(x), NEW T
    PROVE  Ends(x, MarkUnknownExcept(x, T))
<1> DEFINE M == Attempted(x, "running") \ T
<1>1. \A t \in Tools : t \in M => x.attempts[t] = "running"
  BY DEF Attempted
<1>2. CASE x.status = "executing"
  <2> HIDE DEF M
  <2>1. Ends(x, Attempts(x, M, "unknown"))
    BY <1>1, <1>2, AttemptsEnd DEF AttemptStatus
  <2> QED BY <2>1 DEF MarkUnknownExcept, M
<1>3. CASE x.status # "executing"
  <2>1. M = {}
    BY <1>3 DEF Lawful, Attempted
  <2>2. [t \in Tools |-> IF t \in {} THEN "unknown" ELSE x.attempts[t]] = x.attempts
    BY DEF Lawful, Round
  <2>3. Attempts(x, {}, "unknown") = x
    BY <2>2 DEF Attempts, Lawful, Round
  <2> QED BY <2>1, <2>3, SameEnds DEF MarkUnknownExcept
<1> QED BY <1>2, <1>3

\* The round whose RUNNING attempts, and with them the record, are unknown.
LEMMA UnknownEnds ==
    ASSUME NEW x, Lawful(x), x.status = "executing"
    PROVE  Ends(x, Closed(Attempts(x, Attempted(x, "running"), "unknown"), "unknown"))
<1> DEFINE y == Attempts(x, Attempted(x, "running"), "unknown")
<1>1. Ends(x, y)
  BY AttemptsEnd DEF Attempted, AttemptStatus
<1>2. y.status = "executing" /\ Attempted(y, "running") = {}
  <2>1. /\ y.status = x.status
        /\ \A t \in Tools : y.attempts[t] = IF t \in Attempted(x, "running") THEN "unknown" ELSE x.attempts[t]
    BY AttemptsType DEF Lawful, AttemptStatus
  <2> HIDE DEF y
  <2> QED BY <2>1 DEF Attempted
<1>3. Lawful(y)
  BY <1>1 DEF Ends
<1> HIDE DEF y
<1>4. Says(Closed(y, "unknown"))
  BY <1>3, ClosedType DEF Lawful, RecordStatus, Says
<1>5. Ends(y, Closed(y, "unknown"))
  BY <1>2, <1>3, <1>4, ClosedEnds
<1>6. Ends(x, Closed(y, "unknown"))
  BY <1>1, <1>5, EndsTransitive
<1> QED BY <1>6 DEF y

LEMMA MarkUnknownEnds ==
    ASSUME NEW x, Lawful(x), NEW k
    PROVE  Ends(x, MarkUnknown(x, k))
<1>1. CASE Attempted(x, "running") = {}
  BY <1>1, SameEnds DEF MarkUnknown
<1>2. CASE Attempted(x, "running") # {}
  <2>1. x.status = "executing"
    BY <1>2 DEF Lawful, Attempted
  <2>2. Ends(x, Attempts(x, Attempted(x, "running"), "unknown"))
    BY <2>1, AttemptsEnd DEF Attempted, AttemptStatus
  <2>3. Ends(x, Closed(Attempts(x, Attempted(x, "running"), "unknown"), "unknown"))
    BY <2>1, UnknownEnds
  <2> QED BY <1>2, <2>2, <2>3 DEF MarkUnknown
<1> QED BY <1>1, <1>2

LEMMA MarkAttemptUnknownEnds ==
    ASSUME NEW x, Lawful(x), NEW k, NEW t
    PROVE  Ends(x, MarkAttemptUnknown(x, k, t))
BY MarkUnknownEnds, SameEnds DEF MarkAttemptUnknown

LEMMA MarkUnknownReliablyEnds ==
    ASSUME NEW x, Lawful(x), NEW k
    PROVE  Ends(x, MarkUnknownReliably(x, k))
<1>1. Ends(x, FinishIfComplete(x, k))
  BY FinishIfCompleteEnds
<1>2. Ends(x, MarkUnknown(x, k))
  BY MarkUnknownEnds
<1>3. "unknown" \in {"failed", "cancelled", "unknown"}
  OBVIOUS
<1>4. Ends(x, FinishRound(x, k, "unknown"))
  BY <1>3, FinishRoundEnds
<1> QED BY <1>1, <1>2, <1>4 DEF MarkUnknownReliably

\* What has begun, or has ended, is only cancelled if it has no attempt yet.
LEMMA CancelUnexecutedEnds ==
    ASSUME NEW x, Lawful(x), x.status \notin {"preparing", "passed", "pending"}
    PROVE  Ends(x, CancelUnexecuted(x))
<1>1. CASE x.status = "executing" /\ Attempted(x, "none") = Tools
  <2>1. Attempted(x, "running") = {} /\ Attempted(x, "unknown") = {}
    BY <1>1 DEF Attempted
  <2>2. Closed(x, "cancelled").status = "cancelled" /\ Closed(x, "cancelled").attempts = x.attempts
    BY ClosedType DEF Lawful, RecordStatus
  <2>3. Says(Closed(x, "cancelled"))
    BY <2>1, <2>2 DEF Says, Attempted
  <2> QED BY <1>1, <2>1, <2>3, ClosedEnds DEF CancelUnexecuted
<1>2. CASE ~(x.status = "executing" /\ Attempted(x, "none") = Tools)
  <2>1. CancelUnexecuted(x) = x
    BY <1>2 DEF CancelUnexecuted
  <2> QED BY <2>1, SameEnds
<1> QED BY <1>1, <1>2

-----------------------------------------------------------------------------
(* The other statements *)

\* A decision about a round of which nothing was executed.
LEMMA DecisionKeeps ==
    ASSUME NEW x, Lawful(x), NEW s, <<x.status, s>> \in Decisions
    PROVE  Keeps(x, [x EXCEPT !.status = s]) /\ Keeps(x, Closed(x, s))
<1>1. /\ x.status \in {"absent", "preparing", "passed", "pending"}
      /\ s \in {"preparing", "passed", "blocked", "pending", "audit_failed", "cancelled", "rejected", "expired"}
  BY DEF Decisions
<1>2. x.token = 0 /\ \A t \in Tools : x.attempts[t] = "none"
  BY <1>1 DEF Lawful
<1>3. ASSUME NEW y \in Round, y.status = s, y.token = 0, y.attempts = x.attempts
      PROVE  Keeps(x, y)
  <2>1. Lawful(y)
    BY <1>1, <1>2, <1>3 DEF Lawful
  <2>2. Decided(x, y)
    BY <1>2, <1>3 DEF Decided, Attempted
  <2> QED BY <2>1, <2>2 DEF Keeps, LifeStep
<1>4. Keeps(x, Closed(x, s))
  BY <1>1, <1>3, ClosedType DEF Lawful, RecordStatus
<1>5. Keeps(x, [x EXCEPT !.status = s])
  <2> DEFINE y == [x EXCEPT !.status = s]
  <2>1. y \in Round /\ y.status = s /\ y.token = x.token /\ y.attempts = x.attempts
    BY <1>1 DEF Lawful, Round, RecordStatus
  <2> QED BY <1>2, <1>3, <2>1
<1> QED BY <1>4, <1>5

\* cancel_unexecuted, whatever the round.
LEMMA CancelUnexecutedKeeps ==
    ASSUME NEW x, Lawful(x)
    PROVE  Keeps(x, CancelUnexecuted(x))
<1>1. CASE x.status \in {"preparing", "passed", "pending"}
  <2>1. <<x.status, "cancelled">> \in Decisions
    BY <1>1 DEF Decisions
  <2> QED BY <1>1, <2>1, DecisionKeeps DEF CancelUnexecuted
<1>2. CASE x.status \notin {"preparing", "passed", "pending"}
  BY <1>2, CancelUnexecutedEnds, EndsKeeps
<1> QED BY <1>1, <1>2

LEMMA ClaimedKeeps ==
    ASSUME NEW x, Lawful(x), x.status \in {"passed", "pending"}, NEW k \in Nat \ {0}
    PROVE  Keeps(x, Claimed(x, k))
<1> DEFINE y == Claimed(x, k)
<1>1. y \in Round /\ y.status = "executing" /\ y.token = k /\ y.attempts = x.attempts
  BY ClaimedType DEF Lawful
<1>2. Lawful(y)
  BY <1>1 DEF Lawful
<1>3. Taken(x, y)
  BY <1>1 DEF Taken
<1> QED BY <1>2, <1>3 DEF Keeps, LifeStep

LEMMA CreateAttemptKeeps ==
    ASSUME NEW x, Lawful(x), x.status = "executing", NEW t \in Tools, x.attempts[t] = "none"
    PROVE  Keeps(x, CreateAttempt(x, t))
<1> DEFINE y == CreateAttempt(x, t)
<1>1. y \in Round /\ y.status = x.status /\ y.token = x.token
  BY AttemptsType DEF Lawful, CreateAttempt, AttemptStatus
<1>2. Lawful(y)
  BY <1>1 DEF Lawful
<1>3. AttemptMade(x, y)
  BY DEF AttemptMade
<1> QED BY <1>2, <1>3 DEF Keeps, LifeStep

LEMMA RecoveredKeeps ==
    ASSUME NEW x, Lawful(x)
    PROVE  Keeps(x, Recovered(x))
<1>1. CASE x.status = "executing"
  BY <1>1, UnknownEnds, EndsKeeps DEF Recovered
<1>2. CASE x.status # "executing"
  <2>1. Attempts(x, Attempted(x, "running"), "unknown") = x
    <3>1. Attempted(x, "running") = {}
      BY <1>2 DEF Lawful, Attempted
    <3>2. [t \in Tools |-> IF t \in {} THEN "unknown" ELSE x.attempts[t]] = x.attempts
      BY DEF Lawful, Round
    <3>3. Attempts(x, {}, "unknown") = x
      BY <3>2 DEF Attempts, Lawful, Round
    <3> QED BY <3>1, <3>3
  <2>2. CASE x.status = "preparing"
    <3>1. <<x.status, "audit_failed">> \in Decisions
      BY <2>2 DEF Decisions
    <3> QED BY <2>1, <2>2, <3>1, DecisionKeeps DEF Recovered
  <2>3. CASE x.status # "preparing"
    <3>1. Recovered(x) = x
      BY <1>2, <2>1, <2>3 DEF Recovered
    <3> QED BY <3>1, SameEnds, EndsKeeps
  <2> QED BY <2>2, <2>3
<1> QED BY <1>1, <1>2

\* A round that nobody writes.
LEMMA SameKeeps == ASSUME NEW x, Lawful(x) PROVE Keeps(x, x)
BY SameEnds, EndsKeeps

-----------------------------------------------------------------------------
(* Statements about a round that somebody else may have in hand *)

Unbegun == {"absent", "preparing", "passed", "pending"}

\* Nothing of the round is begun, and a round that still executes was not touched; an
\* attempt may have become unknown.
Settles(x, y) ==
    /\ Lawful(y)
    /\ y.status \in Unbegun => x.status \in Unbegun
    /\ y.status = "executing" => y = x
    /\ \A t \in Tools :
        \/ y.attempts[t] = x.attempts[t]
        \/ x.attempts[t] = "running" /\ y.attempts[t] = "unknown"

LEMMA SameSettles == ASSUME NEW x, Lawful(x) PROVE Settles(x, x)
BY DEF Settles

\* A final status for a record, which had no RUNNING attempts if it was executing.
LEMMA ClosedSettles ==
    ASSUME NEW x, Lawful(x), NEW s,
           \/ x.status \in Unbegun /\ s \in RecordEnds
           \/ /\ x.status = "executing" /\ s \in {"succeeded", "failed", "cancelled", "unknown"}
              /\ Attempted(x, "running") = {}
    PROVE  Settles(x, Closed(x, s))
<1> DEFINE y == Closed(x, s)
<1>1. s \in RecordEnds /\ s \in RecordStatus
  BY DEF RecordEnds, RecordStatus
<1>2. y \in Round /\ y.status = s /\ y.token = 0 /\ y.attempts = x.attempts
  BY <1>1, ClosedType DEF Lawful
<1> HIDE DEF y
<1>3. s \notin {"executing"} \cup Unbegun
  BY <1>1 DEF RecordEnds, Unbegun
<1>4. \A t \in Tools : y.attempts[t] # "running"
  BY <1>2 DEF Attempted, Lawful, Unbegun
<1>5. Lawful(y)
  <2>1. CASE x.status \in Unbegun
    <3>1. \A t \in Tools : y.attempts[t] = "none"
      BY <1>2, <2>1 DEF Lawful, Unbegun
    <3> QED BY <1>2, <1>3, <1>4, <3>1 DEF Lawful
  <2>2. CASE s \in {"succeeded", "failed", "cancelled", "unknown"}
    BY <1>2, <1>4, <2>2 DEF Lawful
  <2> QED BY <2>1, <2>2
<1>6. Settles(x, y)
  BY <1>2, <1>3, <1>5 DEF Settles
<1> QED BY <1>6 DEF y

\* What ends the record, or does nothing, and takes attempts to "unknown" at most.
LEMMA EndsSettles ==
    ASSUME NEW x, NEW y, Lawful(x), Ends(x, y),
           y.status = "executing" => y = x,
           \A t \in Tools : y.attempts[t] = x.attempts[t] \/ y.attempts[t] = "unknown"
    PROVE  Settles(x, y)
<1>1. CASE y = x
  BY <1>1, SameSettles
<1>2. CASE y # x
  <2>1. Ending(x, y) /\ Lawful(y)
    BY <1>2 DEF Ends
  <2>2. y.status # "executing" /\ Says(y)
    BY <1>2, <2>1 DEF Ending
  <2>3. y.status \notin Unbegun
    BY <2>2 DEF Says, Unbegun
  <2>4. ASSUME NEW t \in Tools
        PROVE  y.attempts[t] = x.attempts[t] \/ (x.attempts[t] = "running" /\ y.attempts[t] = "unknown")
    BY <2>1 DEF Ending
  <2> QED BY <2>1, <2>2, <2>3, <2>4 DEF Settles
<1> QED BY <1>1, <1>2

LEMMA FinishIfCompleteSettles ==
    ASSUME NEW x, Lawful(x), NEW k
    PROVE  Settles(x, FinishIfComplete(x, k))
<1>1. CASE IsComplete(x, k)
  <2>1. x.status = "executing" /\ Attempted(x, "running") = {}
    BY <1>1 DEF IsComplete, Executing
  <2>2. Outcome(x) \in {"succeeded", "failed", "cancelled", "unknown"}
    BY DEF Outcome
  <2> QED BY <1>1, <2>1, <2>2, ClosedSettles DEF FinishIfComplete
<1>2. CASE ~IsComplete(x, k)
  BY <1>2, SameSettles DEF FinishIfComplete
<1> QED BY <1>1, <1>2

LEMMA FinishRoundSettles ==
    ASSUME NEW x, Lawful(x), NEW k, NEW s \in {"failed", "cancelled", "unknown"}
    PROVE  Settles(x, FinishRound(x, k, s))
<1>1. CASE Executing(x, k) /\ Attempted(x, "running") = {}
  BY <1>1, ClosedSettles DEF FinishRound, Executing
<1>2. CASE ~(Executing(x, k) /\ Attempted(x, "running") = {})
  <2>1. FinishRound(x, k, s) = x
    BY <1>2 DEF FinishRound
  <2> QED BY <2>1, SameSettles
<1> QED BY <1>1, <1>2

LEMMA UnknownSettles ==
    ASSUME NEW x, Lawful(x), x.status = "executing"
    PROVE  Settles(x, Closed(Attempts(x, Attempted(x, "running"), "unknown"), "unknown"))
<1> DEFINE y == Attempts(x, Attempted(x, "running"), "unknown")
           z == Closed(y, "unknown")
<1>1. /\ y \in Round
      /\ \A t \in Tools : y.attempts[t] = x.attempts[t] \/ y.attempts[t] = "unknown"
  <2>1. /\ y \in Round
        /\ \A t \in Tools : y.attempts[t] = IF t \in Attempted(x, "running") THEN "unknown" ELSE x.attempts[t]
    BY AttemptsType DEF Lawful, AttemptStatus
  <2> HIDE DEF y
  <2> QED BY <2>1
<1> HIDE DEF y
<1>2. z.status = "unknown" /\ z.attempts = y.attempts
  BY <1>1, ClosedType DEF RecordStatus
<1>3. Ends(x, z)
  BY UnknownEnds DEF y
<1> HIDE DEF z
<1>4. \A t \in Tools : z.attempts[t] = x.attempts[t] \/ z.attempts[t] = "unknown"
  BY <1>1, <1>2
<1>5. Settles(x, z)
  BY <1>2, <1>3, <1>4, EndsSettles
<1> QED BY <1>5 DEF y, z

\* The mark is made under the token of the round.
LEMMA MarkUnknownSettles ==
    ASSUME NEW x, Lawful(x), NEW k, x.status = "executing" => x.token = k
    PROVE  Settles(x, MarkUnknown(x, k)) /\ Settles(x, MarkUnknownReliably(x, k))
<1>1. Settles(x, MarkUnknown(x, k))
  <2>1. CASE Attempted(x, "running") = {}
    BY <2>1, SameSettles DEF MarkUnknown
  <2>2. CASE Attempted(x, "running") # {}
    <3>1. x.status = "executing"
      BY <2>2 DEF Lawful, Attempted
    <3> QED BY <2>2, <3>1, UnknownSettles DEF MarkUnknown, Executing
  <2> QED BY <2>1, <2>2
<1>2. Settles(x, FinishIfComplete(x, k))
  BY FinishIfCompleteSettles
<1>3. Settles(x, FinishRound(x, k, "unknown"))
  <2>1. "unknown" \in {"failed", "cancelled", "unknown"}
    OBVIOUS
  <2> QED BY <2>1, FinishRoundSettles
<1> QED BY <1>1, <1>2, <1>3 DEF MarkUnknownReliably

LEMMA CancelUnexecutedSettles ==
    ASSUME NEW x, Lawful(x)
    PROVE  Settles(x, CancelUnexecuted(x))
<1>1. CASE x.status \in {"preparing", "passed", "pending"}
  <2>1. x.status \in Unbegun /\ "cancelled" \in RecordEnds
    BY <1>1 DEF Unbegun, RecordEnds, RecordStatus
  <2>2. Settles(x, Closed(x, "cancelled"))
    BY <2>1, ClosedSettles
  <2> QED BY <1>1, <2>2 DEF CancelUnexecuted
<1>2. CASE x.status = "executing" /\ Attempted(x, "none") = Tools
  <2>1. Attempted(x, "running") = {}
    BY <1>2 DEF Attempted
  <2>2. Settles(x, Closed(x, "cancelled"))
    BY <1>2, <2>1, ClosedSettles
  <2> QED BY <1>2, <2>2 DEF CancelUnexecuted
<1>3. CASE ~(\/ x.status \in {"preparing", "passed", "pending"}
             \/ x.status = "executing" /\ Attempted(x, "none") = Tools)
  <2>1. CancelUnexecuted(x) = x
    BY <1>3 DEF CancelUnexecuted
  <2> QED BY <2>1, SameSettles
<1> QED BY <1>1, <1>2, <1>3

LEMMA RecoveredSettles ==
    ASSUME NEW x, Lawful(x)
    PROVE  Settles(x, Recovered(x)) /\ (x.status = "executing" => Recovered(x).status # "executing")
<1>1. CASE x.status = "executing"
  <2>1. Recovered(x) = Closed(Attempts(x, Attempted(x, "running"), "unknown"), "unknown")
    BY <1>1 DEF Recovered
  <2>2. Attempts(x, Attempted(x, "running"), "unknown") \in Round
    BY AttemptsType DEF Lawful, AttemptStatus
  <2>3. Recovered(x).status = "unknown"
    BY <2>1, <2>2, ClosedType DEF RecordStatus
  <2> QED BY <1>1, <2>1, <2>3, UnknownSettles
<1>2. CASE x.status # "executing"
  <2>1. Attempts(x, Attempted(x, "running"), "unknown") = x
    <3>1. Attempted(x, "running") = {}
      BY <1>2 DEF Lawful, Attempted
    <3>2. [t \in Tools |-> IF t \in {} THEN "unknown" ELSE x.attempts[t]] = x.attempts
      BY DEF Lawful, Round
    <3>3. Attempts(x, {}, "unknown") = x
      BY <3>2 DEF Attempts, Lawful, Round
    <3> QED BY <3>1, <3>3
  <2>2. CASE x.status = "preparing"
    <3>1. x.status \in Unbegun /\ "audit_failed" \in RecordEnds
      BY <2>2 DEF Unbegun, RecordEnds, RecordStatus
    <3> QED BY <2>1, <2>2, <3>1, ClosedSettles DEF Recovered
  <2>3. CASE x.status # "preparing"
    <3>1. Recovered(x) = x
      BY <1>2, <2>1, <2>3 DEF Recovered
    <3> QED BY <1>2, <3>1, SameSettles
  <2> QED BY <1>2, <2>2, <2>3
<1> QED BY <1>1, <1>2

-----------------------------------------------------------------------------
(* A round that several parts execute: its attempts end one by one *)

\* A round that was taken for execution, with all its attempts.
Under(x, k) ==
    /\ Lawful(x)
    /\ x.status = "executing" => x.token = k
    /\ \A t \in Tools : x.attempts[t] # "none"

\* The attempt of the call b of x became unknown, and x with it.
Lost(x, b) == x.attempts[b] = "unknown" /\ x.status = "unknown"

\* The round goes on, and every call but those of T whose attempt can be finished has an
\* attempt that can still be, or was lost with the round.
Onward(x, y, T) ==
    /\ Ends(x, y)
    /\ \A b \in Tools \ T : MayFinish(x, b) => MayFinish(y, b) \/ Lost(y, b)

LEMMA EndsUnder ==
    ASSUME NEW x, NEW y, NEW k, Under(x, k), Ends(x, y)
    PROVE  Under(y, k)
<1>1. CASE y = x
  BY <1>1
<1>2. CASE Ending(x, y) /\ Lawful(y)
  <2>1. y.status = "executing" => y.token = k
    <3>1. ~Says(y) \/ y.status # "executing"
      BY DEF Says
    <3> QED BY <1>2, <3>1 DEF Ending, Under
  <2>2. \A t \in Tools : y.attempts[t] # "none"
    BY <1>2 DEF Ending, Under
  <2> QED BY <1>2, <2>1, <2>2 DEF Under
<1> QED BY <1>1, <1>2 DEF Ends

LEMMA OnwardTransitive ==
    ASSUME NEW x, NEW y, NEW z, NEW S, NEW T, Onward(x, y, S), Onward(y, z, T), Lawful(x)
    PROVE  Onward(x, z, S \cup T)
<1>1. Ends(x, z)
  BY EndsTransitive DEF Onward
<1>2. ASSUME NEW b \in Tools \ (S \cup T), MayFinish(x, b) PROVE MayFinish(z, b) \/ Lost(z, b)
  <2>1. MayFinish(y, b) \/ Lost(y, b)
    BY <1>2 DEF Onward
  <2>2. Lost(y, b) => z = y
    BY DEF Lost, Onward, Ends, Ending
  <2> QED BY <1>2, <2>1, <2>2 DEF Onward
<1> QED BY <1>1, <1>2 DEF Onward

LEMMA SameOnward == ASSUME NEW x, Lawful(x), NEW T PROVE Onward(x, x, T)
BY SameEnds DEF Onward

LEMMA FinishAttemptsOnward ==
    ASSUME NEW x, Lawful(x), NEW T, NEW s \in AttemptStatus \ {"none"}
    PROVE  Onward(x, FinishAttempts(x, T, s), T)
<1>1. Ends(x, FinishAttempts(x, T, s))
  BY FinishAttemptsEnds
<1>2. x \in Round /\ s \in AttemptStatus
  BY DEF Lawful
<1>3. /\ FinishAttempts(x, T, s).status = x.status
      /\ \A t \in Tools : FinishAttempts(x, T, s).attempts[t] =
             IF t \in T /\ x.status = "executing" /\ x.attempts[t] = "running" THEN s ELSE x.attempts[t]
  BY <1>2, FinishAttemptsType
<1> HIDE DEF FinishAttempts
<1> QED BY <1>1, <1>3 DEF Onward, MayFinish

LEMMA FinishIfCompleteOnward ==
    ASSUME NEW x, Lawful(x), NEW k
    PROVE  Onward(x, FinishIfComplete(x, k), {})
<1>1. Ends(x, FinishIfComplete(x, k))
  BY FinishIfCompleteEnds
<1>2. ASSUME NEW b \in Tools, MayFinish(x, b) PROVE FinishIfComplete(x, k) = x
  <2>1. b \in Attempted(x, "running")
    BY <1>2 DEF MayFinish, Attempted
  <2>2. ~IsComplete(x, k)
    BY <2>1 DEF IsComplete
  <2> QED BY <2>2 DEF FinishIfComplete
<1> QED BY <1>1, <1>2 DEF Onward

LEMMA MarkUnknownOnward ==
    ASSUME NEW x, NEW k, Under(x, k)
    PROVE  Onward(x, MarkUnknown(x, k), {}) /\ Onward(x, MarkUnknownReliably(x, k), {})
<1>1. Lawful(x) /\ x \in Round
  BY DEF Under, Lawful
<1>2. Ends(x, MarkUnknown(x, k)) /\ Ends(x, MarkUnknownReliably(x, k))
  BY <1>1, MarkUnknownEnds, MarkUnknownReliablyEnds
<1>3. ASSUME NEW b \in Tools, MayFinish(x, b)
      PROVE  Lost(MarkUnknown(x, k), b) /\ MarkUnknownReliably(x, k) = MarkUnknown(x, k)
  <2> DEFINE y == Attempts(x, Attempted(x, "running"), "unknown")
  <2>1. b \in Attempted(x, "running") /\ Executing(x, k)
    BY <1>3 DEF MayFinish, Attempted, Under, Executing
  <2>2. y \in Round /\ y.attempts[b] = "unknown"
    <3>1. "unknown" \in AttemptStatus
      BY DEF AttemptStatus
    <3>2. /\ y \in Round
          /\ \A t \in Tools : y.attempts[t] = IF t \in Attempted(x, "running") THEN "unknown" ELSE x.attempts[t]
      BY <1>1, <3>1, AttemptsType
    <3> HIDE DEF y
    <3> QED BY <2>1, <3>2
  <2>3. MarkUnknown(x, k) = Closed(y, "unknown")
    BY <2>1 DEF MarkUnknown
  <2> HIDE DEF y
  <2>4. Closed(y, "unknown").status = "unknown" /\ Closed(y, "unknown").attempts = y.attempts
    BY <2>2, ClosedType DEF RecordStatus
  <2>5. ~IsComplete(x, k)
    BY <2>1 DEF IsComplete
  <2> QED BY <2>1, <2>2, <2>3, <2>4, <2>5 DEF Lost, MarkUnknownReliably
<1> QED BY <1>2, <1>3 DEF Onward

LEMMA MarkAttemptUnknownOnward ==
    ASSUME NEW x, NEW k, Under(x, k), NEW b \in Tools
    PROVE  /\ Onward(x, MarkAttemptUnknown(x, k, b), {})
           /\ x.attempts[b] \in {"running", "unknown"} => MarkAttemptUnknown(x, k, b).attempts[b] = "unknown"
           /\ ~MayFinish(MarkAttemptUnknown(x, k, b), b)
<1>1. CASE x.attempts[b] = "running"
  <2>1. x.status = "executing"
    BY <1>1 DEF Under, Lawful
  <2>2. MayFinish(x, b) /\ MarkAttemptUnknown(x, k, b) = MarkUnknown(x, k)
    BY <1>1, <2>1 DEF MayFinish, MarkAttemptUnknown
  <2>3. Onward(x, MarkUnknown(x, k), {})
    BY MarkUnknownOnward
  <2>4. Ends(x, MarkUnknown(x, k))
    BY <2>3 DEF Onward
  <2>5. MayFinish(MarkUnknown(x, k), b) \/ Lost(MarkUnknown(x, k), b)
    BY <2>2, <2>3 DEF Onward
  <2>6. ~MayFinish(MarkUnknown(x, k), b)
    <3> DEFINE y == Attempts(x, Attempted(x, "running"), "unknown")
    <3>1. b \in Attempted(x, "running") /\ Executing(x, k)
      BY <1>1, <2>1 DEF Attempted, Under, Executing
    <3>2. MarkUnknown(x, k) = Closed(y, "unknown")
      BY <3>1 DEF MarkUnknown
    <3>3. y \in Round
      BY AttemptsType DEF Under, Lawful, AttemptStatus
    <3> HIDE DEF y
    <3>4. Closed(y, "unknown").status = "unknown"
      BY <3>3, ClosedType DEF RecordStatus
    <3> QED BY <3>2, <3>4 DEF MayFinish
  <2> QED BY <2>2, <2>3, <2>5, <2>6 DEF Lost
<1>2. CASE x.attempts[b] # "running"
  <2>1. MarkAttemptUnknown(x, k, b) = x
    BY <1>2 DEF MarkAttemptUnknown
  <2> QED BY <1>2, <2>1, SameOnward DEF MayFinish, Under
<1> QED BY <1>1, <1>2

LEMMA MarkUnknownExceptOnward ==
    ASSUME NEW x, Lawful(x), NEW T
    PROVE  Onward(x, MarkUnknownExcept(x, T), Tools \ T)
<1>1. Ends(x, MarkUnknownExcept(x, T))
  BY MarkUnknownExceptEnds
<1>2. ASSUME NEW b \in Tools, b \in T, MayFinish(x, b) PROVE MayFinish(MarkUnknownExcept(x, T), b)
  <2>1. "unknown" \in AttemptStatus /\ x \in Round
    BY DEF AttemptStatus, Lawful
  <2>2. /\ MarkUnknownExcept(x, T).status = x.status
        /\ MarkUnknownExcept(x, T).attempts[b] = x.attempts[b]
    BY <1>2, <2>1, AttemptsType DEF MarkUnknownExcept
  <2> QED BY <1>2, <2>2 DEF MayFinish
<1> QED BY <1>1, <1>2 DEF Onward

\* cancel_unexecuted leaves a round with attempts alone.
LEMMA CancelUnexecutedSame ==
    ASSUME NEW x, NEW k, Under(x, k), Tools # {}
    PROVE  CancelUnexecuted(x) = x
<1>1. Attempted(x, "none") # Tools
  BY DEF Under, Attempted
<1>2. x.status \notin {"preparing", "passed", "pending"}
  BY DEF Under, Lawful
<1> QED BY <1>1, <1>2 DEF CancelUnexecuted

LEMMA EndsKeepsAttempt ==
    ASSUME NEW x, NEW y, Ends(x, y), NEW b \in Tools, x.attempts[b] # "running"
    PROVE  y.attempts[b] = x.attempts[b]
BY DEF Ends, Ending

\* recover_interrupted, for a round that is under way.
LEMMA RecoveredOnward ==
    ASSUME NEW x, NEW k, Under(x, k), x.status = "executing"
    PROVE  Onward(x, Recovered(x), {})
<1> DEFINE y == Attempts(x, Attempted(x, "running"), "unknown")
<1>1. Recovered(x) = Closed(y, "unknown") /\ Ends(x, Closed(y, "unknown"))
  BY UnknownEnds DEF Recovered, Under
<1>2. y \in Round /\ \A t \in Tools : t \in Attempted(x, "running") => y.attempts[t] = "unknown"
  <2>1. "unknown" \in AttemptStatus /\ x \in Round
    BY DEF AttemptStatus, Under, Lawful
  <2> QED BY <2>1, AttemptsType
<1> HIDE DEF y
<1>3. Closed(y, "unknown").status = "unknown" /\ Closed(y, "unknown").attempts = y.attempts
  BY <1>2, ClosedType DEF RecordStatus
<1>4. ASSUME NEW b \in Tools, MayFinish(x, b) PROVE Lost(Closed(y, "unknown"), b)
  BY <1>2, <1>3, <1>4 DEF MayFinish, Attempted, Lost
<1> QED BY <1>1, <1>4 DEF Onward
=============================================================================
