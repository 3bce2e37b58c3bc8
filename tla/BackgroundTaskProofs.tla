---------------------------- MODULE BackgroundTaskProofs ----------------------------
(***************************************************************************)
(* Proofs about BackgroundTask, for any number of tasks, of which any may   *)
(* be bound to the round or to the reply, and any number of faults.         *)
(***************************************************************************)
EXTENDS BackgroundTask, AuditRoundProofs, FiniteSetTheorems

(* The inductive invariant *)

Phases == {"gone", "claimed", "starting", "executing", "unknown", "untold", "releasing"}

\* Claims, among the runners u of a task, of which one may still start the tool, and of
\* which one is still there.
Unstarted(u) == {k \in Claims : u[k] \in {"claimed", "starting"}}

Present(u) == {k \in Claims : u[k] # "gone"}

\* A task b with row r, late if its lease is over, whose tool was executed n times, after
\* f faults: every claim starts the tool once at most, each but the first was made because
\* of a fault, and there is no other one if the task must not run twice.
Fit(b, r, late, u, n, f) ==
    /\ r \in Row /\ u \in [Claims -> Phases] /\ n \in Nat
    /\ late => r.status = "running"
    /\ r.status = "absent" => r.tries = 0
    /\ r.status = "pending" => r.tries <= f
    /\ r.status = "running" => r.tries # 0
    /\ NoRetry(b) => r.tries <= 1 /\ (r.status = "pending" => r.tries = 0)
    /\ r.tries <= f + 1
    /\ ~NoRetry(b) /\ r.status = "running" /\ (late \/ u[r.tries] \in {"gone", "releasing"}) => r.tries <= f
    /\ \A k \in Present(u) : k <= r.tries
    /\ n + Cardinality(Unstarted(u)) <= r.tries

TasksFit == \A b \in Tasks : Fit(b, row[b], b \in lapsed, runner[b], ran[b], faults)

\* What a task of status s says of its attempt in the round x.
Tells(s, x, b) ==
    CASE s = "succeeded" -> x.attempts[b] = "succeeded"
      [] s = "failed"    -> x.attempts[b] \in {"failed", "unknown"}
      [] s = "cancelled" -> x.attempts[b] \in {"cancelled", "unknown"}
      [] OTHER -> MayFinish(x, b) \/ Lost(x, b) \/ (x.attempts[b] = "unknown" /\ s = "absent")

Told == \A b \in Audited : Tells(row[b].status, round, b)

\* What was read for the marking of the round is true until it is marked, of the tasks
\* that can still run: a reply that is interrupted submits none.
MarkFit == reply = "marking" => \A b \in Audited : row[b].status \in Active => b \in spared

TaskInv == TypeOK /\ TasksFit /\ Under(round, Token) /\ Told /\ MarkFit

-----------------------------------------------------------------------------
(* Tasks and their attempts *)

\* A task that is where it was tells the truth of the round that went on.
LEMMA TellsOn ==
    ASSUME NEW x, NEW y, NEW T, Lawful(x), Onward(x, y, T), NEW b \in Tools \ T, NEW s, Tells(s, x, b)
    PROVE  Tells(s, y, b)
<1>1. Ends(x, y) /\ (MayFinish(x, b) => MayFinish(y, b) \/ Lost(y, b))
  BY DEF Onward
<1>2. x.attempts[b] # "running" => y.attempts[b] = x.attempts[b]
  BY <1>1, EndsKeepsAttempt
<1>3. Lost(x, b) => Lost(y, b)
  <2>1. Lost(x, b) => y = x
    BY <1>1 DEF Lost, Ends, Ending
  <2> QED BY <2>1
<1> QED BY <1>1, <1>2, <1>3 DEF Tells

\* The step is one in the life of the round, and the tasks tell the truth of it after.
Passes == Ends(round, round') /\ Told' /\ MarkFit'

SameStory(b) ==
    \/ row'[b].status = row[b].status
    \/ row[b].status \in Active /\ row'[b].status \in Active

LEMMA Passing ==
    ASSUME TaskInv, BackgroundAssumption, NEW T, Onward(round, round', T),
           reply' = "marking" => reply = "marking" /\ spared' = spared,
           \A b \in Audited :
               \/ b \notin T /\ SameStory(b)
               \/ /\ Tells(row'[b].status, round', b)
                  /\ row'[b].status \in Active => row[b].status \in Active \/ reply' # "marking"
    PROVE  Passes
<1>1. Lawful(round) /\ Told /\ MarkFit /\ Audited \subseteq Tools
  BY BackgroundAssumption DEF TaskInv, Under
<1>2. ASSUME NEW b \in Audited PROVE Tells(row'[b].status, round', b)
  <2>1. CASE b \notin T /\ SameStory(b)
    <3>1. Tells(row[b].status, round, b)
      BY <1>1 DEF Told
    <3>2. Tells(row'[b].status, round, b)
      BY <2>1, <3>1 DEF SameStory, Tells, Active
    <3> QED BY <1>1, <2>1, <3>2, TellsOn
  <2>2. CASE Tells(row'[b].status, round', b)
    BY <2>2
  <2> QED BY <2>1, <2>2
<1>3. Told'
  BY <1>2 DEF Told, Tells, MayFinish, Lost
<1>4. MarkFit'
  BY <1>1 DEF MarkFit, SameStory, Active
<1> QED BY <1>3, <1>4 DEF Passes, Onward

\* One task is written; of the others nobody else is concerned.
LEMMA PassingOne ==
    ASSUME TaskInv, BackgroundAssumption, NEW b \in Tasks, NEW r,
           Onward(round, round', {}) \/ Onward(round, round', {b}), row' = [row EXCEPT ![b] = r], UNCHANGED foreground,
           b \in Audited =>
               \/ Tells(r.status, round', b) /\ r.status \notin Active
               \/ /\ Onward(round, round', {})
                  /\ r.status = row[b].status \/ (row[b].status \in Active /\ r.status \in Active)
    PROVE  Passes
<1>1. row \in [Tasks -> Row] /\ Audited \subseteq Tasks
  BY BackgroundAssumption DEF TaskInv, TypeOK
<1>2. row'[b] = r /\ \A c \in Tasks \ {b} : row'[c] = row[c]
  BY <1>1
<1>3. reply' = "marking" => reply = "marking" /\ spared' = spared
  BY DEF foreground
<1>4. PICK T \in SUBSET {b} :
        /\ Onward(round, round', T)
        /\ b \in Audited =>
               \/ Tells(r.status, round', b) /\ r.status \notin Active
               \/ b \notin T /\ (r.status = row[b].status \/ (row[b].status \in Active /\ r.status \in Active))
  <2>1. CASE Onward(round, round', {})
    <3>1. {} \in SUBSET {b} /\ b \notin {}
      OBVIOUS
    <3> QED BY <2>1, <3>1
  <2>2. CASE ~Onward(round, round', {}) /\ Onward(round, round', {b})
    <3>1. {b} \in SUBSET {b}
      OBVIOUS
    <3> QED BY <2>2, <3>1
  <2> QED BY <2>1, <2>2
<1>5. ASSUME NEW c \in Audited
      PROVE  \/ c \notin T /\ SameStory(c)
             \/ /\ Tells(row'[c].status, round', c)
                /\ row'[c].status \in Active => row[c].status \in Active \/ reply' # "marking"
  <2>1. CASE c = b
    BY <1>2, <1>4, <1>5, <2>1 DEF SameStory
  <2>2. CASE c # b
    <3>1. c \notin T /\ row'[c] = row[c]
      BY <1>1, <1>2, <1>5, <2>2
    <3> QED BY <3>1 DEF SameStory
  <2> QED BY <2>1, <2>2
<1> QED BY <1>3, <1>4, <1>5, Passing

\* The round alone is written, or nothing.
LEMMA PassingNone ==
    ASSUME TaskInv, BackgroundAssumption, NEW T, T \cap Audited = {}, Onward(round, round', T), row' = row,
           reply' = "marking" => reply = "marking" /\ spared' = spared
    PROVE  Passes
<1>1. \A b \in Audited : b \notin T /\ SameStory(b)
  BY DEF SameStory
<1> QED BY <1>1, Passing

LEMMA TaskFacts ==
    ASSUME TaskInv, BackgroundAssumption
    PROVE  /\ Lawful(round) /\ Under(round, Token) /\ round \in Round
           /\ Audited \subseteq Tools /\ Audited \subseteq Tasks /\ 0 \in Tools /\ 0 \notin Audited
           /\ \A b \in Tasks : row[b] \in Row
           /\ \A b \in Audited : Tells(row[b].status, round, b)
           /\ Onward(round, round, {})
<1>1. Under(round, Token) /\ Told /\ row \in [Tasks -> Row]
  BY DEF TaskInv, TypeOK
<1>2. Lawful(round) /\ round \in Round
  BY <1>1 DEF Under, Lawful
<1>3. Audited \subseteq Tools /\ Audited \subseteq Tasks /\ 0 \in Tools /\ 0 \notin Audited
  BY BackgroundAssumption
<1>4. \A b \in Audited : Tells(row[b].status, round, b)
  BY <1>1 DEF Told
<1> QED BY <1>1, <1>2, <1>3, <1>4, SameOnward

LEMMA UnchangedPasses ==
    ASSUME TaskInv, BackgroundAssumption, UNCHANGED <<round, row>>,
           reply' = "marking" => reply = "marking" /\ spared' = spared
    PROVE  Passes
<1>1. Onward(round, round', {}) /\ {} \cap Audited = {}
  BY TaskFacts
<1> QED BY <1>1, PassingNone

-----------------------------------------------------------------------------
(* Steps of the reply *)

LEMMA SubmitPasses ==
    ASSUME TaskInv, BackgroundAssumption, NEW b \in Tasks, Submit(b)
    PROVE  Passes
<1>1. Onward(round, round', {})
  BY TaskFacts DEF Submit
<1>2. CASE UNCHANGED tasks
  BY <1>2, UnchangedPasses DEF Submit, tasks
<1>3. CASE /\ b \in Audited => MayFinish(round, b)
           /\ row' = [row EXCEPT ![b] = [status |-> "pending", tries |-> 0,
                                         reply |-> IF b \in Origin THEN "none" ELSE "pending"]]
           /\ reply' = "live"
  <2>1. row \in [Tasks -> Row] /\ Audited \subseteq Tasks
    BY BackgroundAssumption DEF TaskInv, TypeOK
  <2>2. row'[b].status = "pending" /\ \A c \in Tasks \ {b} : row'[c] = row[c]
    BY <1>3, <2>1
  <2>3. b \in Audited => Tells("pending", round', b)
    BY <1>3 DEF Tells, Submit
  <2>4. \A c \in Audited : \/ c \notin {} /\ SameStory(c)
                           \/ Tells(row'[c].status, round', c) /\ reply' # "marking"
    BY <1>3, <2>1, <2>2, <2>3 DEF SameStory
  <2> QED BY <1>1, <1>3, <2>4, Passing
<1> QED BY <1>2, <1>3 DEF Submit, SetRow

LEMMA ReplyPasses ==
    ASSUME TaskInv, BackgroundAssumption,
           \/ \E b \in Tasks : SubmitFails(b)
           \/ \E s \in {"succeeded", "failed"} : OwnToolEnds(s)
           \/ RoundEnds \/ Interrupt \/ ReadActive \/ MarkInterrupted
    PROVE  Passes
<1>1. ASSUME NEW b \in Tasks, SubmitFails(b) PROVE Passes
  <2>1. Onward(round, round', {}) /\ row' = row /\ reply' # "marking"
    BY <1>1, TaskFacts, MarkAttemptUnknownOnward DEF SubmitFails, tasks
  <2> QED BY <2>1, PassingNone
<1>2. ASSUME NEW s \in {"succeeded", "failed"}, OwnToolEnds(s) PROVE Passes
  <2>1. s \in AttemptStatus \ {"none"}
    BY DEF AttemptStatus
  <2>2. Onward(round, round', {0})
    BY <1>2, <2>1, TaskFacts, FinishAttemptsOnward DEF OwnToolEnds, FinishAttempt
  <2>3. {0} \cap Audited = {}
    BY TaskFacts
  <2> QED BY <1>2, <2>2, <2>3, PassingNone DEF OwnToolEnds, tasks, foreground
<1>3. CASE RoundEnds
  <2>1. Onward(round, round', {}) /\ row' = row /\ reply' # "marking"
    BY <1>3, TaskFacts, FinishIfCompleteOnward DEF RoundEnds, tasks
  <2> QED BY <2>1, PassingNone
<1>4. CASE Interrupt
  BY <1>4, UnchangedPasses DEF Interrupt, tasks
<1>5. CASE ReadActive
  <2>1. Ends(round, round')
    BY <1>5, TaskFacts DEF ReadActive, Onward
  <2>2. Told'
    BY <1>5 DEF ReadActive, tasks, TaskInv, Told, Tells, MayFinish, Lost
  <2>3. MarkFit'
    BY <1>5 DEF ReadActive, tasks, MarkFit
  <2> QED BY <2>1, <2>2, <2>3 DEF Passes
<1>6. CASE MarkInterrupted
  <2>1. CASE spared = {}
    <3>1. Onward(round, round', {})
      BY <1>6, <2>1, TaskFacts, MarkUnknownOnward DEF MarkInterrupted
    <3> QED BY <1>6, <3>1, PassingNone DEF MarkInterrupted, tasks
  <2>2. CASE spared # {}
    <3>1. /\ round' = MarkUnknownExcept(round, spared) /\ row' = row
          /\ reply = "marking" /\ reply' = "over" /\ spared' = spared
      BY <1>6, <2>2 DEF MarkInterrupted, tasks
    <3>2. Onward(round, round', Tools \ spared)
      BY <3>1, TaskFacts, MarkUnknownExceptOnward
    <3>3. ASSUME NEW b \in Audited, b \notin spared PROVE Tells(row'[b].status, round', b)
      <4>1. row[b].status \notin Active /\ Tells(row[b].status, round, b) /\ row[b] \in Row /\ b \in Tools
        BY <3>1, <3>3, TaskFacts DEF TaskInv, MarkFit
      <4>2. round.attempts[b] # "running" => round'.attempts[b] = round.attempts[b]
        BY <3>2, <4>1, EndsKeepsAttempt DEF Onward
      <4>3. CASE row[b].status # "absent"
        BY <3>1, <4>1, <4>2, <4>3 DEF Tells, Active, Row
      <4>4. CASE row[b].status = "absent"
        <5>1. round.attempts[b] = "running" \/ round.attempts[b] = "unknown"
          BY <4>1, <4>4 DEF Tells, MayFinish, Lost
        <5>2. round.attempts[b] = "running" => round'.attempts[b] = "unknown"
          <6>1. "unknown" \in AttemptStatus /\ round \in Round
            BY TaskFacts DEF AttemptStatus
          <6>2. round'.attempts[b] = IF b \in Attempted(round, "running") \ spared THEN "unknown"
                                     ELSE round.attempts[b]
            BY <3>1, <4>1, <6>1, AttemptsType DEF MarkUnknownExcept
          <6> QED BY <3>3, <4>1, <6>2 DEF Attempted
        <5> QED BY <3>1, <4>2, <4>4, <5>1, <5>2 DEF Tells
      <4> QED BY <4>3, <4>4
    <3>4. \A b \in Audited :
              \/ b \notin Tools \ spared /\ SameStory(b)
              \/ Tells(row'[b].status, round', b) /\ reply' # "marking"
      BY <3>1, <3>3 DEF SameStory
    <3> QED BY <3>1, <3>2, <3>4, Passing
  <2> QED BY <2>1, <2>2
<1> QED BY <1>1, <1>2, <1>3, <1>4, <1>5, <1>6

-----------------------------------------------------------------------------
(* Steps of runners, manager and user *)

\* mark_execution_unknown leaves task and attempt with the same end.
LEMMA MarkUnknownTaskPasses ==
    ASSUME TaskInv, BackgroundAssumption, NEW b \in Tasks, NEW k, MarkUnknownTask(b, k), UNCHANGED foreground
    PROVE  Passes
<1>1. CASE Owns(b, k) /\ AuditUnknown(b)
  <2>1. row' = [row EXCEPT ![b] = Ended(b, "failed")]
    BY <1>1 DEF MarkUnknownTask, SetRow
  <2>2. row[b] \in Row /\ Ended(b, "failed").status = "failed"
    BY TaskFacts DEF Ended, Row
  <2>3. CASE b \in Audited
    <3>1. round' = MarkAttemptUnknown(round, Token, b)
      BY <1>1, <2>3 DEF MarkUnknownTask
    <3>2. round.attempts[b] \in {"running", "unknown"}
      BY <1>1, <2>3 DEF AuditUnknown, MayFinish
    <3>3. Onward(round, round', {}) /\ round'.attempts[b] = "unknown"
      BY <2>3, <3>1, <3>2, TaskFacts, MarkAttemptUnknownOnward
    <3>4. Tells(Ended(b, "failed").status, round', b)
      BY <2>2, <3>3 DEF Tells
    <3>5. Ended(b, "failed").status \notin Active
      BY <2>2 DEF Active
    <3> QED BY <2>1, <3>3, <3>4, <3>5, PassingOne
  <2>4. CASE b \notin Audited
    <3>1. Onward(round, round', {})
      BY <1>1, <2>4, TaskFacts DEF MarkUnknownTask
    <3> QED BY <2>1, <2>4, <3>1, PassingOne
  <2> QED BY <2>3, <2>4
<1>2. CASE ~(Owns(b, k) /\ AuditUnknown(b))
  BY <1>2, UnchangedPasses DEF MarkUnknownTask, foreground
<1> QED BY <1>1, <1>2

\* A task that is not bound to the round is written, or one keeps its status or stays
\* active.
LEMMA RowPasses ==
    ASSUME TaskInv, BackgroundAssumption, NEW b \in Tasks, UNCHANGED <<round, foreground>>,
           NEW r, row' = [row EXCEPT ![b] = r],
           b \notin Audited \/ r.status = row[b].status \/ (row[b].status \in Active /\ r.status \in Active)
    PROVE  Passes
<1>1. Onward(round, round', {})
  BY TaskFacts
<1> QED BY <1>1, PassingOne

LEMMA ClaimPasses ==
    ASSUME TaskInv, BackgroundAssumption, NEW b \in Tasks, Claim(b)
    PROVE  Passes
<1> DEFINE r == [row[b] EXCEPT !.status = "running", !.tries = row[b].tries + 1]
<1>1. row' = [row EXCEPT ![b] = r] /\ UNCHANGED <<round, foreground>> /\ row[b].status = "pending"
  BY DEF Claim, SetRow
<1>2. row[b] \in Row
  BY TaskFacts
<1>3. r.status = "running"
  BY <1>2 DEF Row
<1> HIDE DEF r
<1> QED BY <1>1, <1>3, RowPasses DEF Active

LEMMA EndPasses ==
    ASSUME TaskInv, BackgroundAssumption, NEW b \in Tasks, NEW k, NEW s \in {"succeeded", "failed"}, End(b, k, s)
    PROVE  Passes
<1>1. UNCHANGED foreground /\ row[b] \in Row
  BY TaskFacts DEF End
<1>2. CASE MayEnd(b, k)
  <2>1. /\ row' = [row EXCEPT ![b] = Ended(b, s)]
        /\ round' = IF b \in Audited THEN FinishIfComplete(FinishAttempt(round, b, s), Token) ELSE round
    BY <1>2 DEF End, MayEnd, SetRow
  <2>2. Ended(b, s).status = s
    BY <1>1 DEF Ended, Row
  <2>3. CASE b \in Audited
    <3> DEFINE x == FinishAttempts(round, {b}, s)
               y == FinishIfComplete(x, Token)
    <3>1. s \in AttemptStatus /\ s \in AttemptStatus \ {"none"} /\ b \in Tools /\ round \in Round /\ Lawful(round)
      BY <2>3, TaskFacts DEF AttemptStatus
    <3>2. Onward(round, x, {b})
      BY <3>1, FinishAttemptsOnward
    <3>3. Lawful(x)
      BY <3>2 DEF Onward, Ends
    <3>4. x.attempts[b] = s
      <4>1. round.status = "executing" /\ round.attempts[b] = "running"
        BY <1>2, <2>3 DEF MayEnd, MayFinish
      <4>2. PICK T : T = {b} /\ x = FinishAttempts(round, T, s)
        OBVIOUS
      <4> HIDE DEF x
      <4>3. s \in AttemptStatus /\ b \in Tools /\ round \in Round
        BY <3>1
      <4>4. FinishAttempts(round, T, s).attempts[b] =
                IF b \in T /\ round.status = "executing" /\ round.attempts[b] = "running" THEN s ELSE round.attempts[b]
        BY <4>3, FinishAttemptsType
      <4> QED BY <4>1, <4>2, <4>4
    <3>5. Onward(x, y, {}) /\ round' = y
      BY <2>1, <2>3, <3>3, FinishIfCompleteOnward DEF FinishAttempt
    <3> HIDE DEF x, y
    <3>6. Onward(round, y, {b} \cup {})
      BY <3>1, <3>2, <3>5, OnwardTransitive
    <3>7. y.attempts[b] = s
      BY <3>1, <3>4, <3>5, EndsKeepsAttempt DEF Onward
    <3>8. Tells(Ended(b, s).status, round', b) /\ Ended(b, s).status \notin Active
      BY <2>2, <3>5, <3>7 DEF Tells, Active
    <3>9. Onward(round, round', {b})
      BY <3>5, <3>6
    <3> QED BY <1>1, <2>1, <3>8, <3>9, PassingOne
  <2>4. CASE b \notin Audited
    BY <1>1, <2>1, <2>4, RowPasses
  <2> QED BY <2>3, <2>4
<1>3. CASE ~MayEnd(b, k)
  BY <1>1, <1>3, UnchangedPasses DEF End, tasks, foreground
<1> QED BY <1>2, <1>3

LEMMA ReleasedPasses ==
    ASSUME TaskInv, BackgroundAssumption, NEW b \in Tasks, NEW k, Released(b, k), UNCHANGED foreground
    PROVE  Passes
<1>1. CASE NoRetry(b)
  BY <1>1, MarkUnknownTaskPasses DEF Released
<1>2. CASE ~NoRetry(b)
  <2>1. b \notin Audited
    BY <1>2 DEF NoRetry
  <2>2. CASE Owns(b, k)
    <3>1. row' = [row EXCEPT ![b] = [row[b] EXCEPT !.status = "pending"]] /\ UNCHANGED round
      BY <1>2, <2>2 DEF Released, SetRow
    <3> QED BY <2>1, <3>1, RowPasses
  <2>3. CASE ~Owns(b, k)
    BY <1>2, <2>3, UnchangedPasses DEF Released, tasks, foreground
  <2> QED BY <2>2, <2>3
<1> QED BY <1>1, <1>2

LEMMA RunnerPasses ==
    ASSUME TaskInv, BackgroundAssumption, NEW b \in Tasks, NEW k, RunnerStep(b, k) \/ ReleaseFails(b, k)
    PROVE  Passes
<1>1. CASE Start(b, k) \/ StartAttempt(b, k) \/ Raises(b, k) \/ NoticeLoss(b, k) \/ ReleaseFails(b, k)
  <2>1. UNCHANGED <<round, row>> /\ UNCHANGED foreground
    BY <1>1 DEF Start, StartAttempt, Raises, NoticeLoss, ReleaseFails, tasks
  <2> QED BY <2>1, UnchangedPasses DEF foreground
<1>2. ASSUME NEW s \in {"succeeded", "failed"}, End(b, k, s) PROVE Passes
  BY <1>2, EndPasses
<1>3. CASE TimedOut(b, k) \/ TaskThen(b, k)
  BY <1>3, MarkUnknownTaskPasses DEF TimedOut, TaskThen
<1>4. CASE AuditFirst(b, k)
  <2>1. UNCHANGED row /\ UNCHANGED foreground /\ round' = MarkAttemptUnknown(round, Token, b)
    BY <1>4 DEF AuditFirst, tasks
  <2>2. CASE b \in Tools
    <3>1. Onward(round, round', {})
      BY <2>1, <2>2, TaskFacts, MarkAttemptUnknownOnward
    <3> QED BY <2>1, <3>1, PassingNone DEF foreground
  <2>3. CASE b \notin Tools
    <3>1. Onward(round, round', {})
      BY <2>1, TaskFacts, SameOnward, MarkUnknownOnward DEF MarkAttemptUnknown
    <3> QED BY <2>1, <3>1, PassingNone DEF foreground
  <2> QED BY <2>2, <2>3
<1>5. CASE Release(b, k)
  BY <1>5, ReleasedPasses DEF Release
<1> QED BY <1>1, <1>2, <1>3, <1>4, <1>5 DEF RunnerStep

LEMMA PollPasses ==
    ASSUME TaskInv, BackgroundAssumption, NEW b \in Tasks, Poll(b) \/ WorkEnds(b) \/ Lapse(b)
    PROVE  Passes
<1>1. CASE Claim(b)
  BY <1>1, ClaimPasses
<1>2. CASE Requeue(b)
  <2>1. UNCHANGED foreground
    BY <1>2 DEF Requeue
  <2>2. CASE NoRetry(b)
    BY <1>2, <2>1, <2>2, MarkUnknownTaskPasses DEF Requeue
  <2>3. CASE ~NoRetry(b)
    <3> DEFINE r == IF row[b].tries >= MaxAttempts THEN Ended(b, "failed") ELSE [row[b] EXCEPT !.status = "pending"]
    <3>1. row' = [row EXCEPT ![b] = r] /\ UNCHANGED round
      BY <1>2, <2>3 DEF Requeue, SetRow
    <3>2. b \notin Audited
      BY <2>3 DEF NoRetry
    <3> HIDE DEF r
    <3> QED BY <2>1, <3>1, <3>2, RowPasses
  <2> QED BY <2>2, <2>3
<1>3. CASE TriggerReply(b)
  <2>1. /\ row' = [row EXCEPT ![b] = [row[b] EXCEPT !.reply = "running"]]
        /\ UNCHANGED <<round, foreground>> /\ row[b] \in Row
    BY <1>3, TaskFacts DEF TriggerReply, SetRow
  <2>2. [row[b] EXCEPT !.reply = "running"].status = row[b].status
    BY <2>1 DEF Row
  <2> QED BY <2>1, <2>2, RowPasses
<1>4. ASSUME NEW s \in {"succeeded", "failed"}, ReplyEnds(b, s) PROVE Passes
  <2> DEFINE r == IF s = "failed" \/ row[b].reply = "running" THEN [row[b] EXCEPT !.reply = s] ELSE row[b]
  <2>1. row' = [row EXCEPT ![b] = r] /\ UNCHANGED <<round, foreground>> /\ row[b] \in Row
    BY <1>4, TaskFacts DEF ReplyEnds, SetRow
  <2>2. r.status = row[b].status
    BY <2>1 DEF Row
  <2> HIDE DEF r
  <2> QED BY <2>1, <2>2, RowPasses
<1>5. CASE Lapse(b)
  BY <1>5, UnchangedPasses DEF Lapse, foreground
<1> QED BY <1>1, <1>2, <1>3, <1>4, <1>5 DEF Poll, WorkEnds

LEMMA CancelPasses ==
    ASSUME TaskInv, BackgroundAssumption, NEW b \in Tasks, Cancel(b)
    PROVE  Passes
<1>1. /\ row' = [row EXCEPT ![b] = Ended(b, "cancelled")] /\ UNCHANGED foreground /\ row[b] \in Row
      /\ row[b].status \in {"pending", "running"} /\ (b \in Audited => MayFinish(round, b))
  BY TaskFacts DEF Cancel, SetRow, MayCancel
<1>2. Ended(b, "cancelled").status = "cancelled"
  BY <1>1 DEF Ended, Row
<1>3. CASE b \in Audited /\ row[b].status = "running"
  <2>1. round' = MarkAttemptUnknown(round, Token, b) /\ b \in Tools /\ round.attempts[b] = "running"
    BY <1>1, <1>3, TaskFacts DEF Cancel, MayFinish
  <2>2. Onward(round, round', {}) /\ round'.attempts[b] = "unknown"
    BY <2>1, TaskFacts, MarkAttemptUnknownOnward
  <2>3. Tells(Ended(b, "cancelled").status, round', b) /\ Ended(b, "cancelled").status \notin Active
    BY <1>2, <2>2 DEF Tells, Active
  <2> QED BY <1>1, <2>2, <2>3, PassingOne
<1>4. CASE b \in Audited /\ row[b].status = "pending"
  <2> DEFINE x == FinishAttempts(round, {b}, "cancelled")
             y == FinishIfComplete(x, Token)
  <2>1. /\ "cancelled" \in AttemptStatus /\ "cancelled" \in AttemptStatus \ {"none"}
        /\ b \in Tools /\ round \in Round /\ Lawful(round)
    BY <1>4, TaskFacts DEF AttemptStatus
  <2>2. Onward(round, x, {b})
    BY <2>1, FinishAttemptsOnward
  <2>3. Lawful(x)
    BY <2>2 DEF Onward, Ends
  <2>4. x.attempts[b] = "cancelled"
    <3>1. x.attempts[b] = IF b \in {b} /\ round.status = "executing" /\ round.attempts[b] = "running"
                          THEN "cancelled" ELSE round.attempts[b]
      BY <2>1, FinishAttemptsType
    <3> HIDE DEF x
    <3> QED BY <1>1, <1>4, <3>1 DEF MayFinish
  <2>5. Onward(x, y, {}) /\ round' = y
    BY <1>4, <2>3, FinishIfCompleteOnward DEF Cancel, FinishAttempt
  <2> HIDE DEF x, y
  <2>6. Onward(round, y, {b} \cup {})
    BY <2>1, <2>2, <2>5, OnwardTransitive
  <2>7. y.attempts[b] = "cancelled"
    BY <2>1, <2>4, <2>5, EndsKeepsAttempt DEF Onward
  <2>8. Tells(Ended(b, "cancelled").status, round', b) /\ Ended(b, "cancelled").status \notin Active
    BY <1>2, <2>5, <2>7 DEF Tells, Active
  <2>9. Onward(round, round', {b})
    BY <2>5, <2>6
  <2> QED BY <1>1, <2>8, <2>9, PassingOne
<1>5. CASE b \notin Audited
  <2>1. UNCHANGED round
    BY <1>5 DEF Cancel
  <2> QED BY <1>1, <1>5, <2>1, RowPasses
<1> QED BY <1>1, <1>3, <1>4, <1>5

-----------------------------------------------------------------------------
(* The tasks of the session, or all tasks, are cancelled *)

PendingTasks == {b \in Audited : row[b].status = "pending"}

\* Every task that was to run or runs finds its attempt cancelled or unknown.
LEMMA ClearedRound ==
    ASSUME TaskInv, BackgroundAssumption
    PROVE  /\ Onward(round, RoundAfterClear, PendingTasks)
           /\ \A b \in Audited : row[b].status \in Active => RoundAfterClear.attempts[b] \in {"cancelled", "unknown"}
<1> DEFINE running == {b \in Audited : row[b].status = "running"}
           x == FinishAttempts(round, PendingTasks, "cancelled")
           y == IF x = round THEN x ELSE FinishIfComplete(x, Token)
           z == IF \E b \in running : y.attempts[b] = "running" THEN MarkUnknown(y, Token) ELSE y
<1>1. RoundAfterClear = z
  BY DEF RoundAfterClear, PendingTasks
<1>2. /\ Lawful(round) /\ Under(round, Token) /\ round \in Round
      /\ Audited \subseteq Tools /\ PendingTasks \subseteq Audited /\ running \subseteq Audited
  BY TaskFacts DEF PendingTasks
<1>3. "cancelled" \in AttemptStatus /\ "cancelled" \in AttemptStatus \ {"none"}
  BY DEF AttemptStatus
<1>4. Onward(round, x, PendingTasks)
  BY <1>2, <1>3, FinishAttemptsOnward
<1>5. \A b \in PendingTasks : x.attempts[b] \in {"cancelled", "unknown"}
  <2>1. \A b \in Tools : x.attempts[b] = IF b \in PendingTasks /\ round.status = "executing" /\ round.attempts[b] = "running"
                                         THEN "cancelled" ELSE round.attempts[b]
    BY <1>2, <1>3, FinishAttemptsType
  <2>2. \A b \in PendingTasks : MayFinish(round, b) \/ Lost(round, b)
    BY <1>2, TaskFacts DEF PendingTasks, Tells
  <2> HIDE DEF x
  <2> QED BY <1>2, <2>1, <2>2 DEF MayFinish, Lost
<1>6. Lawful(x) /\ Under(x, Token)
  BY <1>2, <1>4, EndsUnder DEF Onward, Under
<1> HIDE DEF x
<1>7. Onward(x, y, {})
  BY <1>6, SameOnward, FinishIfCompleteOnward
<1>8. Lawful(y) /\ Under(y, Token)
  BY <1>6, <1>7, EndsUnder DEF Onward, Under
<1> HIDE DEF y
<1>9. Onward(y, z, {})
  BY <1>8, SameOnward, MarkUnknownOnward
<1>10. Onward(round, y, PendingTasks)
  <2>1. Onward(round, y, PendingTasks \cup {})
    BY <1>2, <1>4, <1>7, OnwardTransitive
  <2>2. PendingTasks \cup {} = PendingTasks
    OBVIOUS
  <2> QED BY <2>1, <2>2
<1>11. \A b \in running : z.attempts[b] \in {"cancelled", "unknown"}
  <2> SUFFICES ASSUME NEW b \in running PROVE z.attempts[b] \in {"cancelled", "unknown"}
    OBVIOUS
  <2>1. b \in Tools \ PendingTasks /\ (MayFinish(round, b) \/ Lost(round, b))
    BY <1>2, TaskFacts DEF PendingTasks, Tells
  <2>2. MayFinish(y, b) \/ Lost(y, b)
    <3>1. Lost(round, b) => y = round
      BY <1>10 DEF Lost, Onward, Ends, Ending
    <3> QED BY <1>10, <2>1, <3>1 DEF Onward
  <2>3. CASE MayFinish(y, b)
    <3>1. y.attempts[b] = "running" /\ z = MarkAttemptUnknown(y, Token, b)
      BY <2>3 DEF MayFinish, MarkAttemptUnknown
    <3>2. MarkAttemptUnknown(y, Token, b).attempts[b] = "unknown"
      BY <1>8, <2>1, <3>1, MarkAttemptUnknownOnward
    <3> QED BY <3>1, <3>2
  <2>4. CASE Lost(y, b)
    <3> HIDE DEF z
    <3>1. y.attempts[b] = "unknown" /\ y.attempts[b] # "running" /\ Ends(y, z) /\ b \in Tools
      BY <1>2, <1>9, <2>4 DEF Lost, Onward
    <3>2. z.attempts[b] = y.attempts[b]
      BY <3>1, EndsKeepsAttempt
    <3> QED BY <3>1, <3>2
  <2> QED BY <2>2, <2>3, <2>4
<1> HIDE DEF z
<1>12. \A b \in PendingTasks : z.attempts[b] \in {"cancelled", "unknown"}
  <2> SUFFICES ASSUME NEW b \in PendingTasks PROVE z.attempts[b] \in {"cancelled", "unknown"}
    OBVIOUS
  <2>1. b \in Tools /\ x.attempts[b] \in {"cancelled", "unknown"}
    BY <1>2, <1>5
  <2>2. y.attempts[b] = x.attempts[b]
    BY <1>7, <2>1, EndsKeepsAttempt DEF Onward
  <2>3. z.attempts[b] = y.attempts[b]
    BY <1>9, <2>1, <2>2, EndsKeepsAttempt DEF Onward
  <2> QED BY <2>1, <2>2, <2>3
<1>13. Onward(round, z, PendingTasks)
  <2>1. Onward(round, z, PendingTasks \cup {})
    BY <1>2, <1>9, <1>10, OnwardTransitive
  <2>2. PendingTasks \cup {} = PendingTasks
    OBVIOUS
  <2> QED BY <2>1, <2>2
<1>14. \A b \in Audited : row[b].status \in Active => b \in running \/ b \in PendingTasks
  BY DEF Active, PendingTasks
<1> QED BY <1>1, <1>11, <1>12, <1>13, <1>14

\* The round after the cleanup, whatever else is marked in it, agrees with the rows.
LEMMA ClearedPasses ==
    ASSUME TaskInv, BackgroundAssumption, Cleared, Onward(RoundAfterClear, round', {}),
           reply' = "marking" => reply = "marking" /\ spared' = spared
    PROVE  Passes
<1>1. /\ Lawful(round) /\ Audited \subseteq Tools /\ Audited \subseteq Tasks
      /\ Onward(round, RoundAfterClear, PendingTasks)
      /\ \A b \in Audited : row[b].status \in Active => RoundAfterClear.attempts[b] \in {"cancelled", "unknown"}
  BY TaskFacts, ClearedRound
<1>2. Onward(round, round', PendingTasks)
  <2>1. Onward(round, round', PendingTasks \cup {})
    BY <1>1, OnwardTransitive
  <2>2. PendingTasks \cup {} = PendingTasks
    OBVIOUS
  <2> QED BY <2>1, <2>2
<1>3. \A b \in Tasks : row'[b].status = IF row[b].status \in Active THEN "cancelled" ELSE row[b].status
  <2> SUFFICES ASSUME NEW b \in Tasks
               PROVE  row'[b].status = IF row[b].status \in Active THEN "cancelled" ELSE row[b].status
    OBVIOUS
  <2>1. row'[b] = ClearedRow(b) /\ row[b] \in Row
    BY TaskFacts DEF Cleared
  <2>2. CASE row[b].status \in Active
    <3>1. row'[b] = Ended(b, "cancelled")
      BY <2>1, <2>2 DEF ClearedRow, Active
    <3> QED BY <2>1, <2>2, <3>1 DEF Ended, Row
  <2>3. CASE row[b].status \notin Active
    <3>1. row'[b] = row[b] \/ row'[b] = [row[b] EXCEPT !.reply = "none"]
      BY <2>1, <2>3 DEF ClearedRow, Active
    <3> QED BY <2>1, <2>3, <3>1 DEF Row
  <2> QED BY <2>2, <2>3
<1>4. ASSUME NEW b \in Audited
      PROVE  \/ b \notin PendingTasks /\ SameStory(b)
             \/ /\ Tells(row'[b].status, round', b)
                /\ row'[b].status \in Active => row[b].status \in Active \/ reply' # "marking"
  <2>1. b \in Tasks /\ b \in Tools
    BY <1>1
  <2>2. CASE row[b].status \in Active
    <3>1. row'[b].status = "cancelled" /\ RoundAfterClear.attempts[b] \in {"cancelled", "unknown"}
      BY <1>1, <1>3, <2>1, <2>2
    <3>2. round'.attempts[b] = RoundAfterClear.attempts[b]
      BY <2>1, <3>1, EndsKeepsAttempt DEF Onward
    <3> QED BY <3>1, <3>2 DEF Tells, Active
  <2>3. CASE row[b].status \notin Active
    BY <1>3, <2>1, <2>3 DEF SameStory, PendingTasks, Active
  <2> QED BY <2>2, <2>3
<1> QED BY <1>2, <1>4, Passing

LEMMA StartupCleanupPasses ==
    ASSUME TaskInv, BackgroundAssumption, StartupCleanup
    PROVE  Passes
<1>1. Under(RoundAfterClear, Token) /\ Lawful(RoundAfterClear)
  BY TaskFacts, ClearedRound, EndsUnder DEF Onward, Under
<1>2. Onward(RoundAfterClear, round', {})
  BY <1>1, SameOnward, MarkUnknownOnward DEF StartupCleanup
<1>3. Cleared /\ (reply' = "marking" => reply = "marking" /\ spared' = spared)
  BY DEF StartupCleanup
<1> QED BY <1>2, <1>3, ClearedPasses

LEMMA StopPasses ==
    ASSUME TaskInv, BackgroundAssumption, Stop
    PROVE  Passes
<1>1. Under(RoundAfterClear, Token) /\ Lawful(RoundAfterClear) /\ Tools # {}
  BY TaskFacts, ClearedRound, EndsUnder DEF Onward, Under
<1>2. Onward(RoundAfterClear, round', {})
  BY <1>1, SameOnward, CancelUnexecutedSame DEF Stop
<1>3. Cleared /\ (reply' = "marking" => reply = "marking" /\ spared' = spared)
  BY DEF Stop
<1> QED BY <1>2, <1>3, ClearedPasses

\* Every step is one in the life of the round, and the tasks tell the truth of it after.
LEMMA NextPasses ==
    ASSUME TaskInv, BackgroundAssumption, [Next]_vars
    PROVE  Passes
<1>1. CASE ReplyStep \/ Interrupt \/ \E b \in Tasks : SubmitFails(b)
  BY <1>1, SubmitPasses, ReplyPasses DEF ReplyStep
<1>2. CASE \E b \in Tasks : Poll(b) \/ WorkEnds(b) \/ Lapse(b) \/ Cancel(b)
  BY <1>2, PollPasses, CancelPasses
<1>3. CASE \E b \in Tasks, k \in Claims : RunnerStep(b, k) \/ ReleaseFails(b, k)
  BY <1>3, RunnerPasses
<1>4. CASE RoleLost \/ Shutdown \/ Crash
  BY <1>4, UnchangedPasses DEF RoleLost, Shutdown, Crash, tasks, foreground
<1>5. CASE StartupCleanup \/ Stop
  BY <1>5, StartupCleanupPasses, StopPasses
<1>6. CASE UNCHANGED vars
  BY <1>6, UnchangedPasses DEF vars
<1> QED BY <1>1, <1>2, <1>3, <1>4, <1>5, <1>6 DEF Next

-----------------------------------------------------------------------------
(* Rows and runners *)

Ends3 == {"succeeded", "failed", "cancelled"}

LEMMA UnstartedFinite ==
    ASSUME BackgroundAssumption, NEW u
    PROVE  IsFiniteSet(Unstarted(u)) /\ Cardinality(Unstarted(u)) \in Nat
<1>1. IsFiniteSet(Claims)
  BY FS_Interval DEF BackgroundAssumption, Claims
<1>2. Unstarted(u) \subseteq Claims
  BY DEF Unstarted
<1> QED BY <1>1, <1>2, FS_Subset, FS_CardinalityType

\* No claim is made and the tool is not started: the task ends, or is put back after a
\* fault, or stays where it is, and runners go.
LEMMA FitMoves ==
    ASSUME BackgroundAssumption, NEW b \in Tasks,
           NEW r, NEW late \in BOOLEAN, NEW u, NEW n, NEW f \in Nat, Fit(b, r, late, u, n, f),
           NEW x \in Row, NEW late2 \in BOOLEAN, NEW v \in [Claims -> Phases], NEW g \in Nat,
           f <= g, x.tries = r.tries,
           Present(v) \subseteq Present(u), Unstarted(v) \subseteq Unstarted(u),
           late2 => x.status = "running",
           \/ x.status = r.status
           \/ x.status \in Ends3
           \/ x.status = "pending" /\ r.status = "absent"
           \/ x.status = "pending" /\ ~NoRetry(b) /\ r.tries <= g,
           ~NoRetry(b) /\ x.status = "running" /\ (late2 \/ v[x.tries] \in {"gone", "releasing"}) => x.tries <= g
    PROVE  Fit(b, x, late2, v, n, g)
<1>1. /\ r \in Row /\ n \in Nat /\ r.tries \in Nat
      /\ r.status = "absent" => r.tries = 0
      /\ r.status = "pending" => r.tries <= f
      /\ r.status = "running" => r.tries # 0
      /\ NoRetry(b) => r.tries <= 1 /\ (r.status = "pending" => r.tries = 0)
      /\ r.tries <= f + 1
      /\ \A k \in Present(u) : k <= r.tries
      /\ n + Cardinality(Unstarted(u)) <= r.tries
  BY DEF Fit, Row, Claims
<1>2. Cardinality(Unstarted(v)) <= Cardinality(Unstarted(u))
  BY UnstartedFinite, FS_Subset
<1>3. n + Cardinality(Unstarted(v)) <= x.tries
  <2>1. Cardinality(Unstarted(v)) \in Nat /\ Cardinality(Unstarted(u)) \in Nat
    BY UnstartedFinite
  <2> QED BY <1>1, <1>2, <2>1
<1>4. \A k \in Present(v) : k <= x.tries
  BY <1>1
<1>5. /\ x.status = "absent" => x.tries = 0
      /\ x.status = "pending" => x.tries <= g
      /\ x.status = "running" => x.tries # 0
      /\ NoRetry(b) => x.tries <= 1 /\ (x.status = "pending" => x.tries = 0)
      /\ x.tries <= g + 1
  BY <1>1 DEF Ends3
<1> QED BY <1>1, <1>3, <1>4, <1>5 DEF Fit

\* The rest of the state has its type.
Shape ==
    /\ row = [b \in Tasks |-> row[b]]
    /\ lapsed \subseteq Tasks
    /\ reply \in {"live", "waiting", "interrupted", "marking", "over"}
    /\ spared \subseteq Audited
    /\ runner = [b \in Tasks |-> runner[b]]
    /\ old \subseteq Tasks \X Claims
    /\ work \in [Tasks -> {"none", "queued", "ended", "cancelled"}]
    /\ ran = [b \in Tasks |-> ran[b]]
    /\ faults \in 0..MaxFaults

LEMMA ShapeNow == ASSUME TypeOK PROVE Shape
BY DEF TypeOK, Shape

FitNext(b) == Fit(b, row'[b], b \in lapsed', runner'[b], ran'[b], faults')

LEMMA AllFit ==
    ASSUME BackgroundAssumption, Shape', \A b \in Tasks : FitNext(b), round' \in Round
    PROVE  TypeOK' /\ TasksFit'
<1>1. TasksFit'
  BY DEF TasksFit, FitNext, Fit, Owns, NoRetry, Present, Unstarted
<1>2. faults' \in 0..MaxFaults /\ MaxFaults \in Nat /\ lapsed' \subseteq Tasks
  BY DEF Shape, BackgroundAssumption
<1>3. ASSUME NEW b \in Tasks
      PROVE  /\ row'[b] \in Row /\ runner'[b] \in [Claims -> Phases] /\ ran'[b] \in 0 .. MaxFaults + 1
             /\ b \in lapsed' => row'[b].status = "running"
  <2>1. /\ row'[b] \in Row /\ runner'[b] \in [Claims -> Phases] /\ ran'[b] \in Nat
        /\ row'[b].tries <= faults' + 1
        /\ ran'[b] + Cardinality(Unstarted(runner'[b])) <= row'[b].tries
        /\ b \in lapsed' => row'[b].status = "running"
    BY DEF FitNext, Fit
  <2>2. row'[b].tries \in Nat /\ Cardinality(Unstarted(runner'[b])) \in Nat
    BY <1>2, <2>1, UnstartedFinite DEF Row, Claims
  <2> QED BY <1>2, <2>1, <2>2
<1>4. row' \in [Tasks -> Row] /\ runner' \in [Tasks -> [Claims -> Phases]] /\ ran' \in [Tasks -> 0 .. MaxFaults + 1]
  BY <1>3 DEF Shape
<1>5. lapsed' \subseteq {b \in Tasks : row'[b].status = "running"}
  BY <1>2, <1>3
<1> QED BY <1>1, <1>4, <1>5 DEF TypeOK, Shape, Phases

LEMMA TaskFit ==
    ASSUME TaskInv, BackgroundAssumption, NEW b \in Tasks
    PROVE  /\ Fit(b, row[b], b \in lapsed, runner[b], ran[b], faults)
           /\ row[b] \in Row /\ row[b].tries \in Nat /\ faults \in Nat /\ runner[b] \in [Claims -> Phases]
           /\ ran[b] \in Nat
           /\ b \in lapsed => row[b].status = "running"
           /\ row[b].tries # 0 => row[b].tries \in Claims
BY DEF TaskInv, TypeOK, TasksFit, Fit, Row, Claims, BackgroundAssumption

\* One task moves, no claim is made and the tool is not started.
Moves(b) ==
    /\ row'[b] \in Row /\ row'[b].tries = row[b].tries
    /\ runner'[b] \in [Claims -> Phases]
    /\ Present(runner'[b]) \subseteq Present(runner[b]) /\ Unstarted(runner'[b]) \subseteq Unstarted(runner[b])
    /\ ran'[b] = ran[b]
    /\ b \in lapsed' => row'[b].status = "running"
    /\ \/ row'[b].status = row[b].status
       \/ row'[b].status \in Ends3
       \/ row'[b].status = "pending" /\ row[b].status = "absent"
       \/ row'[b].status = "pending" /\ ~NoRetry(b) /\ row[b].tries <= faults'
    /\ ~NoRetry(b) /\ row'[b].status = "running" /\ (b \in lapsed' \/ runner'[b][row[b].tries] \in {"gone", "releasing"})
           => row[b].tries <= faults'

LEMMA MovesFit ==
    ASSUME TaskInv, BackgroundAssumption, NEW b \in Tasks, Moves(b), faults' \in {faults, faults + 1}
    PROVE  FitNext(b)
<1>1. faults \in Nat /\ faults' \in Nat /\ faults <= faults'
  BY TaskFit
<1>2. Fit(b, row[b], b \in lapsed, runner[b], ran[b], faults)
  BY TaskFit
<1>3. Fit(b, row'[b], b \in lapsed', runner'[b], ran[b], faults')
  <2> DEFINE late == b \in lapsed
             late2 == b \in lapsed'
             x == row'[b]
             v == runner'[b]
  <2>1. late \in BOOLEAN /\ late2 \in BOOLEAN
    OBVIOUS
  <2>2. /\ x \in Row /\ v \in [Claims -> Phases] /\ x.tries = row[b].tries
        /\ Present(v) \subseteq Present(runner[b]) /\ Unstarted(v) \subseteq Unstarted(runner[b])
        /\ late2 => x.status = "running"
        /\ \/ x.status = row[b].status
           \/ x.status \in Ends3
           \/ x.status = "pending" /\ row[b].status = "absent"
           \/ x.status = "pending" /\ ~NoRetry(b) /\ row[b].tries <= faults'
        /\ ~NoRetry(b) /\ x.status = "running" /\ (late2 \/ v[x.tries] \in {"gone", "releasing"}) => x.tries <= faults'
    BY DEF Moves
  <2>3. Fit(b, row[b], late, runner[b], ran[b], faults)
    BY <1>2
  <2> HIDE DEF late, late2, x, v
  <2>4. Fit(b, x, late2, v, ran[b], faults')
    BY <1>1, <2>1, <2>2, <2>3, FitMoves
  <2> QED BY <2>4 DEF late2, x, v
<1> QED BY <1>3 DEF FitNext, Moves

\* A task nothing is written of, whatever fault there was.
LEMMA StaysFit ==
    ASSUME TaskInv, BackgroundAssumption, NEW b \in Tasks, faults' \in {faults, faults + 1},
           row'[b] = row[b], b \in lapsed' <=> b \in lapsed, runner'[b] = runner[b], ran'[b] = ran[b]
    PROVE  FitNext(b)
<1>1. faults \in Nat /\ row[b].tries \in Nat
  BY TaskFit
<1>2. /\ row[b] \in Row /\ runner[b] \in [Claims -> Phases]
      /\ b \in lapsed => row[b].status = "running"
      /\ ~NoRetry(b) /\ row[b].status = "running" /\ (b \in lapsed \/ runner[b][row[b].tries] \in {"gone", "releasing"})
             => row[b].tries <= faults
  BY TaskFit DEF Fit
<1>3. Moves(b)
  BY <1>1, <1>2 DEF Moves
<1> QED BY <1>3, MovesFit

\* Of one task something is written: what it is shows the type of the whole.
Only(b) ==
    /\ \E r : row' = [row EXCEPT ![b] = r]
    /\ \E u : runner' = [runner EXCEPT ![b] = u]
    /\ \E n : ran' = [ran EXCEPT ![b] = n]
    /\ lapsed' \in {lapsed, lapsed \ {b}, lapsed \cup {b}}
    /\ reply' \in {"live", "waiting", "interrupted", "marking", "over"}
    /\ UNCHANGED <<spared, old>>
    /\ \E s \in {"none", "queued", "ended", "cancelled"} : work' = [work EXCEPT ![b] = s]
    /\ faults' \in {faults, faults + 1} /\ faults' <= MaxFaults

LEMMA OnlyFit ==
    ASSUME TaskInv, BackgroundAssumption, NEW b \in Tasks, Only(b), FitNext(b), round' \in Round
    PROVE  TypeOK' /\ TasksFit'
<1>1. TypeOK
  BY DEF TaskInv
<1>2. PICK r, u, n : /\ row' = [row EXCEPT ![b] = r] /\ runner' = [runner EXCEPT ![b] = u]
                     /\ ran' = [ran EXCEPT ![b] = n]
  BY DEF Only
<1>3. /\ \A c \in Tasks \ {b} : row'[c] = row[c] /\ runner'[c] = runner[c] /\ ran'[c] = ran[c]
      /\ row' = [c \in Tasks |-> row'[c]] /\ runner' = [c \in Tasks |-> runner'[c]] /\ ran' = [c \in Tasks |-> ran'[c]]
  BY <1>1, <1>2 DEF TypeOK
<1>4. /\ \A c \in Tasks \ {b} : c \in lapsed' <=> c \in lapsed
      /\ lapsed' \subseteq Tasks
  BY <1>1 DEF Only, TypeOK
<1>5. faults' \in {faults, faults + 1}
  BY DEF Only
<1>6. \A c \in Tasks : FitNext(c)
  BY <1>3, <1>4, <1>5, StaysFit
<1>7. /\ reply' \in {"live", "waiting", "interrupted", "marking", "over"} /\ spared' \subseteq Audited
      /\ old' \subseteq Tasks \X Claims
  BY <1>1 DEF Only, TypeOK
<1>8. work' \in [Tasks -> {"none", "queued", "ended", "cancelled"}]
  <2>1. PICK s \in {"none", "queued", "ended", "cancelled"} : work' = [work EXCEPT ![b] = s]
    BY DEF Only
  <2> QED BY <1>1, <2>1 DEF TypeOK
<1>9. faults' \in 0 .. MaxFaults
  <2>1. faults \in Nat /\ MaxFaults \in Nat /\ faults' <= MaxFaults
    BY <1>1 DEF BackgroundAssumption, Only, TypeOK
  <2> QED BY <1>5, <2>1
<1>10. Shape'
  BY <1>3, <1>4, <1>7, <1>8, <1>9 DEF Shape
<1> QED BY <1>6, <1>10, AllFit

\* What is unchanged of one task is written to it.
LEMMA SameOnly ==
    ASSUME TypeOK, NEW b \in Tasks
    PROVE  /\ row = [row EXCEPT ![b] = row[b]] /\ runner = [runner EXCEPT ![b] = runner[b]]
           /\ ran = [ran EXCEPT ![b] = ran[b]]
           /\ work[b] \in {"none", "queued", "ended", "cancelled"} /\ work = [work EXCEPT ![b] = work[b]]
           /\ reply \in {"live", "waiting", "interrupted", "marking", "over"}
           /\ faults \in Nat /\ faults <= MaxFaults
BY DEF TypeOK, BackgroundAssumption

\* The runner of a claim goes on to pc; it was not gone, and no runner returns to its start.
LEMMA GotoFacts ==
    ASSUME TaskInv, BackgroundAssumption, NEW b \in Tasks, NEW k \in Claims, NEW pc \in Phases,
           Goto(b, k, pc), runner[b][k] # "gone",
           pc \in {"claimed", "starting"} => runner[b][k] \in {"claimed", "starting"}
    PROVE  /\ runner'[b] \in [Claims -> Phases]
           /\ Present(runner'[b]) \subseteq Present(runner[b])
           /\ Unstarted(runner'[b]) \subseteq Unstarted(runner[b])
           /\ runner'[b][k] = pc /\ \A j \in Claims \ {k} : runner'[b][j] = runner[b][j]
           /\ runner' = [runner EXCEPT ![b] = runner'[b]]
<1> DEFINE v == [runner[b] EXCEPT ![k] = pc]
<1>1. runner \in [Tasks -> [Claims -> Phases]] /\ runner[b] \in [Claims -> Phases]
  BY DEF TaskInv, TypeOK, Phases
<1>2. runner' = [runner EXCEPT ![b] = v] /\ runner'[b] = v
  BY <1>1 DEF Goto
<1>3. v \in [Claims -> Phases] /\ v[k] = pc /\ \A j \in Claims \ {k} : v[j] = runner[b][j]
  BY <1>1
<1> HIDE DEF v
<1>4. Present(v) \subseteq Present(runner[b]) /\ Unstarted(v) \subseteq Unstarted(runner[b])
  BY <1>1, <1>3 DEF Present, Unstarted
<1> QED BY <1>2, <1>3, <1>4

LEMMA EndedFacts ==
    ASSUME TaskInv, BackgroundAssumption, NEW b \in Tasks, NEW s \in Ends3
    PROVE  Ended(b, s) \in Row /\ Ended(b, s).status = s /\ Ended(b, s).tries = row[b].tries
<1>1. row[b] \in Row
  BY TaskFit
<1> QED BY <1>1 DEF Ended, Row, Ends3

\* A task is put back.
LEMMA PutBackFacts ==
    ASSUME TaskInv, BackgroundAssumption, NEW b \in Tasks
    PROVE  LET r == [row[b] EXCEPT !.status = "pending"]
           IN  r \in Row /\ r.status = "pending" /\ r.tries = row[b].tries
<1>1. row[b] \in Row
  BY TaskFit
<1> QED BY <1>1 DEF Row, Active

LEMMA SetRowFacts ==
    ASSUME TaskInv, NEW b \in Tasks, NEW r, SetRow(b, r)
    PROVE  row'[b] = r /\ row' = [row EXCEPT ![b] = r] /\ b \notin lapsed' /\ lapsed' = lapsed \ {b}
BY DEF TaskInv, TypeOK, SetRow

\* A runner goes on: it leaves the row alone, ends the task, or puts it back.
LEMMA RunnerFit ==
    ASSUME TaskInv, BackgroundAssumption, NEW b \in Tasks, NEW k \in Claims, NEW pc \in Phases,
           Goto(b, k, pc), runner[b][k] # "gone",
           pc \in {"claimed", "starting"} => runner[b][k] \in {"claimed", "starting"},
           UNCHANGED <<foreground, old, work, ran>>,
           faults' \in {faults, faults + 1}, faults' <= MaxFaults, round' \in Round,
           \/ /\ UNCHANGED tasks
              /\ pc \in {"gone", "releasing"} => NoRetry(b) \/ ~Holds(b, k) \/ runner[b][k] = "releasing"
           \/ \E s \in Ends3 : SetRow(b, Ended(b, s))
           \/ /\ SetRow(b, [row[b] EXCEPT !.status = "pending"])
              /\ ~NoRetry(b) /\ Owns(b, k) /\ runner[b][k] = "releasing"
    PROVE  TypeOK' /\ TasksFit'
<1>1. /\ runner'[b] \in [Claims -> Phases]
      /\ Present(runner'[b]) \subseteq Present(runner[b])
      /\ Unstarted(runner'[b]) \subseteq Unstarted(runner[b])
      /\ runner'[b][k] = pc /\ \A j \in Claims \ {k} : runner'[b][j] = runner[b][j]
      /\ runner' = [runner EXCEPT ![b] = runner'[b]]
  BY GotoFacts
<1>2. /\ row[b] \in Row /\ row[b].tries \in Nat /\ faults \in Nat
      /\ row[b].tries # 0 => row[b].tries \in Claims
      /\ row[b].status = "running" => row[b].tries # 0
      /\ b \in lapsed => row[b].status = "running"
      /\ ~NoRetry(b) /\ row[b].status = "running" /\ (b \in lapsed \/ runner[b][row[b].tries] \in {"gone", "releasing"})
             => row[b].tries <= faults
      /\ faults <= faults'
  BY TaskFit DEF Fit
<1>3. row = [row EXCEPT ![b] = row[b]] /\ ran = [ran EXCEPT ![b] = ran[b]] /\ work = [work EXCEPT ![b] = work[b]]
      /\ work[b] \in {"none", "queued", "ended", "cancelled"}
      /\ reply \in {"live", "waiting", "interrupted", "marking", "over"}
  BY SameOnly DEF TaskInv
<1>4. (\E r : row' = [row EXCEPT ![b] = r]) /\ lapsed' \in {lapsed, lapsed \ {b}}
  BY <1>3 DEF SetRow, tasks
<1>5. Only(b)
  BY <1>1, <1>3, <1>4 DEF Only, foreground
<1>6. CASE /\ UNCHANGED tasks
           /\ pc \in {"gone", "releasing"} => NoRetry(b) \/ ~Holds(b, k) \/ runner[b][k] = "releasing"
  <2>1. row' = row /\ lapsed' = lapsed /\ ran' = ran
    BY <1>6 DEF tasks
  <2>2. ~NoRetry(b) /\ row[b].status = "running" /\ (b \in lapsed \/ runner'[b][row[b].tries] \in {"gone", "releasing"})
           => row[b].tries <= faults'
    <3>1. CASE row[b].tries = k
      BY <1>1, <1>2, <1>6, <3>1 DEF Holds, Owns
    <3>2. CASE row[b].tries # k
      BY <1>1, <1>2, <3>2
    <3> QED BY <3>1, <3>2
  <2>3. Moves(b)
    BY <1>1, <1>2, <2>1, <2>2 DEF Moves
  <2> QED BY <1>5, <2>3, MovesFit, OnlyFit
<1>7. ASSUME NEW s \in Ends3, SetRow(b, Ended(b, s)) PROVE TypeOK' /\ TasksFit'
  <2>1. row'[b] = Ended(b, s) /\ b \notin lapsed'
    BY <1>7, SetRowFacts
  <2>2. row'[b] \in Row /\ row'[b].status \in Ends3 /\ row'[b].tries = row[b].tries /\ row'[b].status # "running"
    BY <2>1, EndedFacts DEF Ends3
  <2>3. Moves(b)
    BY <1>1, <2>1, <2>2 DEF Moves
  <2> QED BY <1>5, <2>3, MovesFit, OnlyFit
<1>8. CASE /\ SetRow(b, [row[b] EXCEPT !.status = "pending"])
           /\ ~NoRetry(b) /\ Owns(b, k) /\ runner[b][k] = "releasing"
  <2>1. row'[b] = [row[b] EXCEPT !.status = "pending"] /\ b \notin lapsed'
    BY <1>8, SetRowFacts
  <2>2. row'[b] \in Row /\ row'[b].status = "pending" /\ row'[b].tries = row[b].tries
    BY <2>1, PutBackFacts
  <2>3. row[b].tries <= faults'
    BY <1>2, <1>8 DEF Owns
  <2>4. Moves(b)
    BY <1>1, <1>8, <2>1, <2>2, <2>3 DEF Moves
  <2> QED BY <1>5, <2>4, MovesFit, OnlyFit
<1> QED BY <1>6, <1>7, <1>8

\* The tool is started: by a claim that had not started it, which cannot start it again.
LEMMA ExecuteFit ==
    ASSUME TaskInv, BackgroundAssumption, NEW b \in Tasks, NEW k \in Claims, Execute(b, k), k \in Unstarted(runner[b]),
           UNCHANGED <<tasks, foreground, old, work, faults>>, round' \in Round
    PROVE  TypeOK' /\ TasksFit'
<1>1. "executing" \in Phases /\ runner[b][k] \in {"claimed", "starting"} /\ Goto(b, k, "executing")
  BY DEF Phases, Unstarted, Execute
<1>2. /\ runner'[b] \in [Claims -> Phases] /\ Present(runner'[b]) \subseteq Present(runner[b])
      /\ runner'[b][k] = "executing" /\ \A j \in Claims \ {k} : runner'[b][j] = runner[b][j]
      /\ runner' = [runner EXCEPT ![b] = runner'[b]]
  BY <1>1, GotoFacts
<1>3. /\ row = [row EXCEPT ![b] = row[b]] /\ work = [work EXCEPT ![b] = work[b]]
      /\ work[b] \in {"none", "queued", "ended", "cancelled"}
      /\ reply \in {"live", "waiting", "interrupted", "marking", "over"}
      /\ faults \in Nat /\ faults <= MaxFaults
  BY SameOnly DEF TaskInv
<1>4. ran' = [ran EXCEPT ![b] = ran[b] + 1] /\ ran'[b] = ran[b] + 1 /\ ran[b] \in Nat
  <2>1. ran \in [Tasks -> 0 .. MaxFaults + 1] /\ ran[b] \in Nat
    BY TaskFit DEF TaskInv, TypeOK
  <2> QED BY <2>1 DEF Execute
<1>5. row' = row /\ lapsed' = lapsed /\ faults' = faults
  BY DEF tasks
<1>6. Only(b)
  BY <1>2, <1>3, <1>4, <1>5 DEF Only, foreground
<1>7. Unstarted(runner'[b]) = Unstarted(runner[b]) \ {k}
  BY <1>2 DEF Unstarted
<1>8. Cardinality(Unstarted(runner'[b])) = Cardinality(Unstarted(runner[b])) - 1
  <2>1. IsFiniteSet(Unstarted(runner[b]))
    BY UnstartedFinite
  <2>2. Cardinality(Unstarted(runner[b]) \ {k}) = Cardinality(Unstarted(runner[b])) - 1
    BY <2>1, FS_RemoveElement
  <2> QED BY <1>7, <2>2
<1>9. ran'[b] + Cardinality(Unstarted(runner'[b])) = ran[b] + Cardinality(Unstarted(runner[b]))
  <2>1. Cardinality(Unstarted(runner[b])) \in Nat
    BY UnstartedFinite
  <2> QED BY <1>4, <1>8, <2>1
<1>10. Fit(b, row[b], b \in lapsed, runner[b], ran[b], faults)
  BY TaskFit
<1>11. \A j \in Claims : runner'[b][j] \in {"gone", "releasing"} => runner[b][j] = runner'[b][j]
  BY <1>2
<1>12. row[b].status = "running" => row[b].tries \in Claims
  BY TaskFit, <1>10 DEF Fit
<1>13. ran'[b] \in Nat
  BY <1>4
<1>14. Fit(b, row[b], b \in lapsed, runner'[b], ran'[b], faults)
  <2>1. /\ ran'[b] + Cardinality(Unstarted(runner'[b])) <= row[b].tries
        /\ \A j \in Present(runner'[b]) : j <= row[b].tries
    BY <1>2, <1>9, <1>10 DEF Fit
  <2>2. ~NoRetry(b) /\ row[b].status = "running" /\ (b \in lapsed \/ runner'[b][row[b].tries] \in {"gone", "releasing"})
            => row[b].tries <= faults
    BY <1>10, <1>11, <1>12 DEF Fit
  <2> QED BY <1>2, <1>10, <1>13, <2>1, <2>2 DEF Fit
<1>15. FitNext(b)
  BY <1>5, <1>14 DEF FitNext
<1> QED BY <1>6, <1>15, OnlyFit

LEMMA MarkUnknownTaskRows ==
    ASSUME NEW b, NEW k, MarkUnknownTask(b, k)
    PROVE  \/ UNCHANGED tasks /\ (~Owns(b, k) \/ b \in Audited)
           \/ SetRow(b, Ended(b, "failed"))
BY DEF MarkUnknownTask, AuditUnknown, tasks

LEMMA RunnerStepFit ==
    ASSUME TaskInv, BackgroundAssumption, NEW b \in Tasks, NEW k \in Claims,
           RunnerStep(b, k) \/ ReleaseFails(b, k), round' \in Round
    PROVE  TypeOK' /\ TasksFit'
<1> "gone" \in Phases /\ "unknown" \in Phases /\ "untold" \in Phases /\ "starting" \in Phases /\ "releasing" \in Phases
  BY DEF Phases
<1>0. faults \in Nat /\ faults <= MaxFaults /\ MaxFaults \in Nat
  BY SameOnly DEF TaskInv, BackgroundAssumption
<1>1. CASE Start(b, k) \/ StartAttempt(b, k)
  <2>1. /\ UNCHANGED <<tasks, foreground, old, work, faults>> /\ runner[b][k] \in {"claimed", "starting"}
        /\ \/ Execute(b, k)
           \/ \E pc \in {"starting", "unknown"} : Goto(b, k, pc) /\ UNCHANGED ran
    BY <1>1 DEF Start, StartFenced, StartAttempt
  <2>2. CASE Execute(b, k)
    BY <2>1, <2>2, ExecuteFit DEF Unstarted
  <2>3. ASSUME NEW pc \in {"starting", "unknown"}, Goto(b, k, pc), UNCHANGED ran PROVE TypeOK' /\ TasksFit'
    <3>1. pc \in Phases /\ pc \notin {"gone", "releasing"} /\ runner[b][k] # "gone"
      BY <2>1 DEF Phases
    <3> QED BY <1>0, <2>1, <2>3, <3>1, RunnerFit
  <2> QED BY <2>1, <2>2, <2>3
<1>2. ASSUME NEW s \in {"succeeded", "failed"}, End(b, k, s) PROVE TypeOK' /\ TasksFit'
  <2>1. runner[b][k] # "gone" /\ UNCHANGED <<foreground, old, work, ran, faults>> /\ s \in Ends3
    BY <1>2 DEF End, Ends3
  <2>2. CASE MayEnd(b, k)
    <3>1. Goto(b, k, "gone") /\ SetRow(b, Ended(b, s))
      BY <1>2, <2>2 DEF End, MayEnd
    <3> QED BY <1>0, <2>1, <3>1, RunnerFit
  <2>3. CASE ~MayEnd(b, k)
    <3>1. PICK pc \in {"unknown", "gone"} : Goto(b, k, pc)
      BY <1>2, <2>3 DEF End
    <3>2. UNCHANGED tasks /\ (NoRetry(b) \/ ~Holds(b, k))
      BY <1>2, <2>3 DEF End, MayEnd, NoRetry
    <3> QED BY <1>0, <2>1, <3>1, <3>2, RunnerFit
  <2> QED BY <2>2, <2>3
<1>3. CASE TimedOut(b, k) \/ TaskThen(b, k)
  <2>1. /\ MarkUnknownTask(b, k) /\ Goto(b, k, "gone") /\ runner[b][k] # "gone"
        /\ UNCHANGED <<foreground, old, work, ran, faults>>
    BY <1>3 DEF TimedOut, TaskThen
  <2>2. \/ UNCHANGED tasks /\ (~Holds(b, k) \/ NoRetry(b))
        \/ SetRow(b, Ended(b, "failed"))
    BY <2>1, MarkUnknownTaskRows DEF Holds, NoRetry
  <2> QED BY <1>0, <2>1, <2>2, RunnerFit DEF Ends3
<1>4. CASE Raises(b, k) \/ AuditFirst(b, k)
  <2>1. \E pc \in {"unknown", "untold"} : Goto(b, k, pc)
    BY <1>4 DEF Raises, AuditFirst
  <2>2. runner[b][k] # "gone" /\ UNCHANGED <<tasks, foreground, old, work, ran, faults>>
    BY <1>4 DEF Raises, AuditFirst
  <2> QED BY <1>0, <2>1, <2>2, RunnerFit
<1>5. CASE NoticeLoss(b, k)
  BY <1>0, <1>5, RunnerFit DEF NoticeLoss
<1>6. CASE Release(b, k)
  <2>1. /\ Goto(b, k, "gone") /\ Released(b, k) /\ runner[b][k] = "releasing"
        /\ UNCHANGED <<foreground, old, work, ran, faults>>
    BY <1>6 DEF Release
  <2>2. CASE NoRetry(b)
    <3>1. UNCHANGED tasks \/ SetRow(b, Ended(b, "failed"))
      BY <2>1, <2>2, MarkUnknownTaskRows DEF Released
    <3> QED BY <1>0, <2>1, <2>2, <3>1, RunnerFit DEF Ends3
  <2>3. CASE ~NoRetry(b)
    <3>1. \/ UNCHANGED tasks
          \/ SetRow(b, [row[b] EXCEPT !.status = "pending"]) /\ Owns(b, k)
      BY <2>1, <2>3 DEF Released
    <3> QED BY <1>0, <2>1, <2>3, <3>1, RunnerFit
  <2> QED BY <2>2, <2>3
<1>7. CASE ReleaseFails(b, k)
  <2>1. /\ Goto(b, k, "gone") /\ runner[b][k] = "releasing" /\ UNCHANGED <<tasks, foreground, old, work, ran>>
        /\ faults' = faults + 1 /\ faults < MaxFaults
    BY <1>7 DEF ReleaseFails, Fault
  <2>2. faults' <= MaxFaults
    BY <1>0, <2>1
  <2> QED BY <2>1, <2>2, RunnerFit
<1> QED BY <1>1, <1>2, <1>3, <1>4, <1>5, <1>6, <1>7 DEF RunnerStep

\* The row of one task is written, its runners stay.
LEMMA RowFit ==
    ASSUME TaskInv, BackgroundAssumption, NEW b \in Tasks, UNCHANGED <<runner, old, ran, spared>>,
           reply' \in {"live", "waiting", "interrupted", "marking", "over"},
           \E s \in {"none", "queued", "ended", "cancelled"} : work' = [work EXCEPT ![b] = s],
           faults' \in {faults, faults + 1}, faults' <= MaxFaults, round' \in Round,
           NEW r \in Row, SetRow(b, r), r.tries = row[b].tries,
           \/ r.status = row[b].status
           \/ r.status \in Ends3
           \/ r.status = "pending" /\ row[b].status = "absent"
           \/ r.status = "pending" /\ ~NoRetry(b) /\ b \in lapsed
    PROVE  TypeOK' /\ TasksFit'
<1>1. row'[b] = r /\ row' = [row EXCEPT ![b] = r] /\ b \notin lapsed' /\ lapsed' = lapsed \ {b}
  BY SetRowFacts
<1>2. runner = [runner EXCEPT ![b] = runner[b]] /\ ran = [ran EXCEPT ![b] = ran[b]]
  BY SameOnly DEF TaskInv
<1>3. Only(b)
  BY <1>1, <1>2 DEF Only
<1>4. /\ runner[b] \in [Claims -> Phases] /\ row[b].tries \in Nat /\ faults \in Nat
      /\ ~NoRetry(b) /\ row[b].status = "running" /\ (b \in lapsed \/ runner[b][row[b].tries] \in {"gone", "releasing"})
             => row[b].tries <= faults
      /\ b \in lapsed => row[b].status = "running"
  BY TaskFit DEF Fit
<1>5. Moves(b)
  BY <1>1, <1>4 DEF Moves, Ends3
<1> QED BY <1>3, <1>5, MovesFit, OnlyFit

LEMMA SameWork ==
    ASSUME TypeOK, NEW b \in Tasks, UNCHANGED work
    PROVE  \E s \in {"none", "queued", "ended", "cancelled"} : work' = [work EXCEPT ![b] = s]
BY SameOnly

LEMMA SubmitFit ==
    ASSUME TaskInv, BackgroundAssumption, NEW b \in Tasks, Submit(b), round' \in Round
    PROVE  TypeOK' /\ TasksFit'
<1>1. /\ row[b].status = "absent" /\ UNCHANGED <<runner, old, ran, spared, work, faults>>
      /\ reply' \in {"live", "waiting", "interrupted", "marking", "over"}
      /\ faults' \in {faults, faults + 1} /\ faults' <= MaxFaults /\ TypeOK
  BY SameOnly DEF Submit, TaskInv
<1>2. CASE UNCHANGED tasks
  <2>1. Only(b)
    BY <1>1, <1>2, SameOnly DEF Only, tasks
  <2>2. FitNext(b)
    BY <1>1, <1>2, StaysFit DEF tasks
  <2> QED BY <2>1, <2>2, OnlyFit
<1>3. ASSUME NEW r, r = [status |-> "pending", tries |-> 0, reply |-> IF b \in Origin THEN "none" ELSE "pending"],
             SetRow(b, r)
      PROVE  TypeOK' /\ TasksFit'
  <2>1. r \in Row /\ r.status = "pending" /\ r.tries = row[b].tries
    BY <1>1, <1>3, TaskFit DEF Row, Active, Fit
  <2> QED BY <1>1, <1>3, <2>1, SameWork, RowFit
<1> QED BY <1>2, <1>3 DEF Submit

\* A claim is made: it is a new one, and the only one of a task that must not run twice.
LEMMA ClaimFit ==
    ASSUME TaskInv, BackgroundAssumption, NEW b \in Tasks, Claim(b), round' \in Round
    PROVE  TypeOK' /\ TasksFit'
<1> DEFINE k == row[b].tries + 1
           r == [row[b] EXCEPT !.status = "running", !.tries = k]
           v == [runner[b] EXCEPT ![k] = "claimed"]
<1>1. /\ row[b].status = "pending" /\ SetRow(b, r) /\ Goto(b, k, "claimed")
      /\ UNCHANGED <<foreground, old, work, ran, faults>>
  BY DEF Claim
<1>2. Fit(b, row[b], b \in lapsed, runner[b], ran[b], faults) /\ row[b] \in Row /\ row[b].tries \in Nat
  BY TaskFit
<1>3. faults \in Nat /\ MaxFaults \in Nat /\ faults <= MaxFaults
  BY SameOnly DEF TaskInv, BackgroundAssumption
<1>4. k \in Claims /\ k \in Nat /\ k = row[b].tries + 1 /\ k <= faults + 1
  BY SMTT(30), <1>1, <1>2, <1>3 DEF Fit, Claims
<1>5. r \in Row /\ r.status = "running" /\ r.tries = k
  BY <1>2, <1>4 DEF Row, Active
<1>6. runner[b] \in [Claims -> Phases] /\ runner[b][k] = "gone"
  <2>1. runner[b] \in [Claims -> Phases] /\ \A j \in Present(runner[b]) : j <= row[b].tries
    BY <1>2 DEF Fit
  <2>2. k \notin Present(runner[b])
    BY <1>2, <1>4, <2>1
  <2> QED BY <1>4, <2>1, <2>2 DEF Present
<1>7. runner' = [runner EXCEPT ![b] = v] /\ runner'[b] = v
  BY <1>1 DEF Goto, TaskInv, TypeOK
<1>8. v \in [Claims -> Phases] /\ v[k] = "claimed" /\ \A j \in Claims \ {k} : v[j] = runner[b][j]
  BY <1>4, <1>6 DEF Phases
<1>9. row'[b] = r /\ row' = [row EXCEPT ![b] = r] /\ b \notin lapsed' /\ lapsed' = lapsed \ {b}
  BY <1>1, SetRowFacts
<1> HIDE DEF k, r, v
<1>10. Unstarted(v) = Unstarted(runner[b]) \cup {k} /\ k \notin Unstarted(runner[b])
  BY <1>4, <1>6, <1>8 DEF Unstarted
<1>11. Cardinality(Unstarted(v)) = Cardinality(Unstarted(runner[b])) + 1
  <2>1. IsFiniteSet(Unstarted(runner[b]))
    BY UnstartedFinite
  <2>2. Cardinality(Unstarted(runner[b]) \cup {k}) = Cardinality(Unstarted(runner[b])) + 1
    BY <1>10, <2>1, FS_AddElement
  <2> QED BY <1>10, <2>2
<1>12. ran[b] + Cardinality(Unstarted(v)) <= k
  <2>1. Cardinality(Unstarted(runner[b])) \in Nat /\ ran[b] \in Nat
    BY UnstartedFinite, TaskFit
  <2>2. ran[b] + Cardinality(Unstarted(runner[b])) <= row[b].tries
    BY <1>2 DEF Fit
  <2> QED BY <1>2, <1>4, <1>11, <2>1, <2>2
<1>13. \A j \in Present(v) : j <= k
  <2> SUFFICES ASSUME NEW j \in Present(v), j # k PROVE j <= k
    BY <1>4
  <2>1. j \in Present(runner[b]) /\ j \in Claims
    BY <1>8 DEF Present
  <2>2. j <= row[b].tries /\ j \in Nat
    BY <1>2, <2>1 DEF Fit, Claims
  <2> QED BY <1>2, <1>4, <2>2
<1>14. NoRetry(b) => k <= 1
  BY <1>1, <1>2, <1>4 DEF Fit
<1>15. ran[b] \in Nat
  BY TaskFit
<1>16. /\ r.tries # 0 /\ r.tries <= faults + 1 /\ r.status \notin {"absent", "pending"}
       /\ r.tries <= 1 \/ ~NoRetry(b)
       /\ v[r.tries] \notin {"gone", "releasing"}
       /\ \A j \in Present(v) : j <= r.tries
       /\ ran[b] + Cardinality(Unstarted(v)) <= r.tries
  BY <1>2, <1>4, <1>5, <1>8, <1>12, <1>13, <1>14
<1>17. FitNext(b)
  <2>1. row'[b] = r /\ runner'[b] = v /\ ran'[b] = ran[b] /\ faults' = faults /\ ~(b \in lapsed')
    BY <1>1, <1>7, <1>9
  <2>2. Fit(b, r, b \in lapsed', v, ran[b], faults)
    BY <1>5, <1>8, <1>15, <1>16, <2>1 DEF Fit
  <2> QED BY <2>1, <2>2 DEF FitNext
<1>18. Only(b)
  <2>1. ran = [ran EXCEPT ![b] = ran[b]] /\ reply \in {"live", "waiting", "interrupted", "marking", "over"}
    BY SameOnly DEF TaskInv
  <2>2. \E s \in {"none", "queued", "ended", "cancelled"} : work' = [work EXCEPT ![b] = s]
    BY <1>1, SameWork DEF TaskInv
  <2> QED BY <1>1, <1>3, <1>7, <1>9, <2>1, <2>2 DEF Only, foreground
<1> QED BY <1>17, <1>18, OnlyFit

LEMMA PollFit ==
    ASSUME TaskInv, BackgroundAssumption, NEW b \in Tasks, Poll(b) \/ WorkEnds(b) \/ Lapse(b) \/ Cancel(b),
           round' \in Round
    PROVE  TypeOK' /\ TasksFit'
<1>0. /\ TypeOK /\ row[b] \in Row /\ faults \in Nat /\ faults <= MaxFaults /\ MaxFaults \in Nat
      /\ reply \in {"live", "waiting", "interrupted", "marking", "over"}
      /\ work[b] \in {"none", "queued", "ended", "cancelled"} /\ work = [work EXCEPT ![b] = work[b]]
  BY SameOnly, TaskFit DEF TaskInv, BackgroundAssumption
<1>1. CASE Claim(b)
  BY <1>1, ClaimFit
<1>2. CASE Requeue(b)
  <2>1. b \in lapsed /\ UNCHANGED <<foreground, runner, old, work, ran, faults>>
    BY <1>2 DEF Requeue
  <2>2. /\ UNCHANGED <<runner, old, ran, spared>> /\ faults' \in {faults, faults + 1} /\ faults' <= MaxFaults
        /\ reply' \in {"live", "waiting", "interrupted", "marking", "over"}
        /\ \E s \in {"none", "queued", "ended", "cancelled"} : work' = [work EXCEPT ![b] = s]
    BY <1>0, <2>1 DEF foreground
  <2>3. \/ UNCHANGED tasks
        \/ SetRow(b, Ended(b, "failed"))
        \/ SetRow(b, [row[b] EXCEPT !.status = "pending"]) /\ ~NoRetry(b)
    <3>1. CASE NoRetry(b)
      BY <1>2, <3>1, MarkUnknownTaskRows DEF Requeue
    <3>2. CASE ~NoRetry(b)
      BY <1>2, <3>2 DEF Requeue
    <3> QED BY <3>1, <3>2
  <2>4. CASE UNCHANGED tasks
    <3>1. FitNext(b)
      BY <2>1, <2>4, StaysFit DEF tasks
    <3>2. Only(b)
      BY ZenonT(40), <1>0, <2>1, <2>2, <2>4, SameOnly DEF Only, tasks
    <3> QED BY <3>1, <3>2, OnlyFit
  <2>5. CASE SetRow(b, Ended(b, "failed"))
    <3>1. "failed" \in Ends3
      BY DEF Ends3
    <3>2. Ended(b, "failed") \in Row /\ Ended(b, "failed").status = "failed" /\ Ended(b, "failed").tries = row[b].tries
      BY <3>1, EndedFacts
    <3> QED BY <2>2, <2>5, <3>1, <3>2, RowFit
  <2>6. CASE SetRow(b, [row[b] EXCEPT !.status = "pending"]) /\ ~NoRetry(b)
    <3> DEFINE r == [row[b] EXCEPT !.status = "pending"]
    <3>1. r \in Row /\ r.status = "pending" /\ r.tries = row[b].tries /\ SetRow(b, r)
      BY <2>6, PutBackFacts
    <3> HIDE DEF r
    <3> QED BY <2>1, <2>2, <2>6, <3>1, RowFit
  <2> QED BY <2>3, <2>4, <2>5, <2>6
<1>3. CASE TriggerReply(b)
  <2> DEFINE r == [row[b] EXCEPT !.reply = "running"]
  <2>1. r \in Row /\ r.status = row[b].status /\ r.tries = row[b].tries /\ SetRow(b, r)
    BY <1>0, <1>3 DEF TriggerReply, Row
  <2>2. UNCHANGED <<runner, old, ran, spared, faults>> /\ reply' \in {"live", "waiting", "interrupted", "marking", "over"}
    BY <1>0, <1>3 DEF TriggerReply, foreground
  <2>3. \E s \in {"none", "queued", "ended", "cancelled"} : work' = [work EXCEPT ![b] = s]
    <3>1. work' = [work EXCEPT ![b] = IF work[b] = "none" THEN "queued" ELSE work[b]]
      BY <1>3 DEF TriggerReply
    <3> QED BY <1>0, <3>1
  <2> HIDE DEF r
  <2> QED BY <1>0, <2>1, <2>2, <2>3, RowFit
<1>4. ASSUME NEW s \in {"succeeded", "failed"}, ReplyEnds(b, s) PROVE TypeOK' /\ TasksFit'
  <2> DEFINE r == IF s = "failed" \/ row[b].reply = "running" THEN [row[b] EXCEPT !.reply = s] ELSE row[b]
  <2>1. r \in Row /\ r.status = row[b].status /\ r.tries = row[b].tries /\ SetRow(b, r)
    BY <1>0, <1>4 DEF ReplyEnds, Row
  <2>2. /\ UNCHANGED <<runner, old, ran, spared, faults>>
        /\ reply' \in {"live", "waiting", "interrupted", "marking", "over"}
        /\ \E t \in {"none", "queued", "ended", "cancelled"} : work' = [work EXCEPT ![b] = t]
    BY <1>0, <1>4 DEF ReplyEnds, foreground
  <2> HIDE DEF r
  <2> QED BY <1>0, <2>1, <2>2, RowFit
<1>5. CASE Lapse(b)
  <2>1. /\ row[b].status = "running" /\ row' = row /\ runner' = runner /\ ran' = ran
        /\ lapsed' = lapsed \cup {b} /\ UNCHANGED <<foreground, old, work>>
        /\ \/ runner[b][row[b].tries] = "gone" /\ faults' = faults
           \/ faults' = faults + 1 /\ faults < MaxFaults
    BY <1>5 DEF Lapse, Fault
  <2>2. Fit(b, row[b], b \in lapsed, runner[b], ran[b], faults) /\ row[b].tries \in Nat
    BY TaskFit
  <2>3. row[b].tries <= faults' \/ NoRetry(b)
    BY <1>0, <2>1, <2>2 DEF Fit
  <2>4. runner[b] \in [Claims -> Phases]
    BY TaskFit
  <2>5. Moves(b)
    BY <1>0, <2>1, <2>3, <2>4 DEF Moves
  <2>6. faults' \in {faults, faults + 1} /\ faults' <= MaxFaults
    BY <1>0, <2>1
  <2>7. Only(b)
    BY <1>0, <2>1, <2>6, SameOnly DEF Only, foreground
  <2> QED BY <2>5, <2>6, <2>7, MovesFit, OnlyFit
<1>6. CASE Cancel(b)
  <2>1. "cancelled" \in Ends3
    BY DEF Ends3
  <2>2. /\ SetRow(b, Ended(b, "cancelled")) /\ UNCHANGED <<runner, old, ran, spared, faults>>
        /\ reply' \in {"live", "waiting", "interrupted", "marking", "over"}
        /\ \E s \in {"none", "queued", "ended", "cancelled"} : work' = [work EXCEPT ![b] = s]
    BY <1>0, <1>6 DEF Cancel, foreground
  <2>3. /\ Ended(b, "cancelled") \in Row /\ Ended(b, "cancelled").status = "cancelled"
        /\ Ended(b, "cancelled").tries = row[b].tries
    BY <2>1, EndedFacts
  <2> QED BY <1>0, <2>1, <2>2, <2>3, RowFit
<1> QED BY <1>1, <1>2, <1>3, <1>4, <1>5, <1>6 DEF Poll, WorkEnds

\* Only the reply and the round are concerned, or a fault is noted.
LEMMA ReplyFit ==
    ASSUME TaskInv, BackgroundAssumption, UNCHANGED <<tasks, runner, work, ran>>, round' \in Round,
           reply' \in {"live", "waiting", "interrupted", "marking", "over"}, spared' \subseteq Audited,
           old' \subseteq Tasks \X Claims, faults' \in {faults, faults + 1}, faults' <= MaxFaults
    PROVE  TypeOK' /\ TasksFit'
<1>1. \A b \in Tasks : FitNext(b)
  BY StaysFit DEF tasks
<1>2. Shape'
  <2>1. faults' \in 0 .. MaxFaults
    BY DEF TaskInv, TypeOK, BackgroundAssumption
  <2>2. Shape
    BY ShapeNow DEF TaskInv
  <2> QED BY <2>1, <2>2 DEF Shape, tasks
<1> QED BY <1>1, <1>2, AllFit

\* All runners are stopped or gone: every claim was made because of a fault.
LEMMA StopRunnersFit ==
    ASSUME TaskInv, BackgroundAssumption, UNCHANGED <<tasks, round, foreground, work, ran>>, Shutdown \/ Crash,
           round' \in Round
    PROVE  TypeOK' /\ TasksFit'
<1>0. faults \in Nat /\ faults' = faults + 1 /\ faults' \in 0 .. MaxFaults /\ TypeOK
  BY DEF Shutdown, Crash, Fault, TaskInv, TypeOK, BackgroundAssumption
<1>1. runner' = [b \in Tasks |-> runner'[b]]
  BY DEF Shutdown, Crash
<1>2. ASSUME NEW b \in Tasks PROVE FitNext(b)
  <2>1. /\ runner'[b] \in [Claims -> Phases]
        /\ \A k \in Claims : runner'[b][k] \in {"gone", "releasing"} /\ (runner[b][k] = "gone" => runner'[b][k] = "gone")
    BY DEF Shutdown, Crash, Phases
  <2>2. Present(runner'[b]) \subseteq Present(runner[b]) /\ Unstarted(runner'[b]) \subseteq Unstarted(runner[b])
    BY <2>1 DEF Present, Unstarted
  <2>3. row[b].tries <= faults' /\ row[b] \in Row
    BY <1>0, TaskFit DEF Fit
  <2>4. b \in lapsed => row[b].status = "running"
    BY TaskFit
  <2>5. Moves(b)
    BY <2>1, <2>2, <2>3, <2>4 DEF Moves, tasks
  <2> QED BY <1>0, <2>5, MovesFit
<1>3. old' \subseteq Tasks \X Claims
  BY <1>0 DEF Shutdown, Crash, TypeOK
<1>4. Shape'
  BY <1>0, <1>1, <1>3, ShapeNow DEF Shape, tasks, foreground
<1> QED BY <1>2, <1>4, AllFit

LEMMA ClearedFit ==
    ASSUME TaskInv, BackgroundAssumption, Cleared, Fault, round' \in Round,
           reply' \in {"live", "waiting", "interrupted", "marking", "over"}, UNCHANGED <<spared, runner, old, ran>>
    PROVE  TypeOK' /\ TasksFit'
<1>0. faults \in Nat /\ faults' = faults + 1 /\ faults' \in 0 .. MaxFaults /\ TypeOK
  BY DEF Fault, TaskInv, TypeOK, BackgroundAssumption
<1>1. ASSUME NEW b \in Tasks PROVE FitNext(b)
  <2>1. row'[b] = ClearedRow(b) /\ b \notin lapsed' /\ row[b] \in Row
    BY TaskFit DEF Cleared
  <2>2. /\ row'[b] \in Row /\ row'[b].tries = row[b].tries
        /\ row'[b].status \in Ends3 \/ (row'[b].status = row[b].status /\ row[b].status # "running")
    <3>1. CASE row[b].status \in Active
      <4>1. row'[b] = Ended(b, "cancelled") /\ "cancelled" \in Ends3
        BY <2>1, <3>1 DEF ClearedRow, Active, Ends3
      <4> QED BY <4>1, EndedFacts
    <3>2. CASE row[b].status \notin Active
      <4>1. row'[b] = row[b] \/ row'[b] = [row[b] EXCEPT !.reply = "none"]
        BY <2>1, <3>2 DEF ClearedRow, Active
      <4> QED BY <2>1, <3>2, <4>1 DEF Row, Active
    <3> QED BY <3>1, <3>2
  <2>3. runner[b] \in [Claims -> Phases]
    BY TaskFit
  <2>4. Moves(b)
    BY <2>1, <2>2, <2>3 DEF Moves, Ends3
  <2> QED BY <1>0, <2>4, MovesFit
<1>2. work' \in [Tasks -> {"none", "queued", "ended", "cancelled"}]
  BY <1>0 DEF Cleared, TypeOK
<1>3. row' = [b \in Tasks |-> row'[b]] /\ lapsed' \subseteq Tasks
  BY DEF Cleared
<1>4. Shape'
  BY <1>0, <1>2, <1>3, ShapeNow DEF Shape
<1> QED BY <1>1, <1>4, AllFit

LEMMA NextFit ==
    ASSUME TaskInv, BackgroundAssumption, [Next]_vars, round' \in Round
    PROVE  TypeOK' /\ TasksFit'
<1>0. /\ TypeOK /\ faults \in Nat /\ faults <= MaxFaults /\ MaxFaults \in Nat
      /\ reply \in {"live", "waiting", "interrupted", "marking", "over"} /\ spared \subseteq Audited
      /\ old \subseteq Tasks \X Claims
  BY DEF TaskInv, TypeOK, BackgroundAssumption
<1>1. CASE \E b \in Tasks : Submit(b)
  BY <1>1, SubmitFit
<1>2. CASE \/ \E b \in Tasks : SubmitFails(b)
           \/ \E s \in {"succeeded", "failed"} : OwnToolEnds(s)
           \/ RoundEnds \/ ReadActive \/ MarkInterrupted \/ Interrupt \/ RoleLost \/ UNCHANGED vars
  <2>1. UNCHANGED <<tasks, runner, work, ran>>
    BY <1>2 DEF SubmitFails, OwnToolEnds, RoundEnds, ReadActive, MarkInterrupted, Interrupt, RoleLost, vars, tasks
  <2>2. reply' \in {"live", "waiting", "interrupted", "marking", "over"}
    BY <1>0, <1>2 DEF SubmitFails, OwnToolEnds, RoundEnds, ReadActive, MarkInterrupted, Interrupt, RoleLost, vars, foreground
  <2>3. spared' \subseteq Audited
    BY <1>0, <1>2 DEF SubmitFails, OwnToolEnds, RoundEnds, ReadActive, MarkInterrupted, Interrupt, RoleLost, vars, foreground
  <2>4. old' \subseteq Tasks \X Claims
    BY <1>0, <1>2 DEF SubmitFails, OwnToolEnds, RoundEnds, ReadActive, MarkInterrupted, Interrupt, RoleLost, vars
  <2>5. faults' \in {faults, faults + 1} /\ faults' <= MaxFaults
    BY <1>0, <1>2
    DEF SubmitFails, OwnToolEnds, RoundEnds, ReadActive, MarkInterrupted, Interrupt, RoleLost, vars, Fault
  <2> QED BY <2>1, <2>2, <2>3, <2>4, <2>5, ReplyFit
<1>3. CASE \E b \in Tasks : Poll(b) \/ WorkEnds(b) \/ Lapse(b) \/ Cancel(b)
  BY <1>3, PollFit
<1>4. CASE \E b \in Tasks, k \in Claims : RunnerStep(b, k) \/ ReleaseFails(b, k)
  BY <1>4, RunnerStepFit
<1>5. CASE Shutdown \/ Crash
  BY <1>5, StopRunnersFit DEF Shutdown, Crash
<1>6. CASE StartupCleanup \/ Stop
  <2>1. reply' \in {"live", "waiting", "interrupted", "marking", "over"}
    BY <1>0, <1>6 DEF StartupCleanup, Stop
  <2>2. Cleared /\ Fault /\ UNCHANGED <<spared, runner, old, ran>>
    BY <1>6 DEF StartupCleanup, Stop
  <2> QED BY <2>1, <2>2, ClearedFit
<1> QED BY <1>1, <1>2, <1>3, <1>4, <1>5, <1>6 DEF Next, ReplyStep

-----------------------------------------------------------------------------
(* The invariant *)

LEMMA InitFits == ASSUME BackgroundAssumption, Init PROVE TaskInv
<1>1. MaxFaults \in Nat /\ Tools = Audited \cup {0} /\ Audited \subseteq Tasks
  BY DEF BackgroundAssumption
<1>2. round \in Round /\ round.status = "executing" /\ round.token = 1 /\ \A t \in Tools : round.attempts[t] = "running"
  BY DEF Init, Token, Round, RecordStatus, AttemptStatus
<1>3. Under(round, Token)
  BY <1>2 DEF Under, Lawful, Token
<1>4. Told
  BY <1>1, <1>2 DEF Init, Told, Tells, MayFinish
<1>5. TasksFit
  <2> SUFFICES ASSUME NEW b \in Tasks PROVE Fit(b, row[b], b \in lapsed, runner[b], ran[b], faults)
    BY DEF TasksFit
  <2>1. /\ row[b] = [status |-> "absent", tries |-> 0, reply |-> "none"] /\ b \notin lapsed
        /\ runner[b] = [k \in Claims |-> "gone"] /\ ran[b] = 0 /\ faults = 0
    BY DEF Init
  <2>2. Unstarted(runner[b]) = {} /\ Present(runner[b]) = {}
    BY <2>1 DEF Unstarted, Present
  <2>3. Cardinality(Unstarted(runner[b])) = 0
    BY <2>2, FS_EmptySet
  <2>4. row[b] \in Row /\ runner[b] \in [Claims -> Phases]
    BY <2>1 DEF Row, Phases
  <2>5. ran[b] + Cardinality(Unstarted(runner[b])) <= row[b].tries
    BY <2>1, <2>3
  <2> QED BY <2>1, <2>2, <2>4, <2>5 DEF Fit
<1>6. TypeOK
  BY <1>1, <1>2 DEF Init, TypeOK, Row
<1>7. MarkFit
  BY DEF Init, MarkFit
<1> QED BY <1>3, <1>4, <1>5, <1>6, <1>7 DEF TaskInv

LEMMA TaskStep == ASSUME BackgroundAssumption, TaskInv, [Next]_vars PROVE TaskInv'
<1>1. Passes
  BY NextPasses
<1>2. Under(round, Token)'
  <2>1. Under(round', Token)
    BY <1>1, EndsUnder DEF TaskInv, Passes
  <2> QED BY <2>1 DEF Under, Lawful
<1>3. round' \in Round
  BY <1>1 DEF Passes, Ends, Lawful
<1>4. TypeOK' /\ TasksFit'
  BY <1>3, NextFit
<1> QED BY <1>1, <1>2, <1>4 DEF TaskInv, Passes

LEMMA TaskAlways == Spec => []TaskInv
<1>1. Init => TaskInv
  BY InitFits, BackgroundAssumption
<1>2. TaskInv /\ [Next]_vars => TaskInv'
  BY TaskStep, BackgroundAssumption
<1> QED BY <1>1, <1>2, PTL DEF Spec

-----------------------------------------------------------------------------
(* Theorems *)

\* Rows, runners, executions and faults stay in their types: in particular a lease is
\* over only of a task that runs, and no task is claimed or executed more often than
\* faults can explain.
THEOREM TasksHaveTheirTypes == Spec => []TypeOK
<1>1. TaskInv => TypeOK
  BY DEF TaskInv
<1> QED BY <1>1, TaskAlways, PTL

\* Runners, sweep, user, cleanup and interrupted reply write tasks and attempts in
\* transactions of their own, but they never leave a task that says something else than
\* its attempt.
THEOREM TasksAndAttemptsAgree == Spec => []TaskMatchesAttempt
<1>1. TaskInv => TaskMatchesAttempt
  <2> SUFFICES ASSUME TaskInv, NEW b \in Audited
               PROVE  LET a == round.attempts[b]
                      IN  CASE row[b].status = "succeeded" -> a = "succeeded"
                            [] row[b].status = "failed"    -> a \in {"failed", "unknown"}
                            [] row[b].status = "cancelled" -> a \in {"cancelled", "unknown"}
                            [] OTHER -> MayFinish(round, b)
                                          \/ (a = "unknown" /\ (round.status = "unknown" \/ row[b].status = "absent"))
    BY DEF TaskMatchesAttempt
  <2>1. Tells(row[b].status, round, b)
    BY DEF TaskInv, Told
  <2> QED BY <2>1 DEF Tells, Lost
<1> QED BY <1>1, TaskAlways, PTL

\* The tool is started by the claim of a runner, which does it once; a task that must not
\* run twice is claimed once.
LEMMA StepStartsOnce ==
    ASSUME BackgroundAssumption, TaskInv, [Next]_vars, NEW b \in Tasks, NoRetry(b), ran'[b] # ran[b]
    PROVE  ran[b] = 0 /\ (b \in Audited => row[b].status = "running")
<1>1. ASSUME NEW c \in Tasks, NEW j \in Claims, Execute(c, j) PROVE c = b
  BY <1>1 DEF Execute, TaskInv, TypeOK
<1>2. PICK k \in Claims : Start(b, k) \/ StartAttempt(b, k)
  <2>1. PICK c \in Tasks, k \in Claims : Start(c, k) \/ StartAttempt(c, k)
    BY ZenonT(40) DEF Next, vars, ReplyStep, Submit, OwnToolEnds, RoundEnds, ReadActive, MarkInterrupted, Poll, Claim, Requeue,
           TriggerReply, WorkEnds, ReplyEnds, Lapse, Cancel, SubmitFails, RunnerStep, End, TimedOut, Raises, AuditFirst,
           TaskThen, NoticeLoss, Release, ReleaseFails, Interrupt, RoleLost, Shutdown, Crash, StartupCleanup, Stop
  <2>2. Execute(c, k)
    BY <2>1 DEF Start, StartFenced, StartAttempt
  <2> QED BY SMTT(30), <1>1, <2>1, <2>2
<1>3. /\ runner[b][k] \in {"claimed", "starting"}
      /\ b \in Audited => round.attempts[b] = "running"
  BY <1>2 DEF Start, StartFenced, StartAttempt, TaskInv, TypeOK
<1>4. Fit(b, row[b], b \in lapsed, runner[b], ran[b], faults) /\ row[b] \in Row /\ row[b].tries \in Nat /\ ran[b] \in Nat
  BY TaskFit
<1>5. row[b].tries = 1
  <2>1. k \in Present(runner[b]) /\ k >= 1 /\ k \in Nat
    BY <1>3 DEF Present, Claims, BackgroundAssumption
  <2>2. k <= row[b].tries /\ row[b].tries <= 1
    BY <1>4, <2>1 DEF Fit
  <2> QED BY <1>4, <2>1, <2>2
<1>6. ran[b] = 0
  <2>1. k \in Unstarted(runner[b])
    BY <1>3 DEF Unstarted
  <2>2. IsFiniteSet(Unstarted(runner[b])) /\ Cardinality(Unstarted(runner[b])) \in Nat
    BY UnstartedFinite
  <2>3. Cardinality(Unstarted(runner[b])) # 0
    BY <2>1, <2>2, FS_EmptySet
  <2>4. ran[b] + Cardinality(Unstarted(runner[b])) <= 1
    BY <1>4, <1>5 DEF Fit
  <2> QED BY <1>4, <2>2, <2>3, <2>4
<1>7. ASSUME b \in Audited PROVE row[b].status = "running"
  <2>1. Tells(row[b].status, round, b) /\ round.attempts[b] = "running"
    BY <1>3, <1>7 DEF TaskInv, Told
  <2>2. row[b].status \notin {"succeeded", "failed", "cancelled"}
    BY <2>1 DEF Tells
  <2>3. row[b].status \notin {"absent", "pending"}
    BY <1>4, <1>5 DEF Fit
  <2> QED BY <1>4, <2>2, <2>3 DEF Row, Active
<1> QED BY <1>6, <1>7

\* Through lost leases, stops, restarts and two workers at a time the tool of an audited
\* task, or of one a reply waits for, is executed at most once, and that of an audited
\* task only while the task runs.
THEOREM TasksExecuteOnce == Spec => ExecutedOnce
<1>1. TaskInv /\ [Next]_vars =>
        [\A b \in Tasks : NoRetry(b) /\ ran'[b] # ran[b] =>
            ran[b] = 0 /\ (b \in Audited => row[b].status = "running")]_vars
  BY StepStartsOnce, BackgroundAssumption
<1> QED BY <1>1, TaskAlways, PTL DEF Spec, ExecutedOnce

\* Whatever runners, sweep, user, cleanup and interrupted reply do to the round is a step
\* in the life of an audit record: nothing reopens or rewrites a round or an attempt that
\* has ended.
THEOREM TasksKeepTheRound == Spec => TasksKeepAuditLifecycle
<1>1. Init => Life!Init
  <2> SUFFICES ASSUME Init PROVE Life!UnderWay(round)
    BY DEF Life!Init
  <2> QED BY DEF Init, Life!UnderWay, Life!Attempted, Token
<1>2. TaskInv /\ [Next]_vars => [Life!Next]_([r \in {1} |-> round])
  <2> SUFFICES ASSUME TaskInv, [Next]_vars PROVE Life!LifeStep(round, round')
    BY DEF Life!Next
  <2>1. Ends(round, round')
    BY NextPasses, BackgroundAssumption DEF Passes
  <2> QED BY <2>1 DEF Ends, Ending, Life!LifeStep, Life!Ending, Says, Life!Says, Attempted, Life!Attempted
<1> QED BY <1>1, <1>2, TaskAlways, PTL DEF Spec, TasksKeepAuditLifecycle, Life!Spec
=============================================================================
