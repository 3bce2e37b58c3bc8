------------------------ MODULE MemoryJobQueueProofs ------------------------
(***************************************************************************)
(* Proofs about MemoryJobQueue, for any number of jobs, consumers and      *)
(* attempts and for any delay between a clock reading and its UPDATE.      *)
(***************************************************************************)
EXTENDS MemoryJobQueue, TLAPS

\* A row whose lock is cleared, with status s and any waiting time.
LEMMA UnlockedRow ==
    ASSUME NEW r \in Row, NEW s \in Status, NEW w \in Int
    PROVE  /\ Unlocked(r, s, w) \in Row
           /\ Unlocked(r, s, w).status = s
           /\ Unlocked(r, s, w).owner = None
           /\ Unlocked(r, s, w).attempts = r.attempts
BY JobQueueAssumption DEF Row, Unlocked, RowFloor

\* Job i leaves status running, or is submitted or cancelled while waiting:
\* the part of the invariant that is about rows alone.
LEMMA RowUnlocked ==
    ASSUME TypeOK, AttemptsBounded, CancelIsHonoured,
           NEW i \in Job, NEW r \in Row,
           row' = [row EXCEPT ![i] = r], cancels' = cancels,
           r.owner = None, r.status \notin {"running", "absent"},
           r.attempts <= MaxAttempts,
           i \in cancels => r.status = "cancelled",
           r.status \in Claimable => r.attempts < MaxAttempts
    PROVE  /\ row' \in [Job -> Row]
           /\ \A j \in Job : row'[j].status = "running" <=> row'[j].owner # None
           /\ AttemptsBounded'
           /\ CancelIsHonoured'
           /\ \A j \in Job : row'[j].owner # None =>
                 row'[j].owner = row[j].owner /\ row'[j].attempts = row[j].attempts
BY DEF TypeOK, AttemptsBounded, CancelIsHonoured

----------------------------------------------------------------------------
(* The shapes of the steps.                                                *)

\* No row gets a new holder, no attempt is counted.
RowsKept ==
    /\ row' \in [Job -> Row]
    /\ cancels' \subseteq Job
    /\ \A j \in Job : row'[j].status = "running" <=> row'[j].owner # None
    /\ \A j \in Job : row'[j].owner # None =>
          row'[j].owner = row[j].owner /\ row'[j].attempts = row[j].attempts

\* A task goes on with the claim it had.
Advances(c) ==
    /\ Live(c)
    /\ task'[c] \in Task
    /\ task'[c].job = task[c].job
    /\ task'[c].attempt = task[c].attempt
    /\ task'[c].step = "retry" => task[c].attempt < MaxAttempts
    /\ task'[c].step = "release" /\ task'[c].next = "retry" =>
          task[c].attempt < MaxAttempts

TasksKept ==
    /\ DOMAIN task' = Owner
    /\ task' = [c \in Owner |-> task'[c]]
    /\ \A c \in Owner : task'[c] = task[c] \/ task'[c] = NoTask \/ Advances(c)

LoopsKept ==
    /\ loop' \in [Consumer -> Loop]
    /\ \A k \in Consumer : \/ /\ loop'[k].step = loop[k].step
                              /\ loop'[k].job = loop[k].job
                              /\ loop'[k].owner = loop[k].owner
                              /\ loop'[k].next = loop[k].next
                           \/ /\ loop'[k].step \notin LoopCall
                              /\ loop'[k].owner = None

LEMMA IdleTyped == Idle \in Loop /\ NoTask \in Task
BY JobQueueAssumption DEF Idle, InHand, NoTask, TaskAt, Loop, Task, LoopStep, TaskStep, LossOutcome, RowFloor

\* A step of these shapes keeps types and remembered claims.
LEMMA ShapesKeep ==
    ASSUME QueueInvariant, RowsKept, TasksKept, LoopsKept, stops' \in Nat
    PROVE  TypeOK' /\ RememberedClaims'
<1> USE DEF QueueInvariant
<1>1. task' \in [Owner -> Task]
  BY IdleTyped DEF TasksKept, Advances, TypeOK
<1>2. TypeOK'
  BY <1>1 DEF TypeOK, RowsKept, LoopsKept
<1>3. ASSUME NEW c \in Owner, Live(c)'
      PROVE  /\ task'[c].job \in Job
             /\ \A j \in Job : row'[j].owner = c =>
                   task'[c].job = j /\ task'[c].attempt = row'[j].attempts
             /\ task'[c].step = "retry" => task'[c].attempt < MaxAttempts
             /\ task'[c].step = "release" /\ task'[c].next = "retry" =>
                   task'[c].attempt < MaxAttempts
  <2>1. Live(c) /\ task'[c].job = task[c].job /\ task'[c].attempt = task[c].attempt
    BY <1>3 DEF TasksKept, Advances, NoTask, TaskAt, Live
  <2>2. \A j \in Job : row'[j].owner = c =>
           row[j].owner = c /\ row'[j].attempts = row[j].attempts
    BY JobQueueAssumption DEF RowsKept
  <2>3. task[c].job \in Job
    BY <2>1 DEF RememberedClaims
  <2>4. \A j \in Job : row[j].owner = c =>
           task[c].job = j /\ task[c].attempt = row[j].attempts
    BY <2>1 DEF RememberedClaims
  <2>5. CASE task'[c] = task[c]
    BY <2>1, <2>2, <2>3, <2>4, <2>5 DEF RememberedClaims
  <2>6. CASE Advances(c)
    BY <2>1, <2>2, <2>3, <2>4, <2>6 DEF Advances
  <2> QED BY <1>3, <2>5, <2>6 DEF TasksKept, NoTask, TaskAt, Live
<1>4. ASSUME NEW k \in Consumer, loop'[k].step \in LoopCall
      PROVE  /\ loop'[k].job \in Job
             /\ loop'[k].owner \in Owner
             /\ loop'[k].step = "recover" /\ loop'[k].next = "retry"
                /\ row'[loop'[k].job].owner = loop'[k].owner =>
                   row'[loop'[k].job].attempts < MaxAttempts
             /\ loop'[k].step = "claim" =>
                   /\ task'[loop'[k].owner].step = "none"
                   /\ \A j \in Job : row'[j].owner # loop'[k].owner
                   /\ \A m \in Consumer \ {k} : loop'[m].owner # loop'[k].owner
  <2>1. /\ loop'[k].step = loop[k].step
        /\ loop'[k].job = loop[k].job
        /\ loop'[k].owner = loop[k].owner
        /\ loop'[k].next = loop[k].next
    BY <1>4 DEF LoopsKept
  <2>2. loop[k].job \in Job /\ loop[k].owner \in Owner
    BY <1>4, <2>1 DEF RememberedClaims
  <2>3. loop[k].step = "recover" /\ loop[k].next = "retry"
        /\ row'[loop[k].job].owner = loop[k].owner =>
           row'[loop[k].job].attempts < MaxAttempts
    BY <1>4, <2>1, <2>2, JobQueueAssumption DEF RememberedClaims, RowsKept
  <2>4. ASSUME loop[k].step = "claim"
        PROVE  /\ task'[loop[k].owner].step = "none"
               /\ \A j \in Job : row'[j].owner # loop[k].owner
               /\ \A m \in Consumer \ {k} : loop'[m].owner # loop[k].owner
    <3>1. /\ ~Live(loop[k].owner)
          /\ \A j \in Job : row[j].owner # loop[k].owner
          /\ \A m \in Consumer \ {k} : loop[m].owner # loop[k].owner
      BY <1>4, <2>1, <2>4 DEF RememberedClaims
    <3>2. task'[loop[k].owner].step = "none"
      BY <2>2, <3>1 DEF TasksKept, Advances, NoTask, TaskAt, Live
    <3>3. \A j \in Job : row'[j].owner # loop[k].owner
      BY <2>2, <3>1, JobQueueAssumption DEF RowsKept
    <3>4. \A m \in Consumer \ {k} : loop'[m].owner # loop[k].owner
      BY <2>2, <3>1, JobQueueAssumption DEF LoopsKept
    <3> QED BY <3>2, <3>3, <3>4
  <2> QED BY <2>1, <2>2, <2>3, <2>4 DEF Live
<1>5. RememberedClaims'
  BY <1>3, <1>4 DEF RememberedClaims, Live
<1> QED BY <1>2, <1>5

\* Nothing but stuttering on the rows.
LEMMA RowsUnchanged ==
    ASSUME QueueInvariant, row' = row, cancels' = cancels
    PROVE  RowsKept /\ AttemptsBounded' /\ CancelIsHonoured'
BY DEF QueueInvariant, TypeOK, RowsKept, AttemptsBounded, CancelIsHonoured

\* Job i is unlocked.
LEMMA RowsUnlocked ==
    ASSUME QueueInvariant, NEW i \in Job, NEW s \in Claimable \cup Terminal, NEW w \in Int,
           row' = [row EXCEPT ![i] = Unlocked(row[i], s, w)], cancels' = cancels,
           i \in cancels => s = "cancelled",
           s \in Claimable => row[i].attempts < MaxAttempts
    PROVE  RowsKept /\ AttemptsBounded' /\ CancelIsHonoured'
<1>1. row[i] \in Row /\ s \in Status /\ s \notin {"running", "absent"}
  BY DEF QueueInvariant, TypeOK, Status, Claimable, Terminal
<1>2. /\ Unlocked(row[i], s, w) \in Row
      /\ Unlocked(row[i], s, w).status = s
      /\ Unlocked(row[i], s, w).owner = None
      /\ Unlocked(row[i], s, w).attempts = row[i].attempts
  BY <1>1, UnlockedRow
<1> QED BY <1>1, <1>2, RowUnlocked DEF QueueInvariant, RowsKept, TypeOK, AttemptsBounded

\* TaskEnds and TaskTo are of the allowed shape.
LEMMA TaskShapes ==
    ASSUME QueueInvariant, NEW c \in Owner
    PROVE  /\ task' = task => TasksKept
           /\ TaskEnds(c) => TasksKept
           /\ \A s \in TaskStep \ {"retry", "release"} :
                 Live(c) /\ TaskTo(c, s) => TasksKept
           /\ Live(c) /\ task[c].attempt < MaxAttempts /\ TaskTo(c, "retry") => TasksKept
<1> USE DEF QueueInvariant, TypeOK
<1>1. task' = task => TasksKept
  BY DEF TasksKept
<1>2. TaskEnds(c) => TasksKept
  BY DEF TasksKept, TaskEnds
<1>3. ASSUME NEW s \in TaskStep, Live(c), TaskTo(c, s), s # "release",
             s = "retry" => task[c].attempt < MaxAttempts
      PROVE  TasksKept
  <2>1. task[c] \in Task
    OBVIOUS
  <2>2. task' = [task EXCEPT ![c].step = s, ![c].age = 0]
    BY <1>3 DEF TaskTo
  <2>3. Advances(c)
    BY <1>3, <2>1, <2>2 DEF Advances, Task
  <2> QED BY <2>2, <2>3 DEF TasksKept
<1> QED BY <1>1, <1>2, <1>3 DEF TaskStep

\* Interrupting tasks is of the allowed shape.
LEMMA InterruptShape ==
    ASSUME QueueInvariant, NEW c \in Owner, Live(c), task'[c] = Interrupt(task[c])
    PROVE  task'[c] = task[c] \/ Advances(c)
<1>1. task[c] \in Task
  BY DEF QueueInvariant, TypeOK
<1>2. CASE task[c].step \in {"none", "release"}
  BY <1>2 DEF Interrupt
<1>3. CASE task[c].step \notin {"none", "release"}
  <2> DEFINE t == [task[c] EXCEPT !.step = "stopped", !.age = 0]
  <2>1. task'[c] = t
    BY <1>3 DEF Interrupt
  <2>2. "stopped" \in TaskStep
    BY DEF TaskStep
  <2>3. t \in Task /\ t.job = task[c].job /\ t.attempt = task[c].attempt /\ t.step = "stopped"
    BY <1>1, <2>2 DEF Task
  <2> HIDE DEF t
  <2> QED BY <2>1, <2>3 DEF Advances
<1> QED BY <1>2, <1>3

LEMMA LoopShapes ==
    ASSUME QueueInvariant, NEW k \in Consumer
    PROVE  /\ loop' = loop => LoopsKept
           /\ LoopTo(k, Idle) => LoopsKept
           /\ LoopTo(k, Down) => LoopsKept
<1>1. Down \in Loop /\ Down.owner = None
      /\ Down.step = "down"
  BY JobQueueAssumption DEF Loop, Idle, Down, InHand, LoopStep, LossOutcome, RowFloor
<1> QED BY IdleTyped, <1>1 DEF QueueInvariant, TypeOK, LoopsKept, LoopTo, Idle, InHand, LoopCall

\* Submitting and cancelling keep the invariant.
LEMMA ClientStep ==
    ASSUME QueueInvariant, NEW i \in Job, Submit(i) \/ RequestCancel(i)
    PROVE  QueueInvariant'
<1>1. TasksKept /\ LoopsKept /\ stops' \in Nat
  BY DEF Submit, RequestCancel, TasksKept, LoopsKept, QueueInvariant, TypeOK
<1>2. RowsKept /\ AttemptsBounded' /\ CancelIsHonoured'
  <2>1. CASE Submit(i)
    <3>1. i \notin cancels /\ row[i].attempts < MaxAttempts
      BY <2>1 DEF Submit, QueueInvariant, CancelIsHonoured, AttemptsBounded
    <3> DEFINE w == 0
    <3>2. /\ row' = [row EXCEPT ![i] = Unlocked(row[i], "pending", w)]
          /\ cancels' = cancels
          /\ w \in Int
      BY <2>1 DEF Submit
    <3>3. "pending" \in Claimable
      BY DEF Claimable
    <3> HIDE DEF w
    <3> QED BY <3>1, <3>2, <3>3, RowsUnlocked
  <2>2. CASE RequestCancel(i) /\ row[i].status \in Claimable
    <3>1. i \notin cancels /\ row[i].status # "running"
      BY <2>2 DEF QueueInvariant, CancelIsHonoured, Claimable
    <3>2. row' = [row EXCEPT ![i] = Unlocked(row[i], "cancelled", row[i].wait)]
          /\ cancels' = cancels
      BY <2>2, <3>1 DEF RequestCancel
    <3>3. row[i].wait \in Int
      BY DEF QueueInvariant, TypeOK, Row
    <3> QED BY <3>2, <3>3, RowsUnlocked DEF Terminal, Claimable
  <2>3. CASE RequestCancel(i) /\ row[i].status \notin Claimable
    BY <2>3 DEF RequestCancel, QueueInvariant, TypeOK, RowsKept, AttemptsBounded, CancelIsHonoured
  <2> QED BY <2>1, <2>2, <2>3
<1> QED BY <1>1, <1>2, ShapesKeep DEF QueueInvariant

LEMMA RetryDelayTyped == ASSUME NEW n \in Nat PROVE RetryDelay(n) \in Int
BY DEF RetryDelay

\* What a live task remembers of the row it still holds.
LEMMA HeldRow ==
    ASSUME QueueInvariant, NEW c \in Owner, Live(c)
    PROVE  /\ task[c].job \in Job
           /\ task[c] \in Task
           /\ row[task[c].job] \in Row
           /\ row[task[c].job].wait \in Int
           /\ row[task[c].job].owner = c => task[c].attempt = row[task[c].job].attempts
BY DEF QueueInvariant, TypeOK, RememberedClaims, Row

\* The steps of a task keep the invariant.
LEMMA TaskKeeps ==
    ASSUME QueueInvariant, NEW c \in Owner, TaskNext(c)
    PROVE  QueueInvariant'
<1> DEFINE j == task[c].job
<1>1. Live(c)
  BY DEF TaskNext, LeaseLost, SeesCancel, Raises, Completes, Finalize, Mark, MarkStatus,
         ReleaseForRetry, MarkCancelled, MarkError, ReleaseRead, ReleaseCommit, Live
<1>2. /\ j \in Job
      /\ task[c] \in Task
      /\ row[j].wait \in Int
      /\ row[j].owner = c => task[c].attempt = row[j].attempts
  BY <1>1, HeldRow
<1>3. loop' = loop /\ stops' = stops /\ cancels' = cancels
  BY DEF TaskNext, LeaseLost, SeesCancel, Raises, Completes, Finalize, Mark,
         ReleaseForRetry, MarkCancelled, MarkError, ReleaseRead, ReleaseCommit
<1>4. LoopsKept /\ stops' \in Nat
  BY <1>3 DEF LoopsKept, QueueInvariant, TypeOK
<1>5. TasksKept
  <2>1. CASE LeaseLost(c) \/ MarkError(c) \/ MarkCancelled(c) \/ ReleaseCommit(c)
    BY <2>1, TaskShapes DEF LeaseLost, MarkError, MarkCancelled, ReleaseCommit
  <2>2. CASE SeesCancel(c)
    BY <1>1, <2>2, TaskShapes DEF SeesCancel, TaskStep
  <2>3. CASE Raises(c)
    BY <1>1, <2>3, TaskShapes DEF Raises, TaskStep
  <2>4. CASE Completes(c)
    BY <1>1, <2>4, TaskShapes DEF Completes, TaskStep
  <2>5. CASE Finalize(c)
    BY <1>1, <2>5, TaskShapes DEF Finalize, TaskStep
  <2>6. CASE Mark(c) \/ ReleaseForRetry(c)
    BY <1>1, <2>6, TaskShapes DEF Mark, ReleaseForRetry, TaskStep
  <2>7. CASE ReleaseRead(c)
    <3>1. CASE row[j].status = "running" /\ row[j].owner = c
      <4>1. task' = [task EXCEPT ![c].step = "release", ![c].left = row[j].left,
                                 ![c].next = OnLoss(j)]
        BY <2>7, <3>1 DEF ReleaseRead
      <4>2. row[j].left \in Int /\ "release" \in TaskStep
            /\ OnLoss(j) \in LossOutcome
            /\ (OnLoss(j) = "retry" => task[c].attempt < MaxAttempts)
        BY <1>2, <3>1, JobQueueAssumption
           DEF QueueInvariant, TypeOK, Row, OnLoss, LossOutcome, TaskStep, AttemptsBounded
      <4>3. Advances(c)
        BY <1>1, <1>2, <4>1, <4>2 DEF Advances, Task, QueueInvariant, TypeOK
      <4> QED BY <4>1, <4>3 DEF TasksKept, QueueInvariant, TypeOK
    <3>2. CASE ~(row[j].status = "running" /\ row[j].owner = c)
      BY <2>7, <3>2, TaskShapes DEF ReleaseRead
    <3> QED BY <3>1, <3>2
  <2> QED BY <2>1, <2>2, <2>3, <2>4, <2>5, <2>6, <2>7 DEF TaskNext
<1>6. RowsKept /\ AttemptsBounded' /\ CancelIsHonoured'
  <2>1. CASE row' = row
    BY <1>3, <2>1, RowsUnchanged
  <2>2. CASE row' # row /\ (Finalize(c) \/ Mark(c))
    <3>1. PICK s \in Terminal : row' = [row EXCEPT ![j] = Unlocked(row[j], s, row[j].wait)]
      BY <2>2 DEF Finalize, Mark, MarkStatus, Terminal
    <3>2. j \notin cancels
      BY <2>2 DEF Finalize, Mark, MayMark
    <3>3. s \notin Claimable
      BY DEF Terminal, Claimable
    <3> QED BY <1>2, <1>3, <3>1, <3>2, <3>3, RowsUnlocked
  <2>3. CASE row' # row /\ ReleaseForRetry(c)
    <3> DEFINE w == RetryDelay(task[c].attempt) - task[c].age
    <3>1. w \in Int
      BY <1>2, RetryDelayTyped DEF Task
    <3>2. row' = [row EXCEPT ![j] = Unlocked(row[j], "retry", w)]
          /\ j \notin cancels /\ row[j].owner = c
      BY <2>3 DEF ReleaseForRetry, MayMark, Holds
    <3>3. row[j].attempts < MaxAttempts
      BY <1>1, <1>2, <2>3, <3>2 DEF ReleaseForRetry, QueueInvariant, RememberedClaims
    <3>4. "retry" \in Claimable
      BY DEF Claimable
    <3> HIDE DEF w
    <3> QED BY <1>2, <1>3, <3>1, <3>2, <3>3, <3>4, RowsUnlocked
  <2>4. CASE row' # row /\ MarkCancelled(c)
    <3>1. row' = [row EXCEPT ![j] = Unlocked(row[j], "cancelled", row[j].wait)]
      BY <2>4 DEF MarkCancelled
    <3>2. "cancelled" \in Terminal /\ "cancelled" \notin Claimable
      BY DEF Terminal, Claimable
    <3> QED BY <1>2, <1>3, <3>1, <3>2, RowsUnlocked
  <2>5. CASE row' # row /\ ReleaseCommit(c)
    <3> DEFINE s == task[c].next
               w == IF s = "retry" THEN ShutdownDelay - task[c].age ELSE row[j].wait
    <3>1. w \in Int
      BY <1>2, JobQueueAssumption DEF Task
    <3>2. row' = [row EXCEPT ![j] = Unlocked(row[j], s, w)]
          /\ row[j].owner = c /\ (j \in cancels <=> s = "cancelled")
      BY <2>5 DEF ReleaseCommit, ReleaseMatches, AfterLoss
    <3>3. s = "retry" => row[j].attempts < MaxAttempts
      BY <1>1, <1>2, <2>5, <3>2 DEF ReleaseCommit, QueueInvariant, RememberedClaims
    <3>4. s \in Claimable \cup Terminal /\ (s \in Claimable => s = "retry")
      BY <1>2 DEF Task, LossOutcome, Claimable, Terminal
    <3> HIDE DEF w, s
    <3> QED BY <1>2, <1>3, <3>1, <3>2, <3>3, <3>4, RowsUnlocked
  <2> QED BY <2>1, <2>2, <2>3, <2>4, <2>5 DEF TaskNext, LeaseLost, SeesCancel, Raises,
             Completes, MarkError, ReleaseRead
<1> QED BY <1>4, <1>5, <1>6, ShapesKeep DEF QueueInvariant

\* A loop takes a job in hand: rows and tasks as they were.
LEMMA LoopAsks ==
    ASSUME QueueInvariant, NEW k \in Consumer, NEW l \in Loop,
           row' = row, cancels' = cancels, task' = task, stops' = stops,
           loop' = [loop EXCEPT ![k] = l],
           l.job \in Job, l.owner \in Owner,
           l.step = "recover" /\ l.next = "retry" => row[l.job].attempts < MaxAttempts,
           \A m \in Consumer \ {k} : loop[m].step = "claim" => loop[m].owner # l.owner,
           l.step = "claim" => l.owner \in FreshOwner
    PROVE  QueueInvariant'
<1> USE DEF QueueInvariant
<1>1. TypeOK' /\ AttemptsBounded' /\ CancelIsHonoured'
  BY DEF TypeOK, AttemptsBounded, CancelIsHonoured
<1>2. ASSUME NEW c \in Owner, Live(c)'
      PROVE  /\ task'[c].job \in Job
             /\ \A j \in Job : row'[j].owner = c =>
                   task'[c].job = j /\ task'[c].attempt = row'[j].attempts
             /\ task'[c].step = "retry" => task'[c].attempt < MaxAttempts
             /\ task'[c].step = "release" /\ task'[c].next = "retry" =>
                   task'[c].attempt < MaxAttempts
  BY <1>2 DEF RememberedClaims, Live
<1>3. ASSUME NEW m \in Consumer, loop'[m].step \in LoopCall
      PROVE  /\ loop'[m].job \in Job
             /\ loop'[m].owner \in Owner
             /\ loop'[m].step = "recover" /\ loop'[m].next = "retry"
                /\ row'[loop'[m].job].owner = loop'[m].owner =>
                   row'[loop'[m].job].attempts < MaxAttempts
             /\ loop'[m].step = "claim" =>
                   /\ task'[loop'[m].owner].step = "none"
                   /\ \A j \in Job : row'[j].owner # loop'[m].owner
                   /\ \A n \in Consumer \ {m} : loop'[n].owner # loop'[m].owner
  <2>1. CASE m = k
    <3>1. loop'[m] = l
      BY <2>1 DEF TypeOK
    <3>2. \A n \in Consumer \ {m} : loop'[n] = loop[n]
      BY <2>1 DEF TypeOK
    <3> QED BY <2>1, <3>1, <3>2 DEF FreshOwner, Live
  <2>2. CASE m # k
    <3>1. loop'[m] = loop[m]
      BY <2>2 DEF TypeOK
    <3>2. \A n \in Consumer \ {m} : loop'[n] = loop[n] \/ loop'[n] = l
      BY DEF TypeOK
    <3>3. loop[m].step = "claim" => loop[m].owner # l.owner
      BY <2>2
    <3> QED BY <1>3, <3>1, <3>2, <3>3 DEF RememberedClaims, Live
  <2> QED BY <2>1, <2>2
<1>4. RememberedClaims'
  BY <1>2, <1>3 DEF RememberedClaims, Live
<1> QED BY <1>1, <1>4

\* The steps of a loop up to its UPDATE keep the invariant.
LEMMA LoopReads ==
    ASSUME QueueInvariant, NEW k \in Consumer, NEW j \in Job, NEW c \in Owner,
           RecoverRead(k, j) \/ RenewBegin(k, c) \/ ClaimBegin(k, j, c)
    PROVE  QueueInvariant'
<1> USE DEF QueueInvariant
<1>1. CASE RecoverRead(k, j)
  <2> DEFINE l == [step |-> "recover", job |-> j, owner |-> row[j].owner,
                   age |-> 0, left |-> row[j].left, next |-> OnLoss(j)]
  <2>1. row[j].owner \in Owner /\ row[j].left \in Int
    BY <1>1 DEF RecoverRead, TypeOK, Row
  <2>2. OnLoss(j) \in LossOutcome /\ (OnLoss(j) = "retry" => row[j].attempts < MaxAttempts)
    BY JobQueueAssumption DEF OnLoss, LossOutcome, TypeOK, Row
  <2>3. l \in Loop
    BY <2>1, <2>2 DEF Loop, LoopStep
  <2>4. \A m \in Consumer \ {k} : loop[m].step = "claim" => loop[m].owner # row[j].owner
    BY DEF RememberedClaims, LoopCall
  <2>5. loop' = [loop EXCEPT ![k] = l]
        /\ row' = row /\ cancels' = cancels /\ task' = task /\ stops' = stops
    BY <1>1 DEF RecoverRead, LoopTo
  <2>6. /\ l.step = "recover"
        /\ l.job \in Job
        /\ l.owner \in Owner
        /\ l.next = "retry" => row[l.job].attempts < MaxAttempts
        /\ \A m \in Consumer \ {k} : loop[m].step = "claim" => loop[m].owner # l.owner
    BY <2>1, <2>2, <2>4
  <2> HIDE DEF l
  <2> QED BY <2>3, <2>5, <2>6, LoopAsks
<1>2. CASE RenewBegin(k, c)
  <2> DEFINE l == InHand("renew", task[c].job, c)
  <2>1. task[c].job \in Job /\ Live(c)
    BY <1>2 DEF RenewBegin, RememberedClaims
  <2>2. l \in Loop /\ l.step = "renew" /\ l.job = task[c].job /\ l.owner = c
    BY <2>1, JobQueueAssumption DEF InHand, Loop, LoopStep, LossOutcome, RowFloor
  <2>3. \A m \in Consumer \ {k} : loop[m].step = "claim" => loop[m].owner # c
    BY <2>1 DEF RememberedClaims, LoopCall
  <2>4. loop' = [loop EXCEPT ![k] = l]
        /\ row' = row /\ cancels' = cancels /\ task' = task /\ stops' = stops
    BY <1>2 DEF RenewBegin, LoopTo
  <2> HIDE DEF l
  <2> QED BY <2>1, <2>2, <2>3, <2>4, LoopAsks
<1>3. CASE ClaimBegin(k, j, c)
  <2> DEFINE l == InHand("claim", j, c)
  <2>1. c \in FreshOwner
    BY <1>3 DEF ClaimBegin
  <2>2. l \in Loop /\ l.step = "claim" /\ l.job = j /\ l.owner = c
    BY JobQueueAssumption DEF InHand, Loop, LoopStep, LossOutcome, RowFloor
  <2>3. \A m \in Consumer \ {k} : loop[m].step = "claim" => loop[m].owner # c
    BY <2>1 DEF FreshOwner
  <2>4. loop' = [loop EXCEPT ![k] = l]
        /\ row' = row /\ cancels' = cancels /\ task' = task /\ stops' = stops
    BY <1>3 DEF ClaimBegin, LoopTo
  <2> HIDE DEF l
  <2> QED BY <2>1, <2>2, <2>3, <2>4, LoopAsks
<1> QED BY <1>1, <1>2, <1>3

\* The UPDATE of try_claim keeps the invariant.
LEMMA ClaimKeeps ==
    ASSUME QueueInvariant, NEW k \in Consumer, ClaimCommit(k)
    PROVE  QueueInvariant'
<1> USE DEF QueueInvariant
<1> DEFINE c == loop[k].owner
           j == loop[k].job
<1>1. /\ j \in Job
      /\ c \in Owner
      /\ ~Live(c)
      /\ \A i \in Job : row[i].owner # c
      /\ \A m \in Consumer \ {k} : loop[m].owner # c
      /\ loop[k].age \in Nat
      /\ row[j] \in Row
  BY DEF ClaimCommit, RememberedClaims, LoopCall, TypeOK, Loop
<1>2. LoopsKept /\ loop' = [loop EXCEPT ![k] = Idle] /\ stops' = stops /\ cancels' = cancels
  BY LoopShapes DEF ClaimCommit, LoopTo
<1>3. CASE ~ClaimMatches(k)
  <2>1. row' = row /\ task' = task /\ stops' \in Nat
    BY <1>2, <1>3 DEF ClaimCommit, TypeOK
  <2> QED BY <1>1, <1>2, <2>1, RowsUnchanged, TaskShapes, ShapesKeep
<1>4. CASE ClaimMatches(k)
  <2> DEFINE r == Claimed(row[j], c, loop[k].age)
             t == TaskAt("handler", j, k, row[j].attempts + 1)
  <2>1. row[j].status \in Claimable /\ j \notin cancels /\ row[j].attempts < MaxAttempts
    BY <1>1, <1>4 DEF ClaimMatches, AttemptsBounded
  <2>2. /\ r \in Row
        /\ r.status = "running"
        /\ r.owner = c
        /\ r.attempts = row[j].attempts + 1
        /\ r.attempts <= MaxAttempts
    BY <1>1, <2>1, JobQueueAssumption DEF Claimed, Row, Status
  <2>3. /\ t \in Task
        /\ t.step = "handler"
        /\ t.job = j
        /\ t.attempt = row[j].attempts + 1
    BY <1>1, JobQueueAssumption DEF TaskAt, Task, TaskStep, LossOutcome, RowFloor, Row
  <2>4. row' = [row EXCEPT ![j] = r] /\ (task' = [task EXCEPT ![c] = t] \/ task' = task)
    BY <1>4 DEF ClaimCommit
  <2> HIDE DEF r, t
  <2>5. TypeOK'
    BY <1>1, <1>2, <2>2, <2>3, <2>4, JobQueueAssumption DEF TypeOK, LoopsKept
  <2>6. AttemptsBounded'
    BY <1>1, <2>2, <2>4 DEF AttemptsBounded, TypeOK, Claimable
  <2>7. CancelIsHonoured'
    BY <1>1, <1>2, <2>1, <2>2, <2>4 DEF CancelIsHonoured, TypeOK
  <2>8. ASSUME NEW d \in Owner, Live(d)'
        PROVE  /\ task'[d].job \in Job
               /\ \A i \in Job : row'[i].owner = d =>
                     task'[d].job = i /\ task'[d].attempt = row'[i].attempts
               /\ task'[d].step = "retry" => task'[d].attempt < MaxAttempts
               /\ task'[d].step = "release" /\ task'[d].next = "retry" =>
                     task'[d].attempt < MaxAttempts
    <3>1. CASE d = c
      <4>1. task'[d] = t
        BY <1>1, <2>4, <2>8, <3>1 DEF TypeOK, Live
      <4> QED BY <1>1, <2>2, <2>3, <2>4, <3>1, <4>1 DEF TypeOK
    <3>2. CASE d # c
      <4>1. task'[d] = task[d] /\ Live(d)
        BY <1>1, <2>4, <2>8, <3>2 DEF TypeOK, Live
      <4>2. \A i \in Job : row'[i].owner = d => i # j /\ row'[i] = row[i]
        BY <1>1, <2>2, <2>4, <3>2 DEF TypeOK
      <4> QED BY <4>1, <4>2 DEF RememberedClaims
    <3> QED BY <3>1, <3>2
  <2>9. ASSUME NEW m \in Consumer, loop'[m].step \in LoopCall
        PROVE  /\ loop'[m].job \in Job
               /\ loop'[m].owner \in Owner
               /\ loop'[m].step = "recover" /\ loop'[m].next = "retry"
                  /\ row'[loop'[m].job].owner = loop'[m].owner =>
                     row'[loop'[m].job].attempts < MaxAttempts
               /\ loop'[m].step = "claim" =>
                     /\ task'[loop'[m].owner].step = "none"
                     /\ \A i \in Job : row'[i].owner # loop'[m].owner
                     /\ \A n \in Consumer \ {m} : loop'[n].owner # loop'[m].owner
    <3>1. m # k /\ loop'[m] = loop[m] /\ loop[m].owner # c
      BY <1>1, <1>2, <2>9 DEF TypeOK, Idle, InHand, LoopCall
    <3>2. loop[m].job \in Job /\ loop[m].owner \in Owner
      BY <2>9, <3>1 DEF RememberedClaims
    <3>3. row'[loop[m].job].owner = loop[m].owner => row'[loop[m].job] = row[loop[m].job]
      BY <1>1, <2>2, <2>4, <3>1, <3>2 DEF TypeOK
    <3>4. task'[loop[m].owner] = task[loop[m].owner]
      BY <1>1, <2>4, <3>1, <3>2 DEF TypeOK
    <3>5. \A i \in Job : row'[i] = row[i] \/ row'[i].owner = c
      BY <1>1, <2>2, <2>4 DEF TypeOK
    <3>6. \A n \in Consumer : loop'[n] = loop[n] \/ loop'[n].owner = None
      BY <1>1, <1>2 DEF TypeOK, Idle, InHand
    <3> QED BY <2>9, <3>1, <3>2, <3>3, <3>4, <3>5, <3>6, JobQueueAssumption
            DEF RememberedClaims, Live
  <2>10. RememberedClaims'
    BY <2>8, <2>9 DEF RememberedClaims, Live
  <2> QED BY <2>5, <2>6, <2>7, <2>10
<1> QED BY <1>3, <1>4

\* The other UPDATEs of a loop keep the invariant.
LEMMA LoopCommits ==
    ASSUME QueueInvariant, NEW k \in Consumer,
           RecoverCommit(k) \/ RenewCommit(k) \/ LoopError(k)
    PROVE  QueueInvariant'
<1> USE DEF QueueInvariant
<1> DEFINE j == loop[k].job
           c == loop[k].owner
<1>1. /\ j \in Job
      /\ c \in Owner
      /\ loop[k] \in Loop
      /\ loop[k].step = "recover" /\ loop[k].next = "retry" /\ row[j].owner = c =>
            row[j].attempts < MaxAttempts
  BY DEF RecoverCommit, RenewCommit, LoopError, RememberedClaims, LoopCall, TypeOK
<1>2. LoopsKept /\ stops' \in Nat /\ cancels' = cancels
  BY LoopShapes DEF RecoverCommit, RenewCommit, LoopError, TypeOK
<1>3. CASE RecoverCommit(k) /\ row' # row
  <2> DEFINE s == loop[k].next
             w == IF s = "retry" THEN RecoveryDelay - loop[k].age ELSE row[j].wait
  <2>1. w \in Int
    BY <1>1, JobQueueAssumption DEF Loop, TypeOK, Row
  <2>2. /\ row' = [row EXCEPT ![j] = Unlocked(row[j], s, w)]
        /\ row[j].owner = c
        /\ j \in cancels <=> s = "cancelled"
    BY <1>3 DEF RecoverCommit, RecoverMatches, AfterLoss
  <2>3. s \in Claimable \cup Terminal /\ (s \in Claimable => s = "retry")
    BY <1>1 DEF Loop, LossOutcome, Claimable, Terminal
  <2>4. s = "retry" => row[j].attempts < MaxAttempts
    BY <1>1, <1>3, <2>2 DEF RecoverCommit
  <2>5. TasksKept
    BY <1>1, <1>3, TaskShapes DEF RecoverCommit
  <2> HIDE DEF s, w
  <2>6. RowsKept /\ AttemptsBounded' /\ CancelIsHonoured'
    BY <1>1, <1>2, <2>1, <2>2, <2>3, <2>4, RowsUnlocked
  <2> QED BY <1>2, <2>5, <2>6, ShapesKeep
<1>4. CASE RenewCommit(k) /\ row' # row
  <2>1. row' = [row EXCEPT ![j].left = LeaseSeconds - loop[k].age] /\ task' = task
    BY <1>4 DEF RenewCommit
  <2>2. LeaseSeconds - loop[k].age \in Int
    BY <1>1, JobQueueAssumption DEF Loop
  <2>3. RowsKept /\ AttemptsBounded' /\ CancelIsHonoured'
    BY <1>1, <1>2, <2>1, <2>2
       DEF RowsKept, AttemptsBounded, CancelIsHonoured, TypeOK, Row
  <2> QED BY <1>1, <1>2, <2>1, <2>3, TaskShapes, ShapesKeep
<1>5. CASE row' = row
  <2>1. RowsKept /\ AttemptsBounded' /\ CancelIsHonoured'
    BY <1>2, <1>5, RowsUnchanged
  <2>2. CASE task' = task
    BY <1>1, <1>2, <2>1, <2>2, TaskShapes, ShapesKeep
  <2>3. CASE task' # task
    <3>1. task' = [task EXCEPT ![c] = IF @.job = j THEN Interrupt(@) ELSE @]
      BY <2>3 DEF RecoverCommit, RenewCommit, LoopError
    <3>2. task'[c] = task[c] \/ Advances(c)
      <4>1. task'[c] \in {task[c], Interrupt(task[c])}
        BY <1>1, <3>1 DEF TypeOK
      <4>2. CASE Live(c)
        BY <1>1, <4>1, <4>2, InterruptShape
      <4>3. CASE ~Live(c)
        BY <4>1, <4>3 DEF Live, Interrupt
      <4> QED BY <4>2, <4>3
    <3>3. TasksKept
      BY <1>1, <3>1, <3>2 DEF TasksKept, TypeOK
    <3> QED BY <1>2, <2>1, <3>3, ShapesKeep
  <2> QED BY <2>2, <2>3
<1> QED BY <1>3, <1>4, <1>5 DEF LoopError

\* Stops, crashes and restarts keep the invariant.
LEMMA StopsKeep ==
    ASSUME QueueInvariant, NEW k \in Consumer, Stop(k) \/ Crash(k) \/ Start(k)
    PROVE  QueueInvariant'
<1> USE DEF QueueInvariant
<1>1. LoopsKept
  BY LoopShapes DEF Stop, Crash, Start
<1>2. stops' \in Nat /\ row' = row /\ cancels' = cancels
  BY DEF Stop, Crash, Start, TypeOK
<1>3. TasksKept
  <2>1. CASE Stop(k)
    <3>1. task' = [c \in Owner |-> IF c \in Running(k) THEN Interrupt(task[c]) ELSE task[c]]
      BY <2>1 DEF Stop
    <3>2. ASSUME NEW c \in Owner PROVE task'[c] = task[c] \/ Advances(c)
      BY <3>1, InterruptShape DEF Running
    <3> QED BY <3>1, <3>2 DEF TasksKept
  <2>2. CASE Crash(k)
    BY <2>2 DEF Crash, TasksKept
  <2>3. CASE Start(k)
    BY <2>3 DEF Start, TasksKept, TypeOK
  <2> QED BY <2>1, <2>2, <2>3
<1> QED BY <1>1, <1>2, <1>3, RowsUnchanged, ShapesKeep

\* Time keeps the invariant.
LEMMA TickKeeps ==
    ASSUME QueueInvariant, Tick
    PROVE  QueueInvariant'
<1> USE DEF QueueInvariant
<1>1. \A n, f \in Int : Later(n, f) \in Int
  BY DEF Later
<1>2. RowFloor \in Int /\ -MaxDbDelay \in Int
  BY JobQueueAssumption DEF RowFloor
<1>3. row' \in [Job -> Row] /\ \A j \in Job : /\ row'[j].status = row[j].status
                                              /\ row'[j].owner = row[j].owner
                                              /\ row'[j].attempts = row[j].attempts
  <2> DEFINE L(j) == Later(row[j].left, RowFloor)
             W(j) == Later(row[j].wait, -MaxDbDelay)
  <2>1. \A j \in Job : L(j) \in Int /\ W(j) \in Int
    BY <1>1, <1>2 DEF TypeOK, Row
  <2>2. row' = [j \in Job |-> [row[j] EXCEPT !.left = L(j), !.wait = W(j)]]
    BY DEF Tick
  <2> HIDE DEF L, W
  <2>3. ASSUME NEW j \in Job
        PROVE  /\ row'[j] \in Row
               /\ row'[j].status = row[j].status
               /\ row'[j].owner = row[j].owner
               /\ row'[j].attempts = row[j].attempts
    BY <2>1, <2>2 DEF TypeOK, Row
  <2> QED BY <2>2, <2>3
<1>4. cancels' = cancels /\ stops' \in Nat
  BY DEF Tick, TypeOK
<1>5. RowsKept /\ AttemptsBounded' /\ CancelIsHonoured'
  BY <1>3, <1>4 DEF RowsKept, AttemptsBounded, CancelIsHonoured, TypeOK
<1>6. LoopsKept
  <2> DEFINE f(k) == Later(loop[k].left, RowFloor)
             a(k) == loop[k].age + 1
  <2>1. \A k \in Consumer : loop[k].left \in Int /\ loop[k].age \in Nat
    BY DEF TypeOK, Loop
  <2>2. \A k \in Consumer : f(k) \in Int /\ a(k) \in Nat
    BY <1>2, <2>1 DEF Later
  <2>3. loop' = [k \in Consumer |-> IF loop[k].step \in LoopCall
                                    THEN [loop[k] EXCEPT !.age = a(k), !.left = f(k)]
                                    ELSE loop[k]]
    BY DEF Tick
  <2> HIDE DEF f, a
  <2>4. ASSUME NEW k \in Consumer
        PROVE  /\ loop'[k] \in Loop
               /\ loop'[k].step = loop[k].step
               /\ loop'[k].job = loop[k].job
               /\ loop'[k].owner = loop[k].owner
               /\ loop'[k].next = loop[k].next
    BY <2>2, <2>3 DEF TypeOK, Loop
  <2> QED BY <2>3, <2>4 DEF LoopsKept
<1>7. TasksKept
  <2>1. ASSUME NEW c \in Owner PROVE task'[c] = task[c] \/ Advances(c)
    <3>1. CASE task[c].step \in TaskCall
      <4>1. Live(c)
        BY <3>1 DEF TaskCall, Live
      <4> DEFINE f == Later(task[c].left, RowFloor)
                 a == task[c].age + 1
      <4>2. task'[c] = [task[c] EXCEPT !.age = a, !.left = f]
        BY <3>1 DEF Tick
      <4>3. task[c].left \in Int /\ task[c].age \in Nat
        BY DEF TypeOK, Task
      <4>4. f \in Int /\ a \in Nat
        BY <1>2, <4>3 DEF Later
      <4> HIDE DEF f, a
      <4>5. /\ task'[c] \in Task
            /\ task'[c].job = task[c].job
            /\ task'[c].attempt = task[c].attempt
            /\ task'[c].step = task[c].step
            /\ task'[c].next = task[c].next
        BY <4>2, <4>4 DEF TypeOK, Task
      <4> QED BY <4>1, <4>5 DEF Advances, RememberedClaims
    <3>2. CASE task[c].step \notin TaskCall
      BY <3>2 DEF Tick
    <3> QED BY <3>1, <3>2
  <2> QED BY <2>1 DEF Tick, TasksKept
<1> QED BY <1>4, <1>5, <1>6, <1>7, ShapesKeep

\* QueueInvariant is inductive.
LEMMA NextKeeps == QueueInvariant /\ [Next]_vars => QueueInvariant'
<1> SUFFICES ASSUME QueueInvariant, [Next]_vars PROVE QueueInvariant'
  OBVIOUS
<1>1. ASSUME NEW k \in Consumer, LoopNext(k) PROVE QueueInvariant'
  <2>1. ASSUME NEW j \in Job, RecoverRead(k, j) PROVE QueueInvariant'
    <3>1. row[j].owner \in Owner
      BY <2>1 DEF RecoverRead, QueueInvariant, TypeOK, Row
    <3> QED BY <2>1, <3>1, LoopReads
  <2>2. ASSUME NEW c \in Owner, RenewBegin(k, c) PROVE QueueInvariant'
    <3>1. task[c].job \in Job
      BY <2>2 DEF RenewBegin, QueueInvariant, RememberedClaims
    <3> QED BY <2>2, <3>1, LoopReads
  <2>3. ASSUME NEW j \in Job, NEW c \in Owner, ClaimBegin(k, j, c) PROVE QueueInvariant'
    BY <2>3, LoopReads
  <2> QED BY <1>1, <2>1, <2>2, <2>3, LoopCommits, ClaimKeeps, StopsKeep DEF LoopNext
<1>2. CASE UNCHANGED vars
  BY <1>2 DEF vars, QueueInvariant, TypeOK, AttemptsBounded, CancelIsHonoured,
              RememberedClaims, Live
<1> QED BY <1>1, <1>2, ClientStep, TaskKeeps, TickKeeps DEF Next

\* QueueInvariant holds initially.
LEMMA InitHolds == Init => QueueInvariant
<1> SUFFICES ASSUME Init PROVE QueueInvariant
  OBVIOUS
<1>1. Absent \in Row /\ Absent.owner = None /\ Absent.attempts = 0 /\ Absent.status = "absent"
  BY JobQueueAssumption DEF Absent, Row, Status, RowFloor
<1>2. TypeOK
  BY <1>1, IdleTyped DEF Init, TypeOK
<1>3. AttemptsBounded /\ CancelIsHonoured
  BY <1>1, JobQueueAssumption DEF Init, AttemptsBounded, CancelIsHonoured, Claimable
<1>4. RememberedClaims
  BY DEF Init, RememberedClaims, Live, NoTask, TaskAt, Idle, InHand, LoopCall
<1> QED BY <1>2, <1>3, <1>4 DEF QueueInvariant

\* The invariant holds in every reachable state: the locks, attempts and
\* cancel requests of job_claim.py, job_control.py and job_terminal.py stay
\* consistent with each other and with what the consumers remember.
THEOREM QueueInvariance == Spec => []QueueInvariant
BY InitHolds, NextKeeps, PTL DEF Spec

\* No job is claimed more than max_attempts times, and a waiting job can
\* still be claimed.
THEOREM AttemptsAreBounded == Spec => []AttemptsBounded
BY QueueInvariance, PTL DEF QueueInvariant

\* No accepted cancel request is lost.
THEOREM CancelRequestsAreHonoured == Spec => []CancelIsHonoured
BY QueueInvariance, PTL DEF QueueInvariant

----------------------------------------------------------------------------
(* Fencing.                                                                *)

\* A claim changes hands only after its lease or by its own task.
LEMMA StepIsFenced ==
    ASSUME QueueInvariant, Next, NEW i \in Job, NEW d \in Owner,
           row[i].owner = d, row'[i].owner # d
    PROVE  row[i].left < 0 \/ (Live(d) /\ task'[d] # task[d])
<1> USE DEF QueueInvariant
<1>1. row[i].status = "running" /\ d # None
  BY JobQueueAssumption DEF TypeOK
<1>2. ASSUME NEW j \in Job, Submit(j) \/ RequestCancel(j) PROVE FALSE
  BY <1>1, <1>2 DEF Submit, RequestCancel, TypeOK, Claimable
<1>3. ASSUME NEW k \in Consumer, LoopNext(k) PROVE row[i].left < 0
  <2>1. CASE RecoverCommit(k)
    <3>1. loop[k].age \in Nat /\ loop[k].job \in Job
      BY <2>1 DEF TypeOK, Loop, RecoverCommit, RememberedClaims, LoopCall
    <3>2. RecoverMatches(k) /\ loop[k].job = i
      BY <2>1, <3>1 DEF RecoverCommit, TypeOK
    <3>3. row[i].left \in Int
      BY DEF TypeOK, Row
    <3> QED BY <3>1, <3>2, <3>3 DEF RecoverMatches
  <2>2. CASE ClaimCommit(k)
    BY <1>1, <2>2 DEF ClaimCommit, ClaimMatches, TypeOK, RememberedClaims, LoopCall, Claimable
  <2>3. CASE RenewCommit(k)
    BY <2>3 DEF RenewCommit, TypeOK, RememberedClaims, LoopCall, Row
  <2> QED BY <1>3, <2>1, <2>2, <2>3
          DEF LoopNext, RecoverRead, RenewBegin, ClaimBegin, LoopError, Stop, Crash, Start
<1>4. ASSUME NEW c \in Owner, TaskNext(c) PROVE Live(d) /\ task'[d] # task[d]
  <2>1. CASE Finalize(c) \/ Mark(c) \/ ReleaseForRetry(c) \/ MarkCancelled(c)
    <3>1. task[c].job = i /\ row[i].owner = c
      BY <2>1 DEF Finalize, Mark, ReleaseForRetry, MarkCancelled, MayMark, Holds, TypeOK
    <3>2. Live(c) /\ task'[c].step # task[c].step
      BY <2>1, <3>1 DEF Finalize, Mark, MarkStatus, ReleaseForRetry, MarkCancelled, Live,
                TypeOK, TaskEnds, TaskTo, NoTask, TaskAt, Task
    <3> QED BY <3>1, <3>2
  <2>2. CASE ReleaseCommit(c)
    <3>1. task[c].job = i /\ row[i].owner = c
      BY <2>2 DEF ReleaseCommit, ReleaseMatches, TypeOK
    <3>2. Live(c) /\ task'[c].step # task[c].step
      BY <2>2, <3>1 DEF ReleaseCommit, Live, TypeOK, TaskEnds, NoTask, TaskAt
    <3> QED BY <3>1, <3>2
  <2> QED BY <1>4, <2>1, <2>2
          DEF TaskNext, LeaseLost, SeesCancel, Raises, Completes, MarkError, ReleaseRead
<1>5. ASSUME Tick PROVE FALSE
  BY <1>5 DEF Tick, TypeOK, Row
<1> QED BY <1>2, <1>3, <1>4, <1>5 DEF Next

\* The fence of every UPDATE holds: a claim is taken away only after its
\* lease has run out, or by its own task.
THEOREM ClaimsAreFenced == Spec => ClaimIsFenced
<1>1. QueueInvariant /\ [Next]_vars =>
      [\A j \in Job : \A c \in Owner :
          row[j].owner = c /\ row'[j].owner # c =>
              row[j].left < 0 \/ (Live(c) /\ task'[c] # task[c])]_vars
  BY StepIsFenced
<1> QED BY <1>1, QueueInvariance, PTL DEF Spec, ClaimIsFenced

----------------------------------------------------------------------------
(* The queue implements the abstract life cycle.                           *)

View == [j \in Job |-> [status |-> row[j].status, owner |-> row[j].owner,
                        attempts |-> row[j].attempts]]

\* Rows whose visible fields stay look the same to the life cycle.
LEMMA ViewUnchanged ==
    ASSUME \A j \in Job : /\ row'[j].status = row[j].status
                          /\ row'[j].owner = row[j].owner
                          /\ row'[j].attempts = row[j].attempts
    PROVE  View' = View
BY DEF View

\* Unlocking a row is Ends of the life cycle.
LEMMA ViewEnds ==
    ASSUME TypeOK, NEW i \in Job, NEW s, NEW w,
           row' = [row EXCEPT ![i] = Unlocked(row[i], s, w)], cancels' = cancels
    PROVE  Promise!Ends(i, s)
<1>1. View' = [View EXCEPT ![i].status = s, ![i].owner = None]
  <2>1. \A j \in Job : j # i => View'[j] = View[j]
    BY DEF TypeOK, View
  <2>2. row'[i] = Unlocked(row[i], s, w)
    BY DEF TypeOK
  <2>3. View'[i] = [status |-> s, owner |-> None, attempts |-> row[i].attempts]
    BY <2>2 DEF View, Unlocked
  <2> QED BY <2>1, <2>3 DEF View
<1> QED BY <1>1 DEF View, Promise!Ends

\* A claim that ends without a result, as OnLoss decided, is a step of the
\* life cycle.
LEMMA LossIsLifecycle ==
    ASSUME TypeOK, NEW i \in Job, NEW s \in LossOutcome, NEW w,
           row[i].status = "running",
           i \in cancels <=> s = "cancelled",
           s = "retry" => row[i].attempts < MaxAttempts,
           row' = [row EXCEPT ![i] = Unlocked(row[i], s, w)], cancels' = cancels
    PROVE  Promise!Next
<1>1. Promise!Ends(i, s)
  BY ViewEnds
<1>2. View[i].status = "running" /\ View[i].attempts = row[i].attempts
  BY DEF View
<1>3. CASE s = "cancelled"
  BY <1>1, <1>2, <1>3 DEF Promise!Next, Promise!CancelRunning, View
<1>4. CASE s = "failed"
  BY <1>1, <1>2, <1>4 DEF Promise!Next, Promise!Conclude, View
<1>5. CASE s = "retry"
  BY <1>1, <1>2, <1>5 DEF Promise!Next, Promise!GiveBack, View
<1> QED BY <1>3, <1>4, <1>5 DEF LossOutcome

\* A step of a client is a step of the life cycle.
LEMMA ClientIsLifecycle ==
    ASSUME QueueInvariant, NEW j \in Job, Submit(j) \/ RequestCancel(j)
    PROVE  Promise!Next
<1> USE DEF QueueInvariant
<1>1. CASE Submit(j)
  <2>1. Promise!Ends(j, "pending")
    BY <1>1, ViewEnds DEF Submit
  <2> QED BY <1>1, <2>1 DEF Promise!Next, Promise!Submit, Submit
<1>2. CASE RequestCancel(j) /\ row[j].status \in Claimable
  <2>1. row' = [row EXCEPT ![j] = Unlocked(row[j], "cancelled", row[j].wait)]
        /\ cancels' = cancels
    BY <1>2 DEF RequestCancel, Claimable
  <2>2. Promise!Ends(j, "cancelled")
    BY <2>1, ViewEnds
  <2> QED BY <1>2, <2>2 DEF Promise!Next, Promise!CancelWaiting, Promise!Claimable, Claimable
<1>3. CASE RequestCancel(j) /\ row[j].status \notin Claimable
  <2>1. row[j].status = "running" /\ cancels' = cancels \cup {j} /\ row' = row
    BY <1>3 DEF RequestCancel
  <2> QED BY <2>1 DEF Promise!Next, Promise!RequestCancel
<1> QED BY <1>1, <1>2, <1>3

\* A step of a loop is a step of the life cycle or a stutter.
LEMMA LoopIsLifecycle ==
    ASSUME QueueInvariant, NEW k \in Consumer, LoopNext(k)
    PROVE  Promise!Next \/ UNCHANGED <<View, cancels>>
<1> USE DEF QueueInvariant
<1> DEFINE j == loop[k].job
           c == loop[k].owner
<1>1. CASE row' = row /\ cancels' = cancels
  BY <1>1 DEF View
<1>2. CASE RecoverCommit(k) /\ row' # row
  <2> DEFINE s == loop[k].next
             w == IF s = "retry" THEN RecoveryDelay - loop[k].age ELSE row[j].wait
  <2>1. j \in Job /\ s \in LossOutcome
    BY <1>2 DEF RecoverCommit, RememberedClaims, LoopCall, TypeOK, Loop
  <2>2. /\ row' = [row EXCEPT ![j] = Unlocked(row[j], s, w)]
        /\ row[j].status = "running"
        /\ row[j].owner = c
        /\ j \in cancels <=> s = "cancelled"
        /\ cancels' = cancels
    BY <1>2 DEF RecoverCommit, RecoverMatches, AfterLoss
  <2>3. s = "retry" => row[j].attempts < MaxAttempts
    BY <1>2, <2>2 DEF RecoverCommit, RememberedClaims, LoopCall
  <2> HIDE DEF s, w
  <2> QED BY <2>1, <2>2, <2>3, LossIsLifecycle
<1>3. CASE RenewCommit(k) /\ row' # row
  <2>1. row' = [row EXCEPT ![j].left = LeaseSeconds - loop[k].age] /\ cancels' = cancels
    BY <1>3 DEF RenewCommit
  <2>2. \A i \in Job : /\ row'[i].status = row[i].status
                       /\ row'[i].owner = row[i].owner
                       /\ row'[i].attempts = row[i].attempts
    BY SMTT(30), <2>1 DEF TypeOK, Row
  <2> QED BY <2>1, <2>2, ViewUnchanged
<1>4. CASE ClaimCommit(k) /\ row' # row
  <2>1. j \in Job /\ c \in Owner
    BY <1>4 DEF ClaimCommit, RememberedClaims, LoopCall
  <2>2. row' = [row EXCEPT ![j] = Claimed(row[j], c, loop[k].age)] /\ cancels' = cancels
    BY <1>4 DEF ClaimCommit
  <2>3. row[j].status \in Claimable /\ j \notin cancels /\ row[j].attempts < MaxAttempts
    BY SMTT(30), <1>4, <2>1 DEF ClaimCommit, ClaimMatches, AttemptsBounded
  <2>4. View' = [View EXCEPT ![j].status = "running", ![j].owner = c,
                             ![j].attempts = View[j].attempts + 1]
    <3>1. \A i \in Job : i # j => View'[i] = View[i]
      BY <2>1, <2>2 DEF TypeOK, View
    <3>2. row'[j] = Claimed(row[j], c, loop[k].age)
      BY <2>1, <2>2 DEF TypeOK
    <3>3. View'[j] = [status |-> "running", owner |-> c, attempts |-> row[j].attempts + 1]
      BY <2>1, <3>2 DEF View, Claimed
    <3> QED BY ZenonT(40), <2>1, <3>1, <3>3 DEF View
  <2>5. Promise!Claim(j, c)
    BY ZenonT(40), <2>1, <2>2, <2>3, <2>4 DEF Promise!Claim, Promise!Claimable, Claimable, View
  <2> QED BY ZenonT(40), <2>1, <2>5 DEF Promise!Next, Promise!Claim
<1>5. cancels' = cancels
  BY DEF LoopNext, RecoverRead, RecoverCommit, RenewBegin, RenewCommit, ClaimBegin,
         ClaimCommit, LoopError, Stop, Crash, Start
<1> QED BY <1>1, <1>2, <1>3, <1>4, <1>5
    DEF LoopNext, RecoverRead, RenewBegin, ClaimBegin, LoopError, Stop, Crash, Start

\* A step of a task is a step of the life cycle or a stutter.
LEMMA TaskIsLifecycle ==
    ASSUME QueueInvariant, NEW c \in Owner, TaskNext(c)
    PROVE  Promise!Next \/ UNCHANGED <<View, cancels>>
<1> USE DEF QueueInvariant
<1> DEFINE j == task[c].job
<1>1. Live(c)
  BY DEF TaskNext, LeaseLost, SeesCancel, Raises, Completes, Finalize, Mark, MarkStatus,
         ReleaseForRetry, MarkCancelled, MarkError, ReleaseRead, ReleaseCommit, Live
<1>2. j \in Job /\ task[c] \in Task
      /\ (row[j].owner = c => task[c].attempt = row[j].attempts)
  BY <1>1, HeldRow
<1>3. cancels' = cancels
  BY DEF TaskNext, LeaseLost, SeesCancel, Raises, Completes, Finalize, Mark,
         ReleaseForRetry, MarkCancelled, MarkError, ReleaseRead, ReleaseCommit
<1>4. CASE row' = row
  BY <1>3, <1>4 DEF View
<1>5. CASE row' # row /\ (Finalize(c) \/ Mark(c))
  <2>1. PICK s \in {"succeeded", "failed"} :
           row' = [row EXCEPT ![j] = Unlocked(row[j], s, row[j].wait)]
    BY <1>5 DEF Finalize, Mark, MarkStatus
  <2>2. j \notin cancels /\ row[j].status = "running"
    BY <1>5 DEF Finalize, Mark, MayMark, Holds
  <2>3. Promise!Ends(j, s)
    BY <1>2, <1>3, <2>1, ViewEnds
  <2>4. Promise!Conclude(j)
    BY <1>2, <2>2, <2>3 DEF Promise!Conclude
  <2> QED BY <1>2, <2>4 DEF Promise!Next, Promise!Conclude
<1>6. CASE row' # row /\ ReleaseForRetry(c)
  <2> DEFINE w == RetryDelay(task[c].attempt) - task[c].age
  <2>1. /\ row' = [row EXCEPT ![j] = Unlocked(row[j], "retry", w)]
        /\ j \notin cancels
        /\ row[j].owner = c
        /\ row[j].status = "running"
    BY <1>6 DEF ReleaseForRetry, MayMark, Holds
  <2>2. row[j].attempts < MaxAttempts
    BY <1>1, <1>2, <1>6, <2>1 DEF ReleaseForRetry, RememberedClaims
  <2>3. "retry" \in LossOutcome
    BY DEF LossOutcome
  <2> HIDE DEF w
  <2> QED BY <1>2, <1>3, <2>1, <2>2, <2>3, LossIsLifecycle
<1>7. CASE row' # row /\ MarkCancelled(c)
  <2>1. row' = [row EXCEPT ![j] = Unlocked(row[j], "cancelled", row[j].wait)]
        /\ row[j].status = "running"
    BY <1>7 DEF MarkCancelled, Holds
  <2>2. Promise!Ends(j, "cancelled")
    BY <1>2, <1>3, <2>1, ViewEnds
  <2> QED BY <1>2, <2>1, <2>2 DEF Promise!Next, Promise!CancelRunning
<1>8. CASE row' # row /\ ReleaseCommit(c)
  <2> DEFINE s == task[c].next
             w == IF s = "retry" THEN ShutdownDelay - task[c].age ELSE row[j].wait
  <2>1. /\ row' = [row EXCEPT ![j] = Unlocked(row[j], s, w)]
        /\ row[j].owner = c
        /\ row[j].status = "running"
        /\ j \in cancels <=> s = "cancelled"
    BY <1>8 DEF ReleaseCommit, ReleaseMatches, AfterLoss
  <2>2. s = "retry" => row[j].attempts < MaxAttempts
    BY <1>1, <1>2, <1>8, <2>1 DEF ReleaseCommit, RememberedClaims
  <2>3. s \in LossOutcome
    BY <1>2 DEF Task
  <2> HIDE DEF s, w
  <2> QED BY <1>2, <1>3, <2>1, <2>2, <2>3, LossIsLifecycle
<1> QED BY <1>4, <1>5, <1>6, <1>7, <1>8 DEF TaskNext, LeaseLost, SeesCancel, Raises,
           Completes, MarkError, ReleaseRead

\* Every step of the queue is a step of the life cycle or a stutter.
LEMMA StepIsLifecycle ==
    ASSUME QueueInvariant, [Next]_vars
    PROVE  Promise!Next \/ UNCHANGED <<View, cancels>>
<1>1. ASSUME Tick PROVE UNCHANGED <<View, cancels>>
  <2>1. \A j \in Job : /\ row'[j].status = row[j].status
                       /\ row'[j].owner = row[j].owner
                       /\ row'[j].attempts = row[j].attempts
    BY <1>1 DEF Tick, QueueInvariant, TypeOK, Row
  <2> QED BY <1>1, <2>1, ViewUnchanged DEF Tick
<1>2. CASE UNCHANGED vars
  BY <1>2 DEF vars, View
<1> QED BY <1>1, <1>2, ClientIsLifecycle, LoopIsLifecycle, TaskIsLifecycle DEF Next

\* The queue with its clocks, leases, compare-and-sets and zombies implements
\* the abstract life cycle of a job.
THEOREM QueueImplementsLifecycle == Spec => ImplementsLifecycle
<1>1. Init => Promise!Init
  BY DEF Init, Promise!Init, Absent
<1>2. QueueInvariant /\ [Next]_vars => [Promise!Next]_<<View, cancels>>
  BY StepIsLifecycle
<1> QED BY <1>1, <1>2, QueueInvariance, PTL
    DEF Spec, ImplementsLifecycle, Promise!Spec, View
=============================================================================
