------------------------- MODULE SessionReplyQueueProofs -------------------------
(***************************************************************************)
(* Proofs about SessionReplyQueue, for any number of works, claims,        *)
(* background tasks, attempts and faults.                                   *)
(***************************************************************************)
EXTENDS SessionReplyQueue, TLAPS

(* The inductive invariant *)

\* The message of a reply that has been frozen is in its input.
Frozen(w) == Kind[w] = "reply" => w \in row[w].input

\* What only a reply that has been frozen can be or have.
Begun(w) ==
    \/ row[w].input # {}
    \/ row[w].status \in {"waiting", "succeeded"}
    \/ "resuming" \in row[w].flags
    \/ w \in Has("answered")

\* A confirmed work that no task has resumed: its tools are still to run.
FirstTime(w) == Kind[w] = "confirmed" /\ "resuming" \notin row[w].flags

\* A row, and what is saved beside it.
RowFit(w) ==
    /\ row[w].status = "none" => row[w] = NewRow /\ log[w] = {} /\ ran[w] = 0
    /\ row[w].status = "ready" => row[w].attempts < MaxAttempts
    /\ Begun(w) => Frozen(w)
    /\ row[w].status \in {"ready", "running", "waiting", "succeeded"} /\ w \in Has("processed") =>
            w \in row[w].input
    /\ ran[w] <= 1
    /\ row[w].status = "ready" /\ FirstTime(w) => ran[w] = 0
    /\ row[w].status = "succeeded" => w \in Has("answered")
    /\ row[w].status = "failed" => w \in Has("error")

\* The places of the rows in the session's order.
OrderFit ==
    /\ \A w \in Works : row[w].status # "none" => row[w].seq < nextSeq
    /\ \A w \in Works : \A v \in Works \ {w} :
            row[w].status # "none" /\ row[v].status # "none" => row[w].seq # row[v].seq
    /\ OneReplyAtATime

\* The messages that replies have taken.
InputsFit ==
    /\ \A m \in Works : m \in Has("processed") <=> \E w \in Works : m \in row[w].input
    /\ \A w \in Works : \A v \in Works \ {w} : row[w].input \cap row[v].input = {}
    /\ \A w \in Works : row[w].status = "merged" =>
            /\ row[w].into \in Works
            /\ w \in row[row[w].into].input
            /\ row[row[w].into].status # "merged"

\* What an executor knows of its work, and what it knows while its claim stands.
ExecFit(c) ==
    LET w == exec[c].work
        pc == exec[c].pc
    IN  exec[c] # Idle =>
            /\ pc # "idle" /\ w \in Works /\ row[w].status # "none"
            /\ pc \in {"freeze", "merge"} => Kind[w] = "reply"
            /\ pc = "tools" => Kind[w] = "confirmed"
            /\ pc = "release" => Kind[w] # "confirmed"
            /\ pc \in {"reply", "absorb", "suspend", "deliver", "finish"} => Frozen(w)
            /\ pc \in {"merge", "absorb"} => \A v \in exec[c].read : Kind[v] = "reply"
            /\ pc = "mark" => w \in Has("error")
            /\ Holds(c) =>
                /\ pc = "merge" => w \in exec[c].read
                /\ pc = "release" => row[w].attempts < MaxAttempts
                /\ pc = "claimed" /\ FirstTime(w) => ran[w] = 0
                /\ pc = "tools" => ran[w] = 0
                /\ pc \in {"deliver", "finish"} => w \in Has("answered")

SweepFit ==
    sweep # NoSweep =>
        /\ sweep.pc # "idle" /\ sweep.work \in Works /\ row[sweep.work].status # "none"
        /\ sweep.pc = "retry" => Kind[sweep.work] # "confirmed"
        /\ sweep.pc = "mark" => sweep.work \in Has("error")

ToolsFit == \A t \in Tools : tool[t].state = "running" \/ t \in notices => tool[t].work \in Works

ReplyInv ==
    /\ TypeOK
    /\ \A w \in Works : RowFit(w)
    /\ OrderFit
    /\ InputsFit
    /\ \A c \in Claims : ExecFit(c)
    /\ SweepFit
    /\ ToolsFit

-----------------------------------------------------------------------------
(* What a step may do *)

\* What the executors other than C rely on: what they know of work w stays true.
Steady(w, C) ==
    /\ row[w].input \subseteq row'[w].input
    /\ "error" \in log[w] => "error" \in log'[w]
    /\ row[w].status # "none" => row'[w].status # "none"
    /\ row'[w].status = "running" /\ row'[w].owner # C =>
        /\ row[w].status = "running" /\ row'[w].owner = row[w].owner
        /\ row'[w].attempts = row[w].attempts
        /\ "resuming" \in row'[w].flags <=> "resuming" \in row[w].flags
        /\ ran'[w] = ran[w]
        /\ "answered" \in log[w] => "answered" \in log'[w]

\* No message changes hands.
SameInputs(w) ==
    /\ row'[w].input = row[w].input /\ row'[w].into = row[w].into
    /\ row'[w].status = "merged" <=> row[w].status = "merged"
    /\ "processed" \in log'[w] <=> "processed" \in log[w]

\* A row keeps its place in the session's order or gives it up.
SamePlace(w) ==
    /\ row'[w].seq = row[w].seq
    /\ row'[w].status = "none" <=> row[w].status = "none"
    /\ row'[w].status \in {"ready", "running"} => row[w].status \in {"ready", "running"}
    /\ row'[w].status = "running" => row[w].status = "running"

SameRow(w) == row'[w] = row[w] /\ log'[w] = log[w] /\ ran'[w] = ran[w]

\* What is saved about a work, as membership in its log.
LEMMA HasEntry == \A w \in Works : \A e : w \in Has(e) <=> e \in log[w]
BY DEF Has

\* A row that a statement does not touch has changed in no respect (UPDATE ... WHERE id = ...).
LEMMA SameRowIsSteady ==
    ASSUME NEW w \in Works, NEW C, SameRow(w)
    PROVE  Steady(w, C) /\ SameInputs(w) /\ SamePlace(w)
BY DEF SameRow, Steady, SameInputs, SamePlace

\* An untouched row stays as its invariant says.
LEMMA SameRowFits ==
    ASSUME NEW w \in Works, RowFit(w), SameRow(w)
    PROVE  RowFit(w)'
BY DEF SameRow, RowFit, Begun, Frozen, FirstTime, Has, NewRow

\* An executor keeps what it knows through the steps of all others (update_claimed compares
\* the owner before it changes a row).
LEMMA OthersFit ==
    ASSUME NEW c \in Claims, NEW C, c # C, ExecFit(c), exec'[c] = exec[c],
           \A w \in Works : Steady(w, C)
    PROVE  ExecFit(c)'
<1> SUFFICES ASSUME exec[c] # Idle
             PROVE  ExecFit(c)'
    BY DEF ExecFit
<1> PICK x : x = exec[c]
    OBVIOUS
<1> PICK w : w = x.work
    OBVIOUS
<1>1. w \in Works /\ Steady(w, C) /\ exec'[c] = x
    BY DEF ExecFit
<1>2. Holds(c)' => /\ Holds(c)
                   /\ row'[w].attempts = row[w].attempts
                   /\ "resuming" \in row'[w].flags <=> "resuming" \in row[w].flags
                   /\ ran'[w] = ran[w]
                   /\ "answered" \in log[w] => "answered" \in log'[w]
    BY <1>1 DEF Holds, ClaimStands, Steady
<1>3. /\ row[w].input \subseteq row'[w].input
      /\ "error" \in log[w] => "error" \in log'[w]
      /\ row[w].status # "none" => row'[w].status # "none"
    BY <1>1 DEF Steady
<1>4. Frozen(w) => (Kind[w] = "reply" => w \in row'[w].input)
    BY <1>3 DEF Frozen
<1> QED
    BY <1>1, <1>2, <1>3, <1>4 DEF ExecFit, Frozen, FirstTime, Has

\* The sweep keeps what it knows (recover_expired).
LEMMA SweepKept ==
    ASSUME SweepFit, sweep' = sweep, NEW C, \A w \in Works : Steady(w, C)
    PROVE  SweepFit'
BY DEF SweepFit, Steady, Has

\* No message changes hands: who has taken which stays true.
LEMMA InputsKept ==
    ASSUME InputsFit, \A w \in Works : SameInputs(w)
    PROVE  InputsFit'
<1>1. \A m \in Works : m \in Has("processed")' <=> m \in Has("processed")
    BY DEF SameInputs, Has
<1>2. \A w \in Works : row'[w].input = row[w].input
    BY DEF SameInputs
<1>3. \A m \in Works : m \in Has("processed")' <=> \E w \in Works : m \in row'[w].input
    BY <1>1, <1>2 DEF InputsFit
<1>4. \A w \in Works : \A v \in Works \ {w} : row'[w].input \cap row'[v].input = {}
    BY <1>2 DEF InputsFit
<1>5. ASSUME NEW w \in Works, row'[w].status = "merged"
      PROVE  /\ row'[w].into \in Works
             /\ w \in row'[row'[w].into].input
             /\ row'[row'[w].into].status # "merged"
    <2>1. row[w].status = "merged" /\ row'[w].into = row[w].into
        BY <1>5 DEF SameInputs
    <2> QED
        BY <2>1 DEF InputsFit, SameInputs
<1> QED
    BY <1>3, <1>4, <1>5 DEF InputsFit

\* Rows that keep or give up their places: the running row stays the first.
LEMMA OrderKept ==
    ASSUME OrderFit, \A w \in Works : SamePlace(w), nextSeq' = nextSeq
    PROVE  OrderFit'
<1>1. \A w \in Works : row'[w].seq = row[w].seq
    BY DEF SamePlace
<1>2. \A w \in Works : w \in Queued' => w \in Queued
    BY DEF SamePlace, Queued
<1>3. \A w \in Works : row'[w].status = "running" => row[w].status = "running"
    BY DEF SamePlace
<1>4. \A w \in Works : row'[w].status # "none" => row[w].status # "none"
    BY DEF SamePlace
<1>5. OneReplyAtATime'
    BY <1>1, <1>2, <1>3 DEF OneReplyAtATime, OrderFit, Queued
<1> QED
    BY <1>1, <1>4, <1>5 DEF OrderFit

\* A row that gets a new sequence number is the last one (allocate_session_reply_sequence).
LEMMA OrderAtEnd ==
    ASSUME TypeOK, OrderFit, NEW w \in Works,
           row'[w].seq = nextSeq, nextSeq' = nextSeq + 1,
           row'[w].status \in {"ready", "cancelled"},
           \A v \in Works \ {w} : row'[v] = row[v]
    PROVE  OrderFit'
<1>1. nextSeq \in Nat /\ \A v \in Works : row[v].seq \in Nat
    BY DEF TypeOK, WorkRow
<1>2. \A v \in Works \ {w} : row'[v].status # "none" => row'[v].seq < nextSeq
    BY DEF OrderFit
<1>3. \A v \in Works : row'[v].status # "none" => row'[v].seq < nextSeq'
    BY <1>1, <1>2
<1>4. \A v \in Works : \A u \in Works \ {v} :
            row'[v].status # "none" /\ row'[u].status # "none" => row'[v].seq # row'[u].seq
    BY <1>1, <1>2 DEF OrderFit
<1>5. ASSUME NEW v \in Works, row'[v].status = "running", NEW u \in Works \ {v}, u \in Queued'
      PROVE  row'[u].seq > row'[v].seq
    <2>1. v # w /\ row'[v] = row[v] /\ row[v].status = "running"
        BY <1>5
    <2>2. CASE u = w
        BY <2>1, <2>2, <1>1, <1>2
    <2>3. CASE u # w
        BY <2>1, <2>3, <1>5 DEF OrderFit, OneReplyAtATime, Queued
    <2> QED
        BY <2>2, <2>3
<1>6. OneReplyAtATime'
    BY <1>5 DEF OneReplyAtATime, Queued
<1> QED
    BY <1>3, <1>4, <1>6 DEF OrderFit

\* The invariant after a step of C, from the facts above (C is Nobody in a step of no executor).
LEMMA Kept ==
    ASSUME ReplyInv, NEW C,
           TypeOK', OrderFit', InputsFit', ToolsFit', SweepFit',
           \A w \in Works : Steady(w, C),
           \A w \in Works : RowFit(w)',
           \A c \in Claims : c # C => exec'[c] = exec[c],
           C \in Claims => ExecFit(C)'
    PROVE  ReplyInv'
<1>1. ASSUME NEW c \in Claims PROVE ExecFit(c)'
    <2>1. CASE c = C
        BY <2>1
    <2>2. CASE c # C
        <3>1. ExecFit(c)
            BY DEF ReplyInv
        <3> QED BY <2>2, <3>1, OthersFit
    <2> QED BY <2>1, <2>2
<1> QED BY <1>1 DEF ReplyInv

\* What an executor that is under way can rely on.
LEMMA ExecutorFacts ==
    ASSUME ReplyInv, NEW c \in Claims, exec[c].pc # "idle"
    PROVE  /\ exec[c] # Idle /\ exec[c] \in Executor /\ ExecFit(c)
           /\ exec[c].work \in Works /\ exec[c].work # NoWork
           /\ row[exec[c].work] \in WorkRow /\ RowFit(exec[c].work)
           /\ log[exec[c].work] \subseteq Entries /\ ran[exec[c].work] \in Nat
<1>1. exec[c] # Idle /\ exec[c] \in Executor /\ ExecFit(c)
    BY DEF ReplyInv, TypeOK, Idle
<1>2. exec[c].work \in Works
    BY <1>1 DEF ExecFit
<1> QED
    BY <1>1, <1>2, ReplyAssumption DEF ReplyInv, TypeOK, NoWork

\* Executors by claim, after one of them has moved.
LEMMA ExecType ==
    ASSUME TypeOK, NEW c \in Claims, NEW x \in Executor, exec' = [exec EXCEPT ![c] = x]
    PROVE  exec' \in [Claims -> Executor] /\ exec'[c] = x /\ \A b \in Claims : b # c => exec'[b] = exec[b]
BY DEF TypeOK

LEMMA GotoMoves ==
    ASSUME TypeOK, NEW c \in Claims, NEW pc \in Phases, Goto(c, pc)
    PROVE  /\ exec' \in [Claims -> Executor]
           /\ exec'[c] \in Executor /\ exec'[c].pc = pc /\ exec'[c].work = exec[c].work
           /\ exec'[c].read = exec[c].read /\ exec'[c].started = exec[c].started
           /\ \A b \in Claims : b # c => exec'[b] = exec[b]
<1>1. exec[c] \in Executor
    BY DEF TypeOK
<1>2. PICK x : x = [exec[c] EXCEPT !.pc = pc]
    OBVIOUS
<1>3. x \in Executor /\ x.pc = pc /\ x.work = exec[c].work /\ x.read = exec[c].read /\ x.started = exec[c].started
    BY <1>1, <1>2 DEF Executor
<1>4. exec' = [exec EXCEPT ![c] = x]
    BY <1>2 DEF Goto
<1> QED
    BY <1>3, <1>4, ExecType

LEMMA ExitMoves ==
    ASSUME TypeOK, NEW c \in Claims, Exit(c)
    PROVE  /\ exec' \in [Claims -> Executor] /\ ExecFit(c)'
           /\ \A b \in Claims : b # c => exec'[b] = exec[b]
<1>1. Idle \in Executor
    BY DEF Idle, Executor, Phases
<1>2. exec' = [exec EXCEPT ![c] = Idle]
    BY DEF Exit
<1>3. exec' \in [Claims -> Executor] /\ exec'[c] = Idle /\ \A b \in Claims : b # c => exec'[b] = exec[b]
    BY <1>1, <1>2, ExecType
<1> QED
    BY <1>3 DEF ExecFit

\* A step that writes no table of works.
NoWrite == UNCHANGED <<row, nextSeq, log, ran>>

\* It leaves what holds of the tables.
LEMMA NoWriteKeeps ==
    ASSUME ReplyInv, NoWrite, NEW C
    PROVE  /\ \A w \in Works : Steady(w, C)
           /\ \A w \in Works : RowFit(w)'
           /\ OrderFit' /\ InputsFit'
<1>1. \A w \in Works : SameRow(w) /\ RowFit(w)
    BY DEF NoWrite, SameRow, ReplyInv
<1>2. \A w \in Works : Steady(w, C) /\ SameInputs(w) /\ SamePlace(w)
    BY <1>1, SameRowIsSteady
<1>3. \A w \in Works : RowFit(w)'
    BY <1>1, SameRowFits
<1>4. OrderFit'
    BY <1>2, OrderKept DEF ReplyInv, NoWrite
<1>5. InputsFit'
    BY <1>2, InputsKept DEF ReplyInv
<1> QED
    BY <1>2, <1>3, <1>4, <1>5

\* A step in which an executor only goes on, or ends.
LEMMA ExecutorMoves ==
    ASSUME ReplyInv, NoWrite, NEW c \in Claims, UNCHANGED <<tasks, sweep>>, faults' \in 0..MaxFaults,
           exec' \in [Claims -> Executor], ExecFit(c)',
           \A b \in Claims : b # c => exec'[b] = exec[b]
    PROVE  ReplyInv'
<1>1. /\ \A w \in Works : Steady(w, c)
      /\ \A w \in Works : RowFit(w)'
      /\ OrderFit' /\ InputsFit'
    BY NoWriteKeeps
<1>2. TypeOK'
    BY DEF ReplyInv, TypeOK, NoWrite, tasks
<1>3. ToolsFit'
    BY DEF ReplyInv, ToolsFit, tasks
<1>4. SweepFit'
    BY <1>1, SweepKept DEF ReplyInv
<1> QED
    BY <1>1, <1>2, <1>3, <1>4, Kept

\* An executor that goes on to pc knows what it must know there.
LEMMA GotoFits ==
    ASSUME ReplyInv, NEW c \in Claims, NEW w \in Works, exec[c].work = w, exec[c] # Idle, exec'[c] \in Executor,
           exec'[c].work = w, NoWrite, NEW pc \in Phases \ {"idle", "claimed"}, exec'[c].pc = pc,
           pc \in {"freeze", "merge"} => Kind[w] = "reply",
           pc = "tools" => Kind[w] = "confirmed",
           pc = "release" => Kind[w] # "confirmed",
           pc \in {"reply", "absorb", "suspend", "deliver", "finish"} => Frozen(w),
           pc \in {"merge", "absorb"} => \A v \in exec'[c].read : Kind[v] = "reply",
           pc = "mark" => w \in Has("error"),
           Holds(c) /\ pc = "merge" => w \in exec'[c].read,
           Holds(c) /\ pc = "release" => row[w].attempts < MaxAttempts,
           Holds(c) /\ pc = "tools" => ran[w] = 0,
           Holds(c) /\ pc \in {"deliver", "finish"} => w \in Has("answered")
    PROVE  ExecFit(c)'
<1>1. row' = row /\ log' = log /\ ran' = ran
    BY DEF NoWrite
<1>2. Holds(c)' <=> Holds(c)
    BY <1>1 DEF Holds, ClaimStands
<1>3. row[w].status # "none" /\ pc # "claimed"
    BY DEF ReplyInv, ExecFit
<1> QED
    BY <1>1, <1>2, <1>3 DEF ExecFit, Frozen, Has

-----------------------------------------------------------------------------
(* Steps that write no work *)

LEMMA FaultType == ASSUME TypeOK, Fault \/ UNCHANGED faults PROVE faults' \in 0..MaxFaults
BY ReplyAssumption DEF TypeOK, Fault

\* An executor that ends without a write (its claim is lost, its process is gone).
LEMMA ExitKeeps ==
    ASSUME ReplyInv, NoWrite, NEW c \in Claims, Exit(c), UNCHANGED <<tasks, sweep>>, Fault \/ UNCHANGED faults
    PROVE  ReplyInv'
<1>1. TypeOK
    BY DEF ReplyInv
<1>2. faults' \in 0..MaxFaults
    BY <1>1, FaultType
<1> QED
    BY <1>1, <1>2, ExitMoves, ExecutorMoves

\* execute_session_reply_work, the choice of what is left to do.
LEMMA BeginKeeps == ASSUME ReplyInv, NEW c \in Claims, Begin(c) PROVE ReplyInv'
<1>1. PICK w : w = exec[c].work
    OBVIOUS
<1>2. exec[c].pc = "claimed" /\ NoWrite /\ UNCHANGED <<tasks, sweep, faults>>
    BY DEF Begin, NoWrite
<1>3. /\ exec[c] # Idle /\ ExecFit(c) /\ w \in Works /\ RowFit(w) /\ TypeOK
    BY <1>1, <1>2, ExecutorFacts DEF ReplyInv
<1>4. CASE Exit(c)
    BY <1>2, <1>4, ExitKeeps
<1>5. CASE Holds(c) /\ ~Exit(c)
    <2>1. Kind[w] \in {"reply", "confirmed", "summary"}
        BY <1>3, ReplyAssumption
    <2>2. PICK pc \in {"deliver", "reply", "freeze", "tools"} :
              /\ Goto(c, pc)
              /\ pc = "deliver" => w \in Has("answered")
              /\ pc = "reply" => Begun(w) \/ Kind[w] = "summary"
              /\ pc = "freeze" => Kind[w] = "reply"
              /\ pc = "tools" => Kind[w] = "confirmed" /\ "resuming" \notin row[w].flags
        BY <1>1, <1>2, <1>5, <2>1 DEF Begin, Begun
    <2>3. pc \in Phases /\ pc \in Phases \ {"idle", "claimed"}
        BY DEF Phases
    <2>4. /\ exec' \in [Claims -> Executor]
          /\ exec'[c] \in Executor /\ exec'[c].pc = pc /\ exec'[c].work = w
          /\ \A b \in Claims : b # c => exec'[b] = exec[b]
        BY <1>1, <1>3, <2>2, <2>3, GotoMoves
    <2>5. pc \in {"reply", "deliver"} => Frozen(w)
        BY <1>3, <2>2 DEF RowFit, Begun, Frozen
    <2>6. pc = "tools" => ran[w] = 0
        BY <1>1, <1>2, <1>3, <1>5, <2>2 DEF ExecFit, FirstTime
    <2>7. ExecFit(c)'
        BY <1>1, <1>2, <1>3, <2>2, <2>3, <2>4, <2>5, <2>6, GotoFits
    <2>8. faults' \in 0..MaxFaults
        BY <1>2, <1>3, FaultType
    <2> QED
        BY <1>2, <2>4, <2>7, <2>8, ExecutorMoves
<1> QED
    BY <1>4, <1>5, <1>2 DEF Begin

\* freeze_foreground_input, the rows are listed.
LEMMA FreezeReadKeeps == ASSUME ReplyInv, NEW c \in Claims, FreezeRead(c) PROVE ReplyInv'
<1>1. PICK w : w = exec[c].work
    OBVIOUS
<1>2. exec[c].pc = "freeze" /\ NoWrite /\ UNCHANGED <<tasks, sweep, faults>>
    BY DEF FreezeRead, NoWrite
<1>3. /\ exec[c] # Idle /\ exec[c] \in Executor /\ ExecFit(c) /\ w \in Works /\ TypeOK /\ Kind[w] = "reply"
      /\ row[w] \in WorkRow
    BY <1>1, <1>2, ExecutorFacts DEF ReplyInv, ExecFit
<1>4. PICK items : items = Contiguous(w)
    OBVIOUS
<1>5. PICK y : /\ exec' = [exec EXCEPT ![c] = y]
               /\ \/ y = [exec[c] EXCEPT !.pc = "merge", !.read = items]
                  \/ y = [exec[c] EXCEPT !.pc = "error"]
    BY <1>1, <1>4 DEF FreezeRead
<1>6. items \subseteq Works /\ \A v \in items : Kind[v] = "reply"
    BY <1>4 DEF Contiguous, Queued
<1>7. Holds(c) => w \in items
    <2>1. row[w].seq \in Nat
        BY <1>3 DEF WorkRow
    <2>2. Holds(c) => w \in Queued
        BY <1>1, <1>3 DEF Holds, ClaimStands, Queued
    <2> QED
        BY <1>3, <1>4, <2>1, <2>2 DEF Contiguous
<1>8. y \in Executor /\ y.work = w /\ y.pc \in {"merge", "error"} /\ (y.pc = "merge" => y.read = items)
    BY <1>1, <1>3, <1>5, <1>6 DEF Executor, Phases
<1>9. /\ exec' \in [Claims -> Executor] /\ exec'[c] = y
       /\ \A b \in Claims : b # c => exec'[b] = exec[b]
    BY <1>3, <1>5, <1>8, ExecType
<1>10. PICK pc : pc = exec'[c].pc
    OBVIOUS
<1>11. pc \in Phases \ {"idle", "claimed"}
    BY <1>8, <1>9, <1>10 DEF Phases
<1>12. ExecFit(c)'
    BY <1>1, <1>2, <1>3, <1>6, <1>7, <1>8, <1>9, <1>10, <1>11, GotoFits
<1>13. faults' \in 0..MaxFaults
    BY <1>2, <1>3, FaultType
<1> QED
    BY <1>2, <1>9, <1>12, <1>13, ExecutorMoves

\* absorb_contiguous_foreground_messages, the look at what has arrived.
LEMMA AbsorbReadKeeps == ASSUME ReplyInv, NEW c \in Claims, AbsorbRead(c) PROVE ReplyInv'
<1>1. PICK w : w = exec[c].work
    OBVIOUS
<1>2. exec[c].pc = "reply" /\ NoWrite /\ UNCHANGED <<tasks, sweep, faults>>
    BY DEF AbsorbRead, Interactive, NoWrite
<1>3. /\ exec[c] # Idle /\ exec[c] \in Executor /\ ExecFit(c) /\ w \in Works /\ TypeOK /\ Frozen(w)
    BY <1>1, <1>2, ExecutorFacts DEF ReplyInv, ExecFit
<1>4. PICK more : more = {v \in Contiguous(w) \ {w} : row[v].status = "ready"}
    OBVIOUS
<1>5. PICK x : x = [exec[c] EXCEPT !.pc = "absorb", !.read = more]
    OBVIOUS
<1>6. exec' = [exec EXCEPT ![c] = x]
    BY <1>1, <1>4, <1>5 DEF AbsorbRead
<1>7. more \subseteq Works /\ \A v \in more : Kind[v] = "reply"
    BY <1>4 DEF Contiguous, Queued
<1>8. x \in Executor /\ x.work = w /\ x.pc = "absorb" /\ x.read = more
    BY <1>1, <1>3, <1>5, <1>7 DEF Executor, Phases
<1>9. /\ exec' \in [Claims -> Executor] /\ exec'[c] = x
      /\ \A b \in Claims : b # c => exec'[b] = exec[b]
    BY <1>3, <1>6, <1>8, ExecType
<1>10. "absorb" \in Phases \ {"idle", "claimed"}
    BY DEF Phases
<1>11. ExecFit(c)'
    BY <1>1, <1>2, <1>3, <1>7, <1>8, <1>9, <1>10, GotoFits
<1>12. faults' \in 0..MaxFaults
    BY <1>2, <1>3, FaultType
<1> QED
    BY <1>2, <1>9, <1>11, <1>12, ExecutorMoves

\* Deliver, Errs and Handle: an executor goes from one phase to another.
LEMMA PhaseKeeps ==
    ASSUME ReplyInv, NEW c \in Claims, Deliver(c) \/ Errs(c) \/ Handle(c)
    PROVE  ReplyInv'
<1>1. PICK w : w = exec[c].work
    OBVIOUS
<1>2. exec[c].pc \in {"deliver", "reply", "error"} /\ NoWrite /\ UNCHANGED <<tasks, sweep>> /\ (Fault \/ UNCHANGED faults)
    BY DEF Deliver, Errs, Handle, NoWrite, Fenced, tasks
<1>3. /\ exec[c] # Idle /\ exec[c] \in Executor /\ ExecFit(c) /\ w \in Works /\ TypeOK /\ row[w] \in WorkRow
    BY <1>1, <1>2, ExecutorFacts DEF ReplyInv
<1>4. CASE Exit(c)
    BY <1>2, <1>4, ExitKeeps
<1>5. CASE ~Exit(c)
    <2>1. PICK pc \in {"finish", "error", "fail", "release"} :
              /\ Goto(c, pc)
              /\ pc = "finish" => exec[c].pc = "deliver"
              /\ pc = "release" => ~NoRetry(w)
        BY <1>1, <1>5 DEF Deliver, Errs, Handle, Fenced
    <2>2. pc \in Phases /\ pc \in Phases \ {"idle", "claimed"}
        BY DEF Phases
    <2>3. /\ exec' \in [Claims -> Executor]
          /\ exec'[c] \in Executor /\ exec'[c].pc = pc /\ exec'[c].work = w
          /\ \A b \in Claims : b # c => exec'[b] = exec[b]
        BY <1>1, <1>3, <2>1, <2>2, GotoMoves
    <2>4. pc = "release" => Kind[w] # "confirmed" /\ row[w].attempts < MaxAttempts
        BY <1>3, <2>1, ReplyAssumption DEF NoRetry, WorkRow
    <2>5. pc = "finish" => Frozen(w) /\ (Holds(c) => w \in Has("answered"))
        BY <1>1, <1>3, <2>1 DEF ExecFit
    <2>6. ExecFit(c)'
        BY <1>1, <1>2, <1>3, <2>1, <2>2, <2>3, <2>4, <2>5, GotoFits
    <2>7. faults' \in 0..MaxFaults
        BY <1>2, <1>3, FaultType
    <2> QED
        BY <1>2, <2>3, <2>6, <2>7, ExecutorMoves
<1> QED
    BY <1>4, <1>5

\* A step of the sweep, or of the background manager, that writes no work.
LEMMA OutsideKeeps ==
    ASSUME ReplyInv, NoWrite, UNCHANGED exec, faults' \in 0..MaxFaults, TypeOK', SweepFit', ToolsFit'
    PROVE  ReplyInv'
<1>1. /\ \A w \in Works : Steady(w, Nobody)
      /\ \A w \in Works : RowFit(w)'
      /\ OrderFit' /\ InputsFit'
    BY NoWriteKeeps
<1>2. Nobody \notin Claims
    BY ReplyAssumption
<1> QED
    BY <1>1, <1>2, Kept

\* recover_expired reads an expired row.
LEMMA RecoverReadKeeps == ASSUME ReplyInv, NEW w \in Works, RecoverRead(w) PROVE ReplyInv'
<1>1. NoWrite /\ UNCHANGED <<exec, tasks, faults>>
    BY DEF RecoverRead, NoWrite
<1>2. TypeOK /\ row[w] \in WorkRow /\ row[w].status = "running"
    BY DEF RecoverRead, ReplyInv, TypeOK
<1>3. sweep' = [pc |-> IF NoRetry(w) THEN "fail" ELSE "retry", work |-> w, owner |-> row[w].owner]
    BY DEF RecoverRead
<1>4. sweep' \in [pc: {"idle", "retry", "fail", "mark"}, work: Works \cup {NoWork}, owner: Claims \cup {Nobody}]
    BY <1>2, <1>3 DEF WorkRow
<1>5. TypeOK' /\ faults' \in 0..MaxFaults
    BY <1>1, <1>2, <1>4 DEF TypeOK, NoWrite, tasks
<1>6. SweepFit'
    BY <1>1, <1>2, <1>3 DEF SweepFit, NoWrite, NoRetry
<1>7. ToolsFit'
    BY <1>1 DEF ReplyInv, ToolsFit, tasks
<1> QED
    BY <1>1, <1>5, <1>6, <1>7, OutsideKeeps

\* The sweeping process dies.
LEMMA SweepStopsKeeps == ASSUME ReplyInv, SweepStops PROVE ReplyInv'
<1>1. NoWrite /\ UNCHANGED <<exec, tasks>> /\ sweep' = NoSweep /\ Fault /\ TypeOK
    BY DEF SweepStops, NoWrite, ReplyInv
<1>2. TypeOK' /\ faults' \in 0..MaxFaults
    BY <1>1, FaultType DEF TypeOK, NoWrite, tasks, NoSweep
<1>3. SweepFit' /\ ToolsFit'
    BY <1>1 DEF ReplyInv, SweepFit, ToolsFit, tasks
<1> QED
    BY <1>1, <1>2, <1>3, OutsideKeeps

\* A background task ends, and its runner dies before it has told the work.
LEMMA TaskKeeps == ASSUME ReplyInv, NEW t \in Tools, TaskEnds(t) \/ LoseNotice(t) PROVE ReplyInv'
<1>1. NoWrite /\ UNCHANGED <<exec, sweep>> /\ TypeOK /\ (Fault \/ UNCHANGED faults)
    BY DEF TaskEnds, LoseNotice, NoWrite, ReplyInv
<1>2. faults' \in 0..MaxFaults
    BY <1>1, FaultType
<1>3. tool[t] \in Task
    BY <1>1 DEF TypeOK
<1>4. tool' \in [Tools -> Task] /\ notices' \subseteq Tools
    BY <1>1, <1>3 DEF TypeOK, TaskEnds, LoseNotice, Task
<1>5. TypeOK'
    BY <1>1, <1>2, <1>4 DEF TypeOK, NoWrite
<1>6. ToolsFit'
    BY <1>1 DEF ReplyInv, ToolsFit, TaskEnds, LoseNotice, TypeOK, Task
<1>7. SweepFit'
    BY <1>1 DEF ReplyInv, SweepFit, NoWrite, Has
<1> QED
    BY <1>1, <1>2, <1>5, <1>6, <1>7, OutsideKeeps

-----------------------------------------------------------------------------
(* Steps that write one work *)

\* The tables are as they must be after a step of C, whatever else it does.
Passes(C) ==
    /\ row' \in [Works -> WorkRow] /\ log' \in [Works -> SUBSET Entries] /\ ran' \in [Works -> Nat]
    /\ nextSeq' \in Nat \ {0}
    /\ OrderFit' /\ InputsFit'
    /\ \A w \in Works : RowFit(w)'
    /\ \A w \in Works : Steady(w, C)

\* The step of an executor that leaves the sweep and the background tasks alone.
LEMMA ExecutorWrites ==
    ASSUME ReplyInv, NEW c \in Claims, Passes(c), UNCHANGED <<tasks, sweep>>, Fault \/ UNCHANGED faults,
           exec' \in [Claims -> Executor], ExecFit(c)',
           \A b \in Claims : b # c => exec'[b] = exec[b]
    PROVE  ReplyInv'
<1>1. faults' \in 0..MaxFaults
    BY FaultType DEF ReplyInv
<1>2. SweepFit' /\ ToolsFit'
    BY SweepKept DEF ReplyInv, Passes, ToolsFit, tasks
<1>3. TypeOK'
    BY <1>1 DEF ReplyInv, TypeOK, Passes, tasks
<1> QED
    BY <1>2, <1>3, Kept DEF Passes

\* The step of somebody else (the sweep, the background manager, the API process).
LEMMA OutsideWrites ==
    ASSUME ReplyInv, Passes(Nobody), UNCHANGED exec, Fault \/ UNCHANGED faults,
           tool' \in [Tools -> Task], notices' \subseteq Tools, ToolsFit',
           sweep' \in {sweep, NoSweep} \/ (/\ sweep' = [sweep EXCEPT !.pc = "mark"]
                                           /\ sweep # NoSweep /\ "error" \in log'[sweep.work])
    PROVE  ReplyInv'
<1>1. faults' \in 0..MaxFaults
    BY FaultType DEF ReplyInv
<1>2. SweepFit'
    <2>1. CASE sweep' = sweep
        BY <2>1, SweepKept DEF ReplyInv, Passes
    <2>2. CASE sweep' = NoSweep
        BY <2>2 DEF SweepFit
    <2>3. CASE sweep' = [sweep EXCEPT !.pc = "mark"] /\ sweep # NoSweep /\ "error" \in log'[sweep.work]
        <3>1. sweep'.pc = "mark" /\ sweep'.work = sweep.work
            BY <2>3 DEF ReplyInv, TypeOK
        <3>2. sweep.work \in Works /\ row[sweep.work].status # "none"
            BY <2>3 DEF ReplyInv, SweepFit
        <3>3. row'[sweep.work].status # "none"
            BY <3>2 DEF Passes, Steady
        <3> QED BY <2>3, <3>1, <3>2, <3>3 DEF SweepFit, Has
    <2> QED BY <2>1, <2>2, <2>3
<1>3. sweep' \in [pc: {"idle", "retry", "fail", "mark"}, work: Works \cup {NoWork}, owner: Claims \cup {Nobody}]
    BY DEF ReplyInv, TypeOK, NoSweep
<1>4. TypeOK'
    BY <1>1, <1>3 DEF ReplyInv, TypeOK, Passes
<1>5. Nobody \notin Claims
    BY ReplyAssumption
<1> QED
    BY <1>2, <1>4, <1>5, Kept DEF Passes

LEMMA TasksAlone ==
    ASSUME ReplyInv, UNCHANGED tasks
    PROVE  tool' \in [Tools -> Task] /\ notices' \subseteq Tools /\ ToolsFit'
BY DEF ReplyInv, TypeOK, ToolsFit, tasks

\* An UPDATE of one row and what is saved with it, the row's place and input excepted.
Update(w, r, l, n) ==
    /\ row' = [row EXCEPT ![w] = r] /\ log' = [log EXCEPT ![w] = l] /\ ran' = [ran EXCEPT ![w] = n]
    /\ nextSeq' = nextSeq

\* What such a row, its log and its count of starts may become in a step of C.
MayBecome(C, w, r, l, n) ==
    /\ r \in WorkRow /\ l \in SUBSET Entries /\ n \in Nat
    /\ r.input = row[w].input /\ r.into = row[w].into /\ r.seq = row[w].seq
    /\ r.status # "none" /\ row[w].status # "none"
    /\ r.status = "merged" <=> row[w].status = "merged"
    /\ "processed" \in l <=> "processed" \in log[w]
    /\ "error" \in log[w] => "error" \in l
    /\ r.status \in {"ready", "running"} => row[w].status \in {"ready", "running"}
    /\ r.status \in {"ready", "running", "waiting", "succeeded"} =>
            row[w].status \in {"ready", "running", "waiting", "succeeded"}
    /\ r.status = "ready" => r.attempts < MaxAttempts
    /\ r.status \in {"waiting", "succeeded"} \/ "resuming" \in r.flags \/ "answered" \in l => Frozen(w)
    /\ n <= 1
    /\ r.status = "ready" /\ Kind[w] = "confirmed" /\ "resuming" \notin r.flags => n = 0
    /\ r.status = "succeeded" => "answered" \in l
    /\ r.status = "failed" => "error" \in l
    /\ r.status = "running" =>
            /\ row[w].status = "running"
            /\ r.owner # C => /\ r.owner = row[w].owner /\ r.attempts = row[w].attempts
                              /\ "resuming" \in r.flags <=> "resuming" \in row[w].flags
                              /\ n = ran[w]
                              /\ "answered" \in log[w] => "answered" \in l

LEMMA OneWork ==
    ASSUME ReplyInv, NEW C, NEW w \in Works, NEW r, NEW l, NEW n,
           Update(w, r, l, n), MayBecome(C, w, r, l, n)
    PROVE  /\ Passes(C)
           /\ row'[w] = r /\ log'[w] = l /\ ran'[w] = n
<1>1. r \in WorkRow /\ l \in SUBSET Entries /\ n \in Nat
    BY DEF MayBecome
<1>2. row \in [Works -> WorkRow] /\ log \in [Works -> SUBSET Entries] /\ ran \in [Works -> Nat] /\ nextSeq \in Nat \ {0}
    BY DEF ReplyInv, TypeOK
<1>3. row' \in [Works -> WorkRow] /\ log' \in [Works -> SUBSET Entries] /\ ran' \in [Works -> Nat]
    BY <1>1, <1>2 DEF Update
<1>4. /\ row'[w] = r /\ log'[w] = l /\ ran'[w] = n
      /\ \A v \in Works \ {w} : SameRow(v)
    BY <1>2 DEF SameRow, Update
<1>5. Steady(w, C)
    BY <1>4 DEF Steady, MayBecome
<1>6. SameInputs(w) /\ SamePlace(w)
    BY <1>4 DEF SameInputs, SamePlace, MayBecome
<1>7. RowFit(w)'
    <2>1. RowFit(w)
        BY DEF ReplyInv
    <2>2. Frozen(w)' <=> Frozen(w)
        BY <1>4 DEF Frozen, MayBecome
    <2>3. Begun(w)' => Frozen(w)
        BY <1>4, <2>1 DEF Begun, RowFit, Has, MayBecome
    <2>4. (row[w].status \in {"ready", "running", "waiting", "succeeded"} /\ w \in Has("processed") =>
            w \in row[w].input)'
        BY <1>4, <2>1 DEF RowFit, Has, MayBecome
    <2> QED
        BY <1>4, <2>2, <2>3, <2>4 DEF RowFit, FirstTime, Has, MayBecome
<1>8. \A v \in Works : Steady(v, C) /\ SameInputs(v) /\ SamePlace(v) /\ RowFit(v)'
    <2> SUFFICES ASSUME NEW v \in Works, v # w
                 PROVE  Steady(v, C) /\ SameInputs(v) /\ SamePlace(v) /\ RowFit(v)'
        BY <1>5, <1>6, <1>7
    <2>1. SameRow(v)
        BY <1>4
    <2>2. RowFit(v)
        BY DEF ReplyInv
    <2> QED BY <2>1, <2>2, SameRowIsSteady, SameRowFits
<1>9. nextSeq' = nextSeq
    BY DEF Update
<1>10. OrderFit' /\ InputsFit'
    BY <1>8, <1>9, OrderKept, InputsKept DEF ReplyInv
<1> QED
    BY <1>2, <1>3, <1>4, <1>8, <1>9, <1>10 DEF Passes

\* A flag of a running row that says nothing of a resumption: its lock has run out or was
\* renewed, an audited round is under way or over.
LEMMA FlagsPass ==
    ASSUME ReplyInv, NEW C, NEW w \in Works, row[w].status = "running", NEW F \in SUBSET Flags,
           row' = [row EXCEPT ![w].flags = F], "resuming" \in F <=> "resuming" \in row[w].flags,
           UNCHANGED <<log, ran, nextSeq>>
    PROVE  /\ Passes(C)
           /\ row'[w] = [row[w] EXCEPT !.flags = F]
<1>1. /\ row \in [Works -> WorkRow] /\ row[w] \in WorkRow /\ log \in [Works -> SUBSET Entries]
      /\ ran \in [Works -> Nat] /\ RowFit(w)
    BY DEF ReplyInv, TypeOK
<1>2. PICK r : r = [row[w] EXCEPT !.flags = F]
    OBVIOUS
<1>3. /\ r \in WorkRow /\ r.status = "running" /\ r.input = row[w].input /\ r.into = row[w].into /\ r.seq = row[w].seq
      /\ r.owner = row[w].owner /\ r.attempts = row[w].attempts /\ r.flags = F
    BY <1>1, <1>2 DEF WorkRow
<1>4. Update(w, r, log[w], ran[w])
    BY <1>1, <1>2 DEF Update
<1>5. "resuming" \in F \/ "answered" \in log[w] => Frozen(w)
    BY <1>1 DEF RowFit, Begun, Has
<1>6. ran[w] <= 1
    BY <1>1 DEF RowFit
<1>7. log[w] \in SUBSET Entries /\ ran[w] \in Nat
    BY <1>1
<1>8. MayBecome(C, w, r, log[w], ran[w])
    BY <1>3, <1>5, <1>6, <1>7 DEF MayBecome
<1> QED
    BY <1>2, <1>4, <1>8, OneWork

\* A running row leaves that status: it ends, or goes back to the queue (mark_terminal,
\* release_for_retry, recover_expired).
LEMMA UnlockPasses ==
    ASSUME ReplyInv, NEW C, NEW w \in Works, row[w].status = "running",
           NEW s \in {"ready", "succeeded", "failed"},
           row' = [row EXCEPT ![w] = Unlocked(w, s)],
           UNCHANGED <<log, ran, nextSeq>>,
           s = "ready" => Kind[w] # "confirmed" /\ row[w].attempts < MaxAttempts,
           s = "succeeded" => Frozen(w) /\ "answered" \in log[w],
           s = "failed" => "error" \in log[w]
    PROVE  /\ Passes(C)
           /\ row'[w].status = s
<1>1. /\ row \in [Works -> WorkRow] /\ row[w] \in WorkRow /\ log \in [Works -> SUBSET Entries]
      /\ ran \in [Works -> Nat] /\ RowFit(w)
    BY DEF ReplyInv, TypeOK
<1>2. PICK r : r = Unlocked(w, s)
    OBVIOUS
<1>3. /\ r \in WorkRow /\ r.status = s /\ r.input = row[w].input /\ r.into = row[w].into /\ r.seq = row[w].seq
      /\ r.attempts = row[w].attempts /\ r.flags = row[w].flags \ {"lapsed"}
    BY <1>1, <1>2 DEF WorkRow, Unlocked, Statuses
<1>4. Update(w, r, log[w], ran[w])
    BY <1>1, <1>2 DEF Update
<1>5. "resuming" \in r.flags \/ "answered" \in log[w] => Frozen(w)
    BY <1>1, <1>3 DEF RowFit, Begun, Has
<1>6. ran[w] <= 1
    BY <1>1 DEF RowFit
<1>7. log[w] \in SUBSET Entries /\ ran[w] \in Nat
    BY <1>1
<1>8. MayBecome(C, w, r, log[w], ran[w])
    BY <1>3, <1>5, <1>6, <1>7 DEF MayBecome
<1> QED
    BY <1>3, <1>4, <1>8, OneWork

\* Something more is saved about a work whose claim stands: a stream event, the final message, the
\* error message.
LEMMA NotePasses ==
    ASSUME ReplyInv, NEW C, NEW w \in Works, NEW e \in {"streamed", "answered", "error"},
           row[w].status = "running", Note(w, e), UNCHANGED <<row, ran, nextSeq>>,
           e = "answered" => Frozen(w)
    PROVE  /\ Passes(C)
           /\ log'[w] = log[w] \cup {e}
<1>1. /\ row \in [Works -> WorkRow] /\ row[w] \in WorkRow /\ log \in [Works -> SUBSET Entries]
      /\ ran \in [Works -> Nat] /\ RowFit(w)
    BY DEF ReplyInv, TypeOK
<1>2. PICK l : l = log[w] \cup {e}
    OBVIOUS
<1>3. l \in SUBSET Entries
    BY <1>1, <1>2 DEF Entries
<1>4. Update(w, row[w], l, ran[w])
    BY <1>1, <1>2 DEF Note, Update
<1>5. "resuming" \in row[w].flags \/ "answered" \in l => Frozen(w)
    BY <1>1, <1>2 DEF RowFit, Begun, Has
<1>6. ran[w] <= 1
    BY <1>1 DEF RowFit
<1>7. log[w] \in SUBSET Entries /\ ran[w] \in Nat
    BY <1>1
<1>8. /\ "processed" \in l <=> "processed" \in log[w]
      /\ "error" \in log[w] => "error" \in l
      /\ "answered" \in log[w] => "answered" \in l
    BY <1>2
<1>9. MayBecome(C, w, row[w], l, ran[w])
    BY <1>1, <1>2, <1>3, <1>5, <1>6, <1>7, <1>8 DEF MayBecome
<1> QED
    BY <1>2, <1>4, <1>9, OneWork

LEMMA NoWritePasses == ASSUME ReplyInv, NoWrite, NEW C PROVE Passes(C)
<1>1. /\ \A w \in Works : Steady(w, C)
      /\ \A w \in Works : RowFit(w)'
      /\ OrderFit' /\ InputsFit'
    BY NoWriteKeeps
<1> QED
    BY <1>1 DEF Passes, NoWrite, ReplyInv, TypeOK

\* An executor that goes on after a write.
LEMMA WriterFits ==
    ASSUME ReplyInv, NEW c \in Claims, Passes(c), NEW w \in Works, exec[c].work = w, exec[c] # Idle,
           exec'[c].work = w, NEW pc \in {"reply", "recheck", "suspend", "deliver", "mark", "error"}, exec'[c].pc = pc,
           pc \in {"reply", "suspend", "deliver"} /\ Kind[w] = "reply" => w \in row'[w].input,
           pc = "deliver" => "answered" \in log'[w],
           pc = "mark" => "error" \in log'[w]
    PROVE  ExecFit(c)'
<1>1. row[w].status # "none"
    BY DEF ReplyInv, ExecFit
<1>2. row'[w].status # "none"
    BY <1>1 DEF Passes, Steady
<1> QED
    BY <1>2 DEF ExecFit, Frozen, Has

\* lock_until passes.
LEMMA LapseKeeps == ASSUME ReplyInv, NEW w \in Works, Lapse(w) PROVE ReplyInv'
<1>1. PICK F : F = row[w].flags \cup {"lapsed"}
    OBVIOUS
<1>2. F \in SUBSET Flags /\ ("resuming" \in F <=> "resuming" \in row[w].flags)
    BY <1>1 DEF ReplyInv, TypeOK, WorkRow, Flags
<1>3. /\ row[w].status = "running" /\ row' = [row EXCEPT ![w].flags = F]
      /\ UNCHANGED <<nextSeq, log, ran, tasks, exec, sweep>> /\ (Fault \/ UNCHANGED faults)
    BY <1>1 DEF Lapse
<1>4. Passes(Nobody)
    BY <1>2, <1>3, FlagsPass
<1> QED
    BY <1>3, <1>4, TasksAlone, OutsideWrites

\* renew_active_claims
LEMMA RenewKeeps == ASSUME ReplyInv, NEW c \in Claims, Renew(c) PROVE ReplyInv'
<1>1. PICK w : w = exec[c].work
    OBVIOUS
<1>2. w \in Works
    BY <1>1 DEF Renew, ReplyInv, ExecFit
<1>3. PICK F : F = row[w].flags \ {"lapsed"}
    OBVIOUS
<1>4. F \in SUBSET Flags /\ ("resuming" \in F <=> "resuming" \in row[w].flags)
    BY <1>2, <1>3 DEF ReplyInv, TypeOK, WorkRow, Flags
<1>5. /\ row[w].status = "running" /\ row' = [row EXCEPT ![w].flags = F]
      /\ UNCHANGED <<nextSeq, log, ran, tasks, exec, sweep, faults>>
    BY <1>1, <1>3 DEF Renew, Holds, ClaimStands
<1>6. Passes(Nobody)
    BY <1>2, <1>4, <1>5, FlagsPass
<1> QED
    BY <1>5, <1>6, TasksAlone, OutsideWrites

\* recover_expired returns a row to the queue, fail_session_reply_work marks one for the sweep.
LEMMA RecoverRowKeeps == ASSUME ReplyInv, RecoverRetry \/ RecoverMark PROVE ReplyInv'
<1>1. PICK w : w = sweep.work
    OBVIOUS
<1>2. /\ sweep' = NoSweep /\ UNCHANGED <<nextSeq, log, ran, tasks, exec, faults>> /\ sweep # NoSweep
    BY DEF RecoverRetry, RecoverMark, NoSweep
<1>3. w \in Works /\ SweepFit
    BY <1>1, <1>2 DEF ReplyInv, SweepFit
<1>4. Passes(Nobody)
    <2>1. CASE UNCHANGED row
        BY <1>2, <2>1, NoWritePasses DEF NoWrite
    <2>2. CASE row' # row
        <3>1. PICK s \in {"ready", "failed"} :
                  /\ row[w].status = "running" /\ row' = [row EXCEPT ![w] = Unlocked(w, s)]
                  /\ s = "ready" => sweep.pc = "retry" /\ row[w].attempts < MaxAttempts
                  /\ s = "failed" => sweep.pc = "mark"
            BY <1>1, <2>2 DEF RecoverRetry, RecoverMark, Ended, ClaimStands
        <3>2. /\ s = "ready" => Kind[w] # "confirmed"
              /\ s = "failed" => "error" \in log[w]
            BY <1>1, <1>2, <1>3, <3>1 DEF SweepFit, Has
        <3> QED
            BY <1>2, <1>3, <3>1, <3>2, UnlockPasses
    <2> QED BY <2>1, <2>2
<1> QED
    BY <1>2, <1>4, TasksAlone, OutsideWrites

\* fail_session_reply_work saves the error message for the sweep.
LEMMA RecoverFailKeeps == ASSUME ReplyInv, RecoverFail PROVE ReplyInv'
<1>1. PICK w : w = sweep.work
    OBVIOUS
<1>2. UNCHANGED <<row, nextSeq, ran, tasks, exec, faults>> /\ sweep # NoSweep
    BY DEF RecoverFail, NoSweep
<1>3. w \in Works
    BY <1>1, <1>2 DEF ReplyInv, SweepFit
<1>4. CASE ClaimStands(w, sweep.owner)
    <2>1. row[w].status = "running" /\ Note(w, "error") /\ sweep' = [sweep EXCEPT !.pc = "mark"]
        BY <1>1, <1>4 DEF RecoverFail, ClaimStands
    <2>2. Passes(Nobody) /\ log'[w] = log[w] \cup {"error"}
        BY <1>2, <1>3, <2>1, NotePasses
    <2> QED
        BY <1>1, <1>2, <2>1, <2>2, TasksAlone, OutsideWrites
<1>5. CASE ~ClaimStands(w, sweep.owner)
    <2>1. NoWrite /\ sweep' = NoSweep
        BY <1>1, <1>2, <1>5 DEF RecoverFail, NoWrite
    <2> QED
        BY <1>2, <2>1, NoWritePasses, TasksAlone, OutsideWrites
<1> QED
    BY <1>4, <1>5

\* The executor hands its row back or fails it (release_for_retry, mark_terminal).
LEMMA LeaveKeeps == ASSUME ReplyInv, NEW c \in Claims, Release(c) \/ MarkFailed(c) PROVE ReplyInv'
<1>1. PICK w : w = exec[c].work
    OBVIOUS
<1>2. /\ exec[c].pc \in {"release", "mark"} /\ Exit(c)
      /\ UNCHANGED <<nextSeq, log, ran, tasks, sweep, faults>>
    BY DEF Release, MarkFailed
<1>3. /\ exec[c] # Idle /\ ExecFit(c) /\ w \in Works /\ TypeOK
    BY <1>1, <1>2, ExecutorFacts DEF ReplyInv
<1>4. CASE UNCHANGED row
    BY <1>2, <1>4, ExitKeeps DEF NoWrite
<1>5. CASE row' # row
    <2>1. PICK s \in {"ready", "failed"} :
              /\ Holds(c) /\ row[w].status = "running" /\ row' = [row EXCEPT ![w] = Unlocked(w, s)]
              /\ s = "ready" => exec[c].pc = "release"
              /\ s = "failed" => exec[c].pc = "mark"
        BY <1>1, <1>5 DEF Release, MarkFailed, Ended, ClaimStands, Holds
    <2>2. /\ s = "ready" => Kind[w] # "confirmed" /\ row[w].attempts < MaxAttempts
          /\ s = "failed" => "error" \in log[w]
        BY <1>1, <1>2, <1>3, <2>1 DEF ExecFit, Has
    <2>3. Passes(c)
        BY <1>2, <1>3, <2>1, <2>2, UnlockPasses
    <2> QED
        BY <1>2, <1>3, <2>3, ExitMoves, ExecutorWrites
<1> QED
    BY <1>4, <1>5

\* The answered row is marked.
LEMMA FinishKeeps == ASSUME ReplyInv, NEW c \in Claims, Finish(c) PROVE ReplyInv'
<1>1. PICK w : w = exec[c].work
    OBVIOUS
<1>2. exec[c].pc = "finish" /\ UNCHANGED <<nextSeq, log, ran, tasks, sweep, faults>>
    BY DEF Finish, Fenced, tasks
<1>3. /\ exec[c] # Idle /\ ExecFit(c) /\ w \in Works /\ TypeOK
    BY <1>1, <1>2, ExecutorFacts DEF ReplyInv
<1>4. CASE ~Holds(c)
    BY <1>2, <1>4, ExitKeeps DEF Finish, Fenced, NoWrite
<1>5. CASE Holds(c)
    <2>1. row[w].status = "running" /\ row' = [row EXCEPT ![w] = Unlocked(w, "succeeded")] /\ Goto(c, "recheck")
        BY <1>1, <1>5 DEF Finish, Fenced, Ended, Holds, ClaimStands
    <2>2. Frozen(w) /\ "answered" \in log[w]
        BY <1>1, <1>2, <1>3, <1>5 DEF ExecFit, Has
    <2>3. Passes(c)
        BY <1>2, <1>3, <2>1, <2>2, UnlockPasses
    <2>4. "recheck" \in Phases
        BY DEF Phases
    <2>5. /\ exec' \in [Claims -> Executor] /\ exec'[c].pc = "recheck" /\ exec'[c].work = w
          /\ \A b \in Claims : b # c => exec'[b] = exec[b]
        BY <1>1, <1>3, <2>1, <2>4, GotoMoves
    <2>6. ExecFit(c)'
        BY <1>1, <1>3, <2>3, <2>5, WriterFits
    <2> QED
        BY <1>2, <2>3, <2>5, <2>6, ExecutorWrites
<1> QED
    BY <1>4, <1>5

\* A final message or an error message is saved, and the executor goes on.
LEMMA SaveKeeps == ASSUME ReplyInv, NEW c \in Claims, SaveReply(c) \/ Fail(c) PROVE ReplyInv'
<1>1. PICK w : w = exec[c].work
    OBVIOUS
<1>2. exec[c].pc \in {"reply", "fail"} /\ UNCHANGED <<row, nextSeq, ran, tasks, sweep, faults>>
    BY DEF SaveReply, Fail, Fenced, tasks
<1>3. /\ exec[c] # Idle /\ ExecFit(c) /\ w \in Works /\ TypeOK
    BY <1>1, <1>2, ExecutorFacts DEF ReplyInv
<1>4. CASE ~Holds(c)
    BY <1>2, <1>4, ExitKeeps DEF SaveReply, Fail, Fenced, NoWrite
<1>5. CASE Holds(c)
    <2>1. PICK e \in {"answered", "error"}, pc \in {"deliver", "mark"} :
              /\ row[w].status = "running" /\ Note(w, e) /\ Goto(c, pc)
              /\ e = "answered" => exec[c].pc = "reply"
              /\ pc = "deliver" <=> e = "answered"
        BY <1>1, <1>5 DEF SaveReply, Fail, Fenced, Holds, ClaimStands
    <2>2. e = "answered" => Frozen(w)
        BY <1>1, <1>3, <2>1 DEF ExecFit
    <2>3. Passes(c) /\ log'[w] = log[w] \cup {e}
        BY <1>2, <1>3, <2>1, <2>2, NotePasses
    <2>4. pc \in Phases
        BY DEF Phases
    <2>5. /\ exec' \in [Claims -> Executor] /\ exec'[c].pc = pc /\ exec'[c].work = w
          /\ \A b \in Claims : b # c => exec'[b] = exec[b]
        BY <1>1, <1>3, <2>1, <2>4, GotoMoves
    <2>6. pc = "deliver" /\ Kind[w] = "reply" => w \in row'[w].input
        BY <1>2, <2>1, <2>2 DEF Frozen
    <2>7. ExecFit(c)'
        BY <1>1, <1>3, <2>1, <2>3, <2>5, <2>6, WriterFits
    <2> QED
        BY <1>2, <2>3, <2>5, <2>7, ExecutorWrites
<1> QED
    BY <1>4, <1>5

\* A stream event is published.
LEMMA StreamKeeps == ASSUME ReplyInv, NEW c \in Claims, Stream(c) PROVE ReplyInv'
<1>1. PICK w : w = exec[c].work
    OBVIOUS
<1>2. exec[c].pc = "reply" /\ UNCHANGED <<row, nextSeq, ran, tasks, sweep, faults>>
    BY DEF Stream, Interactive, Fenced, tasks
<1>3. w \in Works
    BY <1>1, <1>2, ExecutorFacts
<1>4. CASE ~Holds(c)
    BY <1>2, <1>4, ExitKeeps DEF Stream, Fenced, NoWrite
<1>5. CASE Holds(c)
    <2>1. row[w].status = "running" /\ Note(w, "streamed") /\ UNCHANGED exec
        BY <1>1, <1>5 DEF Stream, Fenced, Holds, ClaimStands
    <2>2. Passes(Nobody)
        BY <1>2, <1>3, <2>1, NotePasses
    <2> QED
        BY <1>2, <2>1, <2>2, TasksAlone, OutsideWrites
<1> QED
    BY <1>4, <1>5

\* An audited tool round is bound to the reply, or is over.
LEMMA BindKeeps ==
    ASSUME ReplyInv, NEW c \in Claims, Unbind(c) \/ \E t \in Tools : Bind(c, t)
    PROVE  ReplyInv'
<1>1. PICK w : w = exec[c].work
    OBVIOUS
<1>2. exec[c].pc = "reply" /\ UNCHANGED <<nextSeq, log, ran, notices, sweep, faults>>
    BY DEF Bind, Unbind, Interactive, Fenced
<1>3. w \in Works /\ TypeOK /\ row[w] \in WorkRow
    BY <1>1, <1>2, ExecutorFacts DEF ReplyInv
<1>4. CASE ~Holds(c)
    BY <1>2, <1>4, ExitKeeps DEF Bind, Unbind, Fenced, NoWrite, tasks
<1>5. CASE Holds(c)
    <2>1. PICK F : /\ F \in {row[w].flags \cup {"auditing"}, row[w].flags \ {"auditing"}}
                   /\ row[w].status = "running" /\ row' = [row EXCEPT ![w].flags = F] /\ UNCHANGED exec
        BY <1>1, <1>5 DEF Bind, Unbind, Fenced, Holds, ClaimStands
    <2>2. F \in SUBSET Flags /\ ("resuming" \in F <=> "resuming" \in row[w].flags)
        BY <1>3, <2>1 DEF WorkRow, Flags
    <2>3. Passes(Nobody)
        BY <1>2, <1>3, <2>1, <2>2, FlagsPass
    <2>4. \/ UNCHANGED tool
          \/ \E t \in Tools : tool' = [tool EXCEPT ![t].state = "ended"]
        BY <1>5 DEF Bind, Unbind, Fenced
    <2>5. tool' \in [Tools -> Task] /\ ToolsFit'
        <3>1. CASE UNCHANGED tool
            BY <1>2, <1>3, <3>1 DEF TypeOK, ReplyInv, ToolsFit
        <3>2. ASSUME NEW t \in Tools, tool' = [tool EXCEPT ![t].state = "ended"]
              PROVE  tool' \in [Tools -> Task] /\ ToolsFit'
            <4>1. /\ tool \in [Tools -> Task] /\ tool[t] \in Task
                BY <1>3 DEF TypeOK
            <4>2. PICK x : x = [tool[t] EXCEPT !.state = "ended"]
                OBVIOUS
            <4>3. x \in Task /\ x.work = tool[t].work /\ x.state = "ended"
                BY <4>1, <4>2 DEF Task
            <4>4. tool' = [tool EXCEPT ![t] = x]
                BY <3>2, <4>2
            <4> QED
                BY <1>2, <4>1, <4>3, <4>4 DEF ReplyInv, ToolsFit
        <3> QED BY <2>4, <3>1, <3>2
    <2>6. notices' \subseteq Tools
        BY <1>2, <1>3 DEF TypeOK
    <2> QED
        BY <1>2, <2>1, <2>3, <2>5, <2>6, OutsideWrites
<1> QED
    BY <1>4, <1>5

\* _execute_confirmed_tools starts the tools under its claim.
LEMMA RunToolsKeeps == ASSUME ReplyInv, NEW c \in Claims, RunTools(c) PROVE ReplyInv'
<1>1. PICK w : w = exec[c].work
    OBVIOUS
<1>2. exec[c].pc = "tools" /\ UNCHANGED <<row, log, nextSeq, tasks, sweep, faults>>
    BY DEF RunTools, Fenced, tasks
<1>3. /\ exec[c] # Idle /\ ExecFit(c) /\ w \in Works /\ TypeOK /\ RowFit(w) /\ row[w] \in WorkRow
      /\ ran[w] \in Nat /\ log[w] \in SUBSET Entries
    BY <1>1, <1>2, ExecutorFacts DEF ReplyInv
<1>4. CASE ~Holds(c)
    BY <1>2, <1>4, ExitKeeps DEF RunTools, Fenced, NoWrite
<1>5. CASE Holds(c)
    <2>1. row[w].status = "running" /\ row[w].owner = c /\ ran' = [ran EXCEPT ![w] = ran[w] + 1] /\ Goto(c, "reply")
        BY <1>1, <1>5 DEF RunTools, Fenced, Holds, ClaimStands
    <2>2. ran[w] = 0 /\ Kind[w] = "confirmed"
        BY <1>1, <1>2, <1>3, <1>5 DEF ExecFit
    <2>3. Update(w, row[w], log[w], 1)
        BY <1>2, <1>3, <2>1, <2>2 DEF Update, TypeOK
    <2>4. MayBecome(c, w, row[w], log[w], 1)
        BY <1>3, <2>1, <2>2 DEF MayBecome, RowFit, Frozen
    <2>5. Passes(c)
        BY <1>3, <2>3, <2>4, OneWork
    <2>6. "reply" \in Phases
        BY DEF Phases
    <2>7. /\ exec' \in [Claims -> Executor] /\ exec'[c].pc = "reply" /\ exec'[c].work = w
          /\ \A b \in Claims : b # c => exec'[b] = exec[b]
        BY <1>1, <1>3, <2>1, <2>6, GotoMoves
    <2>8. ExecFit(c)'
        BY <1>1, <1>3, <2>2, <2>5, <2>7, WriterFits
    <2> QED
        BY <1>2, <2>5, <2>7, <2>8, ExecutorWrites
<1> QED
    BY <1>4, <1>5

\* The reply starts background tasks.
LEMMA LaunchKeeps ==
    ASSUME ReplyInv, NEW c \in Claims, NEW started \in SUBSET Tools, Launch(c, started)
    PROVE  ReplyInv'
<1>1. PICK w : w = exec[c].work
    OBVIOUS
<1>2. exec[c].pc = "reply" /\ NoWrite /\ UNCHANGED <<notices, sweep, faults>>
    BY DEF Launch, Interactive, Fenced, NoWrite
<1>3. /\ exec[c] # Idle /\ ExecFit(c) /\ w \in Works /\ TypeOK /\ exec[c] \in Executor
    BY <1>1, <1>2, ExecutorFacts DEF ReplyInv
<1>4. CASE ~Holds(c)
    BY <1>2, <1>4, ExitKeeps DEF Launch, Fenced, tasks
<1>5. CASE Holds(c)
    <2>1. PICK x : x = [exec[c] EXCEPT !.pc = "suspend", !.started = started]
        OBVIOUS
    <2>2. /\ tool' = [t \in Tools |-> IF t \in started THEN [state |-> "running", work |-> w] ELSE tool[t]]
          /\ exec' = [exec EXCEPT ![c] = x]
        BY <1>1, <1>5, <2>1 DEF Launch, Fenced
    <2>3. x \in Executor /\ x.pc = "suspend" /\ x.work = w
        BY <1>1, <1>3, <2>1 DEF Executor, Phases
    <2>4. /\ exec' \in [Claims -> Executor] /\ exec'[c] = x
          /\ \A b \in Claims : b # c => exec'[b] = exec[b]
        BY <1>3, <2>2, <2>3, ExecType
    <2>5. Frozen(w) /\ "suspend" \in Phases \ {"idle", "claimed"}
        BY <1>1, <1>2, <1>3 DEF ExecFit, Phases
    <2>6. ExecFit(c)'
        BY <1>1, <1>2, <1>3, <2>3, <2>4, <2>5, GotoFits
    <2>7. [state |-> "running", work |-> w] \in Task
        BY <1>3 DEF Task
    <2>8. tool' \in [Tools -> Task] /\ notices' \subseteq Tools
        BY <1>2, <1>3, <2>2, <2>7 DEF TypeOK
    <2>9. ToolsFit'
        BY <1>2, <1>3, <2>2 DEF ReplyInv, ToolsFit
    <2>10. TypeOK'
        BY <1>2, <1>3, <2>4, <2>8 DEF TypeOK, NoWrite
    <2>11. Passes(c)
        BY <1>2, NoWritePasses
    <2>12. SweepFit'
        BY <1>2, <2>11, SweepKept DEF ReplyInv, Passes
    <2> QED
        BY <2>4, <2>6, <2>9, <2>10, <2>11, <2>12, Kept DEF Passes
<1> QED
    BY <1>4, <1>5

\* suspend_claimed
LEMMA SuspendKeeps == ASSUME ReplyInv, NEW c \in Claims, Suspend(c) PROVE ReplyInv'
<1>1. PICK w : w = exec[c].work
    OBVIOUS
<1>2. exec[c].pc = "suspend" /\ UNCHANGED <<log, ran, nextSeq, tasks, sweep, faults>>
    BY DEF Suspend, Fenced, tasks
<1>3. /\ exec[c] # Idle /\ ExecFit(c) /\ w \in Works /\ TypeOK /\ exec[c] \in Executor /\ RowFit(w)
      /\ row[w] \in WorkRow /\ ran[w] \in Nat /\ log[w] \in SUBSET Entries
    BY <1>1, <1>2, ExecutorFacts DEF ReplyInv
<1>4. CASE ~Holds(c)
    BY <1>2, <1>4, ExitKeeps DEF Suspend, Fenced, NoWrite
<1>5. CASE Holds(c)
    <2>1. PICK x, r : /\ x = [exec[c] EXCEPT !.pc = "recheck", !.started = {}]
                      /\ r = [Unlocked(w, "waiting") EXCEPT !.pending = @ \cup exec[c].started,
                                                            !.flags = @ \ {"resuming"}]
        OBVIOUS
    <2>2. /\ row[w].status = "running" /\ row' = [row EXCEPT ![w] = r] /\ exec' = [exec EXCEPT ![c] = x]
        BY <1>1, <1>5, <2>1 DEF Suspend, Fenced, Holds, ClaimStands
    <2>3. x \in Executor /\ x.pc = "recheck" /\ x.work = w
        BY <1>1, <1>3, <2>1 DEF Executor, Phases
    <2>4. PICK u : u = Unlocked(w, "waiting")
        OBVIOUS
    <2>5. /\ u \in WorkRow /\ u.status = "waiting" /\ u.input = row[w].input /\ u.into = row[w].into
          /\ u.seq = row[w].seq
        BY <1>3, <2>4 DEF Unlocked, WorkRow, Statuses
    <2>6. exec[c].started \subseteq Tools
        BY <1>3 DEF Executor
    <2>7. /\ r \in WorkRow /\ r.status = "waiting" /\ r.input = row[w].input /\ r.into = row[w].into
          /\ r.seq = row[w].seq
        BY <2>1, <2>4, <2>5, <2>6 DEF WorkRow
    <2>8. Frozen(w) /\ ran[w] <= 1
        BY <1>1, <1>2, <1>3 DEF ExecFit, RowFit
    <2>9. Update(w, r, log[w], ran[w])
        BY <1>2, <1>3, <2>2 DEF Update, TypeOK
    <2>10. MayBecome(c, w, r, log[w], ran[w])
        BY <1>3, <2>2, <2>7, <2>8 DEF MayBecome
    <2>11. Passes(c)
        BY <1>3, <2>9, <2>10, OneWork
    <2>12. /\ exec' \in [Claims -> Executor] /\ exec'[c] = x
           /\ \A b \in Claims : b # c => exec'[b] = exec[b]
        BY <1>3, <2>2, <2>3, ExecType
    <2>13. ExecFit(c)'
        BY <1>1, <1>3, <2>3, <2>11, <2>12, WriterFits
    <2> QED
        BY <1>2, <2>11, <2>12, <2>13, ExecutorWrites
<1> QED
    BY <1>4, <1>5

-----------------------------------------------------------------------------
(* Steps that give a work a new place *)

\* A work is put at the end of the queue: it is new, or it has waited (enqueue, wake_waiting,
\* cancel_all_waiting).
PutLast(w, r, l) ==
    /\ row' = [row EXCEPT ![w] = r] /\ log' = [log EXCEPT ![w] = l] /\ ran' = ran
    /\ nextSeq' = nextSeq + 1

\* What such a row, and what is saved beside it, may become.
MayBeLast(w, r, l) ==
    /\ r \in WorkRow /\ l \in SUBSET Entries
    /\ row[w].status \in {"none", "waiting"}
    /\ r.status \in {"ready", "cancelled"} /\ r.seq = nextSeq
    /\ r.input = row[w].input /\ r.into = row[w].into
    /\ "processed" \in l <=> "processed" \in log[w]
    /\ "answered" \in l <=> "answered" \in log[w]
    /\ "error" \in l <=> "error" \in log[w]
    /\ r.status = "ready" => r.attempts = 0
    /\ "resuming" \in r.flags => row[w].status = "waiting"
    /\ r.status = "ready" /\ "resuming" \notin r.flags => row[w].status = "none"

LEMMA AtEndPasses ==
    ASSUME ReplyInv, NEW C, NEW w \in Works, NEW r, NEW l, PutLast(w, r, l), MayBeLast(w, r, l)
    PROVE  Passes(C)
<1>1. /\ row \in [Works -> WorkRow] /\ log \in [Works -> SUBSET Entries] /\ ran \in [Works -> Nat]
      /\ nextSeq \in Nat \ {0} /\ TypeOK /\ OrderFit /\ InputsFit /\ RowFit(w)
    BY DEF ReplyInv, TypeOK
<1>2. r \in WorkRow /\ l \in SUBSET Entries
    BY DEF MayBeLast
<1>3. /\ row' \in [Works -> WorkRow] /\ log' \in [Works -> SUBSET Entries] /\ ran' \in [Works -> Nat]
      /\ nextSeq' \in Nat \ {0}
    BY <1>2, <1>1 DEF PutLast
<1>4. /\ row'[w] = r /\ log'[w] = l /\ ran'[w] = ran[w]
      /\ \A v \in Works \ {w} : SameRow(v)
    BY <1>1 DEF SameRow, PutLast
<1>5. Steady(w, C) /\ SameInputs(w)
    BY <1>4 DEF Steady, SameInputs, MayBeLast
<1>6. RowFit(w)'
    <2>1. Frozen(w)' <=> Frozen(w)
        BY <1>4 DEF Frozen, MayBeLast
    <2>2. Begun(w)' => Frozen(w)
        BY <1>1, <1>4 DEF Begun, RowFit, Has, MayBeLast
    <2>3. "processed" \in l => w \in row[w].input
        BY <1>1 DEF RowFit, Has, MayBeLast
    <2>4. r.status = "ready" /\ FirstTime(w)' => ran[w] = 0
        BY <1>1, <1>4 DEF RowFit, FirstTime, MayBeLast
    <2>5. ran[w] <= 1 /\ 0 < MaxAttempts
        BY <1>1, ReplyAssumption DEF RowFit
    <2> QED
        BY <1>4, <2>1, <2>2, <2>3, <2>4, <2>5 DEF RowFit, Has, MayBeLast
<1>7. \A v \in Works : Steady(v, C) /\ SameInputs(v) /\ RowFit(v)'
    <2> SUFFICES ASSUME NEW v \in Works, v # w
                 PROVE  Steady(v, C) /\ SameInputs(v) /\ RowFit(v)'
        BY <1>5, <1>6
    <2>1. SameRow(v) /\ RowFit(v)
        BY <1>4 DEF ReplyInv
    <2> QED BY <2>1, SameRowIsSteady, SameRowFits
<1>8. OrderFit'
    <2>1. /\ row'[w].seq = nextSeq /\ row'[w].status \in {"ready", "cancelled"}
          /\ \A v \in Works \ {w} : row'[v] = row[v]
        BY <1>4 DEF SameRow, MayBeLast
    <2>2. nextSeq' = nextSeq + 1
        BY DEF PutLast
    <2> QED BY <1>1, <2>1, <2>2, OrderAtEnd
<1>9. InputsFit'
    BY <1>1, <1>7, InputsKept
<1> QED
    BY <1>3, <1>7, <1>8, <1>9 DEF Passes

\* submit_user_message
LEMMA EnqueueKeeps == ASSUME ReplyInv, NEW w \in Works, Enqueue(w) PROVE ReplyInv'
<1>1. /\ row[w].status = "none" /\ nextSeq' = nextSeq + 1
      /\ UNCHANGED <<log, ran, tasks, exec, sweep, faults>>
    BY DEF Enqueue
<1>2. PICK r : r = [NewRow EXCEPT !.status = "ready", !.seq = nextSeq]
    OBVIOUS
<1>3. row' = [row EXCEPT ![w] = r]
    BY <1>2 DEF Enqueue
<1>4. /\ TypeOK /\ RowFit(w) /\ nextSeq \in Nat /\ log \in [Works -> SUBSET Entries]
    BY DEF ReplyInv, TypeOK
<1>5. NewRow \in WorkRow
    BY ReplyAssumption DEF NewRow, WorkRow, Statuses, NoWork
<1>6. /\ r \in WorkRow /\ r.status = "ready" /\ r.seq = nextSeq /\ r.input = NewRow.input /\ r.into = NewRow.into
      /\ r.attempts = 0 /\ r.flags = {}
    BY <1>2, <1>4, <1>5 DEF WorkRow, Statuses, NewRow
<1>7. row[w] = NewRow
    BY <1>1, <1>4 DEF RowFit
<1>8. log' = [log EXCEPT ![w] = log[w]] /\ ran' = ran /\ log[w] \in SUBSET Entries
    BY <1>1, <1>4
<1>9. PutLast(w, r, log[w])
    BY <1>1, <1>3, <1>8 DEF PutLast
<1>10. MayBeLast(w, r, log[w])
    BY <1>1, <1>6, <1>7, <1>8 DEF MayBeLast
<1>11. Passes(Nobody)
    BY <1>9, <1>10, AtEndPasses
<1> QED
    BY <1>1, <1>11, TasksAlone, OutsideWrites

\* cancel_all_waiting
LEMMA CancelWaitingKeeps == ASSUME ReplyInv, NEW w \in Works, CancelWaiting(w) PROVE ReplyInv'
<1>1. /\ row[w].status = "waiting" /\ nextSeq' = nextSeq + 1 /\ Fault
      /\ UNCHANGED <<log, ran, tasks, exec, sweep>>
    BY DEF CancelWaiting
<1>2. PICK u, r : u = Unlocked(w, "cancelled") /\ r = [u EXCEPT !.seq = nextSeq]
    OBVIOUS
<1>3. row' = [row EXCEPT ![w] = r]
    BY <1>2 DEF CancelWaiting
<1>4. /\ TypeOK /\ row[w] \in WorkRow /\ nextSeq \in Nat /\ log \in [Works -> SUBSET Entries]
    BY DEF ReplyInv, TypeOK
<1>5. /\ u \in WorkRow /\ u.status = "cancelled" /\ u.input = row[w].input /\ u.into = row[w].into
    BY <1>2, <1>4 DEF Unlocked, WorkRow, Statuses
<1>6. /\ r \in WorkRow /\ r.status = "cancelled" /\ r.seq = nextSeq /\ r.input = row[w].input /\ r.into = row[w].into
      /\ r.flags = u.flags
    BY <1>2, <1>4, <1>5 DEF WorkRow
<1>7. log' = [log EXCEPT ![w] = log[w]] /\ ran' = ran /\ log[w] \in SUBSET Entries
    BY <1>1, <1>4
<1>8. PutLast(w, r, log[w])
    BY <1>1, <1>3, <1>7 DEF PutLast
<1>9. MayBeLast(w, r, log[w])
    BY <1>1, <1>6, <1>7 DEF MayBeLast
<1>10. Passes(Nobody)
    BY <1>8, <1>9, AtEndPasses
<1> QED
    BY <1>1, <1>10, TasksAlone, OutsideWrites

\* A waiting work takes its results and goes to the end of the queue, or is cancelled.
LEMMA WakePasses ==
    ASSUME ReplyInv, NEW C, NEW w \in Works, row[w].status = "waiting", Wake(w), UNCHANGED ran
    PROVE  Passes(C)
<1>1. /\ row[w] \in WorkRow /\ nextSeq \in Nat /\ log \in [Works -> SUBSET Entries] /\ log[w] \subseteq Entries
    BY DEF ReplyInv, TypeOK
<1>2. PICK B : B = {t \in Results(w) : tool[t].state = "interrupted"}
    OBVIOUS
<1>3. PICK F, S, s, n : /\ F = (row[w].flags \ Flags) \cup (IF B # {} THEN {} ELSE {"resuming"})
                        /\ S = row[w].pending \ Results(w)
                        /\ s = IF B # {} THEN "cancelled" ELSE "ready"
                        /\ n = IF B # {} THEN row[w].attempts ELSE 0
    OBVIOUS
<1>4. PICK r : r = [row[w] EXCEPT !.status = s, !.seq = nextSeq, !.pending = S, !.attempts = n, !.flags = F]
    OBVIOUS
<1>5. row' = [row EXCEPT ![w] = r] /\ nextSeq' = nextSeq + 1
    <2>1. (\E t \in Results(w) : tool[t].state = "interrupted") <=> B # {}
        BY <1>2
    <2>2. CASE B # {}
        <3>1. row' = [row EXCEPT ![w] = [row[w] EXCEPT !.status = "cancelled", !.seq = nextSeq,
                        !.pending = row[w].pending \ Results(w), !.attempts = row[w].attempts,
                        !.flags = (row[w].flags \ Flags) \cup {}]]
            BY <2>1, <2>2 DEF Wake
        <3>2. /\ s = "cancelled" /\ n = row[w].attempts /\ S = row[w].pending \ Results(w)
              /\ F = (row[w].flags \ Flags) \cup {}
            BY <1>3, <2>2
        <3>3. r = [row[w] EXCEPT !.status = "cancelled", !.seq = nextSeq,
                        !.pending = row[w].pending \ Results(w), !.attempts = row[w].attempts,
                        !.flags = (row[w].flags \ Flags) \cup {}]
            BY <1>4, <3>2
        <3>4. nextSeq' = nextSeq + 1
            BY DEF Wake
        <3> QED BY <3>1, <3>3, <3>4
    <2>3. CASE B = {}
        <3>1. row' = [row EXCEPT ![w] = [row[w] EXCEPT !.status = "ready", !.seq = nextSeq,
                        !.pending = row[w].pending \ Results(w), !.attempts = 0,
                        !.flags = (row[w].flags \ Flags) \cup {"resuming"}]]
            BY <2>1, <2>3 DEF Wake
        <3>2. /\ s = "ready" /\ n = 0 /\ S = row[w].pending \ Results(w)
              /\ F = (row[w].flags \ Flags) \cup {"resuming"}
            BY <1>3, <2>3
        <3>3. r = [row[w] EXCEPT !.status = "ready", !.seq = nextSeq,
                        !.pending = row[w].pending \ Results(w), !.attempts = 0,
                        !.flags = (row[w].flags \ Flags) \cup {"resuming"}]
            BY <1>4, <3>2
        <3>4. nextSeq' = nextSeq + 1
            BY DEF Wake
        <3> QED BY <3>1, <3>3, <3>4
    <2> QED BY <2>2, <2>3
<1>6. PICK shown \in SUBSET {"streamed"} : log' = [log EXCEPT ![w] = @ \cup shown]
    BY DEF Wake
<1>7. PICK l : l = log[w] \cup shown
    OBVIOUS
<1>8. /\ l \in SUBSET Entries /\ log' = [log EXCEPT ![w] = l]
      /\ "processed" \in l <=> "processed" \in log[w]
      /\ "answered" \in l <=> "answered" \in log[w]
      /\ "error" \in l <=> "error" \in log[w]
    BY <1>1, <1>6, <1>7 DEF Entries
<1>9. /\ F \in SUBSET Flags /\ S \in SUBSET Tools /\ s \in Statuses /\ n \in 0..MaxAttempts
    BY <1>1, <1>3, ReplyAssumption DEF WorkRow, Flags, Statuses
<1>10. /\ r \in WorkRow /\ r.status = s /\ r.seq = nextSeq /\ r.input = row[w].input /\ r.into = row[w].into
       /\ r.attempts = n /\ r.flags = F
    BY <1>1, <1>4, <1>9 DEF WorkRow
<1>11. s \in {"ready", "cancelled"} /\ (s = "ready" => n = 0 /\ "resuming" \in F)
    BY <1>3
<1>12. PutLast(w, r, l)
    BY <1>8, <1>5 DEF PutLast
<1>13. MayBeLast(w, r, l)
    BY <1>8, <1>10, <1>11 DEF MayBeLast
<1> QED
    BY <1>12, <1>13, AtEndPasses

\* reopen_completed_waiting
LEMMA ReopenPasses ==
    ASSUME ReplyInv, NEW C, NEW w \in Works, row[w].status = "succeeded", Reopen(w), UNCHANGED ran
    PROVE  Passes(C)
<1>1. /\ row \in [Works -> WorkRow] /\ row[w] \in WorkRow /\ RowFit(w) /\ log \in [Works -> SUBSET Entries]
      /\ ran \in [Works -> Nat]
    BY DEF ReplyInv, TypeOK
<1>2. PICK F, l : F = row[w].flags \ {"resuming"} /\ l = log[w] \ {"answered"}
    OBVIOUS
<1>3. PICK r : r = [row[w] EXCEPT !.status = "waiting", !.attempts = 0, !.flags = F]
    OBVIOUS
<1>4. /\ r \in WorkRow /\ r.status = "waiting" /\ r.input = row[w].input /\ r.into = row[w].into /\ r.seq = row[w].seq
    <2>1. F \in SUBSET Flags /\ 0 \in 0..MaxAttempts
        BY <1>1, <1>2, ReplyAssumption DEF WorkRow
    <2> QED BY <1>1, <1>3, <2>1 DEF WorkRow, Statuses
<1>5. Update(w, r, l, ran[w])
    <2>1. row' = [row EXCEPT ![w] = [row[w] EXCEPT !.status = "waiting", !.attempts = 0, !.flags = row[w].flags \ {"resuming"}]]
        BY DEF Reopen
    <2>2. log' = [log EXCEPT ![w] = l] /\ nextSeq' = nextSeq
        BY <1>2 DEF Reopen
    <2>3. ran' = [ran EXCEPT ![w] = ran[w]]
        BY <1>1
    <2> QED BY <1>2, <1>3, <2>1, <2>2, <2>3 DEF Update
<1>6. Frozen(w) /\ ran[w] <= 1 /\ ran[w] \in Nat
    BY <1>1 DEF RowFit, Begun
<1>7. /\ l \in SUBSET Entries
      /\ "processed" \in l <=> "processed" \in log[w]
      /\ "error" \in log[w] => "error" \in l
    BY <1>1, <1>2
<1>8. MayBecome(C, w, r, l, ran[w])
    BY <1>4, <1>6, <1>7 DEF MayBecome
<1> QED
    BY <1>8, <1>5, OneWork

\* resume_external_work_for_task
LEMMA ResumePasses ==
    ASSUME ReplyInv, NEW C, NEW w \in Works, NEW slots, NEW done \in BOOLEAN, Resume(w, slots, done), UNCHANGED ran
    PROVE  Passes(C)
<1>1. CASE row[w].status = "succeeded" /\ Reopen(w)
    BY <1>1, ReopenPasses
<1>2. CASE row[w].status = "waiting" /\ Wake(w)
    BY <1>2, WakePasses
<1>3. CASE NoWrite
    BY <1>3, NoWritePasses
<1> QED
    BY <1>1, <1>2, <1>3 DEF Resume, NoWrite

\* The runner of an ended task, or the reconciliation, tells the work.
LEMMA NotifyKeeps == ASSUME ReplyInv, NEW t \in Tools, Notify(t) PROVE ReplyInv'
<1>1. t \in notices /\ notices' \subseteq notices /\ UNCHANGED <<ran, tool, exec, sweep, faults>>
    BY DEF Notify
<1>2. tool[t].work \in Works
    BY <1>1 DEF ReplyInv, ToolsFit
<1>3. PICK done \in BOOLEAN : Resume(tool[t].work, {t}, done)
    BY DEF Notify
<1>4. Passes(Nobody)
    BY <1>1, <1>2, <1>3, ResumePasses
<1>5. tool' \in [Tools -> Task] /\ notices' \subseteq Tools /\ ToolsFit'
    BY <1>1 DEF ReplyInv, TypeOK, ToolsFit
<1> QED
    BY <1>1, <1>4, <1>5, OutsideWrites

LEMMA ReconcileKeeps == ASSUME ReplyInv, NEW w \in Works, Reconcile(w) PROVE ReplyInv'
<1>1. row[w].status = "waiting" /\ Wake(w) /\ UNCHANGED <<ran, tasks, exec, sweep, faults>>
    BY DEF Reconcile
<1>2. Passes(Nobody)
    BY <1>1, WakePasses
<1> QED
    BY <1>1, <1>2, TasksAlone, OutsideWrites

\* _resume_pending_external_results
LEMMA RecheckKeeps == ASSUME ReplyInv, NEW c \in Claims, Recheck(c) PROVE ReplyInv'
<1>1. PICK w : w = exec[c].work
    OBVIOUS
<1>2. exec[c].pc = "recheck" /\ UNCHANGED <<ran, tasks, sweep, faults>>
    BY DEF Recheck
<1>3. w \in Works /\ TypeOK
    BY <1>1, <1>2, ExecutorFacts DEF ReplyInv
<1>4. PICK done \in BOOLEAN : Resume(w, row[w].pending, done) /\ (Exit(c) \/ UNCHANGED exec)
    BY <1>1 DEF Recheck
<1>5. Passes(c) /\ Passes(Nobody)
    BY <1>2, <1>3, <1>4, ResumePasses
<1>6. CASE Exit(c)
    BY <1>2, <1>3, <1>5, <1>6, ExitMoves, ExecutorWrites
<1>7. CASE UNCHANGED exec
    BY <1>2, <1>5, <1>7, TasksAlone, OutsideWrites
<1> QED
    BY <1>4, <1>6, <1>7

-----------------------------------------------------------------------------
(* Claims, merges and the stop of a session *)

\* cancel_session
LEMMA StopKeeps == ASSUME ReplyInv, StopReplies PROVE ReplyInv'
<1>1. Fault /\ UNCHANGED <<nextSeq, log, ran, tasks, exec, sweep>>
    BY DEF StopReplies
<1>2. /\ row \in [Works -> WorkRow] /\ log \in [Works -> SUBSET Entries] /\ ran \in [Works -> Nat]
      /\ nextSeq \in Nat \ {0} /\ \A w \in Works : RowFit(w)
    BY DEF ReplyInv, TypeOK
<1>3. row' = [w \in Works |-> IF row[w].status \in {"ready", "running", "waiting"}
                              THEN Unlocked(w, "cancelled") ELSE row[w]]
    BY DEF StopReplies
<1>4. \A w \in Works :
          \/ row'[w] = row[w]
          \/ /\ row[w].status \in {"ready", "running", "waiting"}
             /\ row'[w] = Unlocked(w, "cancelled")
    BY <1>3
<1>5. ASSUME NEW w \in Works
      PROVE  /\ Unlocked(w, "cancelled") \in WorkRow /\ Unlocked(w, "cancelled").status = "cancelled"
             /\ Unlocked(w, "cancelled").seq = row[w].seq /\ Unlocked(w, "cancelled").input = row[w].input
             /\ Unlocked(w, "cancelled").into = row[w].into
             /\ Unlocked(w, "cancelled").flags = row[w].flags \ {"lapsed"}
    <2>1. row[w] \in WorkRow
        BY <1>2
    <2> QED BY <2>1 DEF Unlocked, WorkRow, Statuses
<1>6. row' \in [Works -> WorkRow]
    BY <1>2, <1>3, <1>5
<1>7. ASSUME NEW w \in Works
      PROVE  Steady(w, Nobody) /\ SameInputs(w) /\ SamePlace(w) /\ RowFit(w)'
    <2>1. CASE row'[w] = row[w]
        <3>1. SameRow(w)
            BY <1>1, <2>1 DEF SameRow
        <3> QED BY <1>2, <3>1, SameRowIsSteady, SameRowFits
    <2>2. CASE row[w].status \in {"ready", "running", "waiting"} /\ row'[w] = Unlocked(w, "cancelled")
        <3>1. /\ row'[w].status = "cancelled" /\ row'[w].seq = row[w].seq /\ row'[w].input = row[w].input
              /\ row'[w].into = row[w].into /\ row'[w].flags = row[w].flags \ {"lapsed"}
              /\ log'[w] = log[w] /\ ran'[w] = ran[w]
            BY <1>1, <1>5, <2>2
        <3>2. Steady(w, Nobody) /\ SameInputs(w) /\ SamePlace(w)
            BY <2>2, <3>1 DEF Steady, SameInputs, SamePlace
        <3>3. RowFit(w)
            BY <1>2
        <3>4. Begun(w)' => Frozen(w)'
            BY <3>1, <3>3 DEF RowFit, Begun, Frozen, Has
        <3>5. RowFit(w)'
            BY <3>1, <3>3, <3>4 DEF RowFit
        <3> QED BY <3>2, <3>5
    <2> QED BY <1>4, <2>1, <2>2
<1>8. OrderFit' /\ InputsFit'
    BY <1>1, <1>7, OrderKept, InputsKept DEF ReplyInv
<1>9. Passes(Nobody)
    BY <1>1, <1>2, <1>6, <1>7, <1>8 DEF Passes
<1> QED
    BY <1>1, <1>9, TasksAlone, OutsideWrites

\* claim_next: the row that is claimed is the first of its session, so that no other is running.
LEMMA ClaimKeeps == ASSUME ReplyInv, NEW c \in Claims, NEW w \in Works, Claim(c, w) PROVE ReplyInv'
<1>1. /\ Claimable(w) /\ row[w].status = "ready" /\ UNCHANGED <<nextSeq, log, ran, tasks, sweep, faults>>
    BY DEF Claim, Claimable
<1>2. /\ row \in [Works -> WorkRow] /\ row[w] \in WorkRow /\ RowFit(w) /\ OrderFit /\ InputsFit /\ TypeOK
      /\ log \in [Works -> SUBSET Entries] /\ ran \in [Works -> Nat] /\ nextSeq \in Nat \ {0}
    BY DEF ReplyInv, TypeOK
<1>3. PICK r, x : /\ r = [row[w] EXCEPT !.status = "running", !.owner = c, !.attempts = @ + 1]
                  /\ x = [Idle EXCEPT !.pc = "claimed", !.work = w]
    OBVIOUS
<1>4. row' = [row EXCEPT ![w] = r] /\ exec' = [exec EXCEPT ![c] = x]
    BY <1>3 DEF Claim
<1>5. row[w].attempts + 1 \in 0..MaxAttempts
    BY <1>1, <1>2, ReplyAssumption DEF RowFit, WorkRow
<1>6. /\ r \in WorkRow /\ r.status = "running" /\ r.owner = c /\ r.input = row[w].input /\ r.into = row[w].into
      /\ r.seq = row[w].seq /\ r.flags = row[w].flags
    BY <1>2, <1>3, <1>5 DEF WorkRow, Statuses
<1>7. x \in Executor /\ x.pc = "claimed" /\ x.work = w
    BY <1>3 DEF Idle, Executor, Phases
<1>8. /\ exec' \in [Claims -> Executor] /\ exec'[c] = x
      /\ \A b \in Claims : b # c => exec'[b] = exec[b]
    BY <1>2, <1>4, <1>7, ExecType
<1>9. /\ row'[w] = r /\ log'[w] = log[w] /\ ran'[w] = ran[w] /\ row' \in [Works -> WorkRow]
      /\ \A v \in Works \ {w} : SameRow(v)
    BY <1>1, <1>2, <1>4, <1>6 DEF SameRow
<1>10. Steady(w, c) /\ SameInputs(w)
    BY <1>1, <1>6, <1>9 DEF Steady, SameInputs
<1>11. RowFit(w)'
    <2>1. Begun(w)' => Frozen(w)'
        BY <1>2, <1>6, <1>9 DEF RowFit, Begun, Frozen, Has
    <2>2. "processed" \in log[w] => w \in row[w].input
        BY <1>1, <1>2 DEF RowFit, Has
    <2>3. ran[w] <= 1
        BY <1>2 DEF RowFit
    <2> QED BY <1>6, <1>9, <2>1, <2>2, <2>3 DEF RowFit, Has
<1>12. \A v \in Works : Steady(v, c) /\ SameInputs(v) /\ RowFit(v)'
    <2> SUFFICES ASSUME NEW v \in Works, v # w
                 PROVE  Steady(v, c) /\ SameInputs(v) /\ RowFit(v)'
        BY <1>10, <1>11
    <2>1. SameRow(v) /\ RowFit(v)
        BY <1>9 DEF ReplyInv
    <2> QED BY <2>1, SameRowIsSteady, SameRowFits
<1>13. InputsFit'
    BY <1>2, <1>12, InputsKept
<1>14. \A v \in Works : row'[v].seq = row[v].seq /\ (row'[v].status # "none" <=> row[v].status # "none")
    BY <1>1, <1>6, <1>9 DEF SameRow
<1>15. \A v \in Queued \ {w} : row[v].seq > row[w].seq
    <2>1. \A v \in Queued : v \in Works /\ row[v].status # "none" /\ row[v].seq \in Nat
        BY <1>2 DEF Queued, WorkRow
    <2>2. row[w].seq \in Nat
        BY <1>2 DEF WorkRow
    <2> QED
        BY <1>1, <1>2, <2>1, <2>2 DEF Claimable, OrderFit
<1>16. \A v \in Works : row[v].status # "running"
    <2> SUFFICES ASSUME NEW v \in Works, row[v].status = "running" PROVE FALSE
        OBVIOUS
    <2>1. v # w /\ v \in Queued /\ w \in Queued
        BY <1>1 DEF Queued
    <2>2. row[v].seq > row[w].seq /\ row[w].seq > row[v].seq
        BY <1>2, <1>15, <2>1 DEF OrderFit, OneReplyAtATime
    <2>3. row[v].seq \in Nat /\ row[w].seq \in Nat
        BY <1>2 DEF WorkRow
    <2> QED BY <2>2, <2>3
<1>17. OneReplyAtATime'
    <2>1. \A v \in Works : row'[v].status = "running" => v = w
        BY <1>9, <1>16 DEF SameRow
    <2>2. \A v \in Works \ {w} : v \in Queued' => v \in Queued
        BY <1>9 DEF Queued, SameRow
    <2>3. \A v \in Queued' : v \in Works
        BY DEF Queued
    <2> QED
        BY <1>14, <1>15, <2>1, <2>2, <2>3 DEF OneReplyAtATime
<1>18. OrderFit'
    BY <1>1, <1>2, <1>14, <1>17 DEF OrderFit
<1>19. Passes(c)
    BY <1>1, <1>2, <1>9, <1>12, <1>13, <1>18 DEF Passes
<1>20. ExecFit(c)'
    <2>1. FirstTime(w)' => ran'[w] = 0
        BY <1>1, <1>2, <1>6, <1>9 DEF RowFit, FirstTime
    <2>2. row'[w].status # "none"
        BY <1>6, <1>9
    <2> QED BY <1>7, <1>8, <2>1, <2>2 DEF ExecFit
<1> QED
    BY <1>1, <1>8, <1>19, <1>20, ExecutorWrites

\* The merge of messages into the work of an executor that holds it: every message
\* goes into one work, which is not merged itself.
LEMMA MergePasses ==
    ASSUME ReplyInv, NEW c \in Claims, NEW w \in Works, exec[c].work = w,
           NEW items \in SUBSET Works, \A v \in items : Kind[v] = "reply",
           MayMerge(c, items), Merge(c, items), UNCHANGED <<ran, nextSeq>>,
           Kind[w] = "reply" => w \in items \/ w \in row[w].input
    PROVE  Passes(c) /\ (Kind[w] = "reply" => w \in row'[w].input)
<1>1. /\ row \in [Works -> WorkRow] /\ log \in [Works -> SUBSET Entries] /\ ran \in [Works -> Nat]
      /\ nextSeq \in Nat \ {0} /\ \A v \in Works : row[v] \in WorkRow /\ RowFit(v)
      /\ InputsFit /\ OrderFit
    BY DEF ReplyInv, TypeOK
<1>2. /\ row[w].status = "running" /\ row[w].owner = c
      /\ \A v \in items \ {w} : row[v].status = "ready"
      /\ \A v \in items : v \in Works /\ "processed" \notin log[v]
    BY DEF MayMerge, Holds, ClaimStands, Has
<1>3. PICK r : r = [row[w] EXCEPT !.input = @ \cup items]
    OBVIOUS
<1>4. /\ r \in WorkRow /\ r.input = row[w].input \cup items /\ r.status = "running" /\ r.owner = c
      /\ r.into = row[w].into /\ r.seq = row[w].seq /\ r.flags = row[w].flags /\ r.attempts = row[w].attempts
    BY <1>1, <1>2, <1>3 DEF WorkRow
<1>5. ASSUME NEW v \in Works
      PROVE  /\ [row[v] EXCEPT !.status = "merged", !.into = w] \in WorkRow
             /\ [row[v] EXCEPT !.status = "merged", !.into = w].input = row[v].input
             /\ [row[v] EXCEPT !.status = "merged", !.into = w].seq = row[v].seq
             /\ [row[v] EXCEPT !.status = "merged", !.into = w].flags = row[v].flags
             /\ [row[v] EXCEPT !.status = "merged", !.into = w].status = "merged"
             /\ [row[v] EXCEPT !.status = "merged", !.into = w].into = w
    <2>1. row[v] \in WorkRow
        BY <1>1
    <2> QED BY <2>1 DEF WorkRow, Statuses
<1>6. row' = [v \in Works |-> IF v = w THEN r
                              ELSE IF v \in items THEN [row[v] EXCEPT !.status = "merged", !.into = w]
                              ELSE row[v]]
    BY <1>3 DEF Merge
<1>7. log' = [v \in Works |-> IF v \in items THEN log[v] \cup {"processed"} ELSE log[v]]
    BY DEF Merge
<1>8. /\ row'[w] = r
      /\ \A v \in items \ {w} : row'[v] = [row[v] EXCEPT !.status = "merged", !.into = w]
      /\ \A v \in Works \ {w} : v \notin items => row'[v] = row[v]
      /\ row' \in [Works -> WorkRow]
    BY <1>1, <1>4, <1>5, <1>6
<1>9. /\ \A v \in items : log'[v] = log[v] \cup {"processed"}
      /\ \A v \in Works \ items : log'[v] = log[v]
      /\ log' \in [Works -> SUBSET Entries]
    BY <1>1, <1>7 DEF Entries
<1>10. ASSUME NEW v \in items \ {w}
       PROVE  /\ row'[v].status = "merged" /\ row'[v].into = w /\ row'[v].input = row[v].input
              /\ row'[v].seq = row[v].seq /\ row'[v].flags = row[v].flags
    <2>1. v \in Works /\ row'[v] = [row[v] EXCEPT !.status = "merged", !.into = w]
        BY <1>8
    <2> QED BY <1>5, <2>1
<1>11. Steady(w, c) /\ SamePlace(w) /\ RowFit(w)'
    <2>1. Steady(w, c)
        <3>1. "error" \in log[w] => "error" \in log'[w]
            BY <1>9
        <3> QED BY <1>2, <1>4, <1>8, <3>1 DEF Steady
    <2>2. SamePlace(w)
        BY <1>2, <1>4, <1>8 DEF SamePlace
    <2>3. Frozen(w)'
        BY <1>4, <1>8 DEF Frozen
    <2>4. "processed" \in log'[w] => w \in row'[w].input
        <3>1. CASE w \in items
            BY <1>4, <1>8, <3>1
        <3>2. CASE w \notin items
            BY <1>1, <1>2, <1>4, <1>8, <1>9, <3>2 DEF RowFit, Has
        <3> QED BY <3>1, <3>2
    <2>5. ran'[w] <= 1
        BY <1>1 DEF RowFit
    <2>6. RowFit(w)'
        BY <1>4, <1>8, <2>3, <2>4, <2>5 DEF RowFit, Has
    <2> QED BY <2>1, <2>2, <2>6
<1>12. ASSUME NEW v \in items \ {w} PROVE Steady(v, c) /\ SamePlace(v) /\ RowFit(v)'
    <2>1. v \in Works /\ row[v].status = "ready" /\ RowFit(v) /\ ran'[v] = ran[v]
        BY <1>1, <1>2
    <2>2. /\ row'[v].status = "merged" /\ row'[v].input = row[v].input /\ row'[v].seq = row[v].seq
          /\ row'[v].flags = row[v].flags /\ log'[v] = log[v] \cup {"processed"}
        BY <1>9, <1>10
    <2>3. Begun(v)' => Frozen(v)'
        BY <2>1, <2>2 DEF RowFit, Begun, Frozen, Has
    <2>4. RowFit(v)'
        BY <2>1, <2>2, <2>3 DEF RowFit
    <2> QED BY <2>1, <2>2, <2>4 DEF Steady, SamePlace
<1>13. ASSUME NEW v \in Works \ {w}, v \notin items PROVE Steady(v, c) /\ SamePlace(v) /\ RowFit(v)'
    <2>1. SameRow(v) /\ RowFit(v)
        BY <1>1, <1>8, <1>9, <1>13 DEF SameRow
    <2> QED BY <2>1, SameRowIsSteady, SameRowFits
<1>14. \A v \in Works : Steady(v, c) /\ SamePlace(v) /\ RowFit(v)'
    BY <1>11, <1>12, <1>13
<1>15. OrderFit'
    BY <1>1, <1>14, OrderKept
<1>16. \A v \in Works \ {w} : row'[v].input = row[v].input
    BY <1>8, <1>10
<1>17. row'[w].input = row[w].input \cup items
    BY <1>4, <1>8
<1>18. \A m \in Works : m \in Has("processed")' <=> m \in items \/ m \in Has("processed")
    BY <1>9 DEF Has
<1>19. \A m \in items : m \notin Has("processed")
    BY <1>2 DEF Has
<1>20. \A m \in Works : m \in Has("processed")' <=> \E v \in Works : m \in row'[v].input
    BY <1>1, <1>16, <1>17, <1>18 DEF InputsFit
<1>21. \A v \in Works : \A m \in items : m \notin row[v].input
    BY <1>1, <1>2, <1>19 DEF InputsFit
<1>22. ASSUME NEW v \in Works, NEW u \in Works \ {v} PROVE row'[v].input \cap row'[u].input = {}
    <2>1. row[v].input \cap row[u].input = {}
        BY <1>1 DEF InputsFit
    <2>2. CASE v = w
        BY <1>16, <1>17, <1>21, <2>1, <2>2
    <2>3. CASE u = w
        BY <1>16, <1>17, <1>21, <2>1, <2>3
    <2>4. CASE v # w /\ u # w
        BY <1>16, <2>1, <2>4
    <2> QED BY <2>2, <2>3, <2>4
<1>23. ASSUME NEW v \in Works, row'[v].status = "merged"
       PROVE  /\ row'[v].into \in Works
              /\ v \in row'[row'[v].into].input
              /\ row'[row'[v].into].status # "merged"
    <2>1. v # w
        BY <1>4, <1>8, <1>23
    <2>2. CASE v \in items
        <3>1. row'[v].into = w
            BY <1>10, <2>1, <2>2
        <3>2. v \in r.input /\ r.status # "merged"
            BY <1>4, <2>2
        <3> QED BY <1>8, <3>1, <3>2
    <2>3. CASE v \notin items
        <3>1. row'[v] = row[v]
            BY <1>8, <2>1, <2>3
        <3>2. PICK u : u = row[v].into
            OBVIOUS
        <3>3. u \in Works /\ v \in row[u].input /\ row[u].status # "merged"
            BY <1>1, <1>23, <3>1, <3>2 DEF InputsFit
        <3>4. u \notin items \ {w}
            <4> SUFFICES ASSUME u \in items \ {w} PROVE FALSE
                OBVIOUS
            <4>1. RowFit(u) /\ Begun(u) /\ Kind[u] = "reply"
                BY <1>1, <3>3 DEF Begun
            <4>2. u \in row[u].input
                BY <4>1 DEF RowFit, Frozen
            <4> QED BY <1>21, <3>3, <4>2
        <3>5. row'[u].status # "merged" /\ v \in row'[u].input
            BY <1>4, <1>8, <1>17, <3>3, <3>4
        <3> QED BY <3>1, <3>2, <3>3, <3>5
    <2> QED BY <2>2, <2>3
<1>24. InputsFit'
    BY <1>20, <1>22, <1>23 DEF InputsFit
<1>25. Passes(c)
    BY <1>1, <1>8, <1>9, <1>14, <1>15, <1>24 DEF Passes
<1> QED
    BY <1>17, <1>25

\* freeze_foreground_input and absorb_contiguous_foreground_messages write what they have read.
LEMMA MergeKeeps == ASSUME ReplyInv, NEW c \in Claims, FreezeWrite(c) \/ AbsorbWrite(c) PROVE ReplyInv'
<1>1. PICK w, items : w = exec[c].work /\ items = exec[c].read
    OBVIOUS
<1>2. exec[c].pc \in {"merge", "absorb"} /\ UNCHANGED <<nextSeq, ran, tasks, sweep, faults>>
    BY DEF FreezeWrite, AbsorbWrite
<1>3. /\ exec[c] # Idle /\ ExecFit(c) /\ w \in Works /\ TypeOK /\ exec[c] \in Executor
    BY <1>1, <1>2, ExecutorFacts DEF ReplyInv
<1>4. items \in SUBSET Works /\ \A v \in items : Kind[v] = "reply"
    BY <1>1, <1>2, <1>3 DEF Executor, ExecFit
<1>5. PICK pc \in {"reply", "error"} :
          /\ exec' = [exec EXCEPT ![c].pc = pc, ![c].read = {}]
          /\ \/ MayMerge(c, items) /\ Merge(c, items)
             \/ UNCHANGED <<row, log>> /\ (pc = "reply" => exec[c].pc = "absorb")
    BY <1>1 DEF FreezeWrite, AbsorbWrite
<1>6. PICK x : x = [exec[c] EXCEPT !.pc = pc, !.read = {}]
    OBVIOUS
<1>7. exec' = [exec EXCEPT ![c] = x]
    BY <1>3, <1>5, <1>6 DEF TypeOK
<1>8. x \in Executor /\ x.pc = pc /\ x.work = w
    BY <1>1, <1>3, <1>6 DEF Executor, Phases
<1>9. /\ exec' \in [Claims -> Executor] /\ exec'[c] = x
      /\ \A b \in Claims : b # c => exec'[b] = exec[b]
    BY <1>3, <1>7, <1>8, ExecType
<1>10. Passes(c) /\ (pc = "reply" /\ Kind[w] = "reply" => w \in row'[w].input)
    <2>1. CASE MayMerge(c, items) /\ Merge(c, items)
        <3>1. Kind[w] = "reply" => w \in items \/ w \in row[w].input
            BY <1>1, <1>2, <1>3, <2>1 DEF ExecFit, Frozen, MayMerge
        <3> QED BY <1>1, <1>2, <1>3, <1>4, <2>1, <3>1, MergePasses
    <2>2. CASE UNCHANGED <<row, log>> /\ (pc = "reply" => exec[c].pc = "absorb")
        <3>1. Passes(c)
            BY <1>2, <2>2, NoWritePasses DEF NoWrite
        <3>2. pc = "reply" => Frozen(w)
            BY <1>1, <1>3, <2>2 DEF ExecFit
        <3> QED BY <2>2, <3>1, <3>2 DEF Frozen
    <2> QED BY <1>5, <2>1, <2>2
<1>11. ExecFit(c)'
    BY <1>1, <1>3, <1>8, <1>9, <1>10, WriterFits
<1> QED
    BY <1>2, <1>9, <1>10, <1>11, ExecutorWrites

-----------------------------------------------------------------------------
(* Theorems *)

LEMMA InitFits == Init => ReplyInv
<1> SUFFICES ASSUME Init PROVE ReplyInv
    OBVIOUS
<1>1. NewRow \in WorkRow /\ NewRow.status = "none" /\ NewRow.input = {} /\ NewRow.flags = {}
    BY ReplyAssumption DEF NewRow, WorkRow, Statuses, NoWork
<1>2. Idle \in Executor
    BY DEF Idle, Executor, Phases
<1>3. [state |-> "none", work |-> NoWork] \in Task
    BY DEF Task
<1>4. /\ row \in [Works -> WorkRow] /\ log \in [Works -> SUBSET Entries] /\ ran \in [Works -> Nat]
      /\ nextSeq \in Nat \ {0}
      /\ \A w \in Works : row[w] = NewRow /\ log[w] = {} /\ ran[w] = 0
    BY <1>1 DEF Init
<1>5. tool \in [Tools -> Task] /\ notices \subseteq Tools /\ ToolsFit
    BY <1>3 DEF Init, ToolsFit
<1>6. exec \in [Claims -> Executor] /\ \A c \in Claims : ExecFit(c)
    BY <1>2 DEF Init, ExecFit
<1>7. sweep \in [pc: {"idle", "retry", "fail", "mark"}, work: Works \cup {NoWork}, owner: Claims \cup {Nobody}]
      /\ SweepFit
    BY DEF Init, NoSweep, SweepFit
<1>8. faults \in 0..MaxFaults
    BY ReplyAssumption DEF Init
<1>9. TypeOK
    BY <1>4, <1>5, <1>6, <1>7, <1>8 DEF TypeOK
<1>10. ASSUME NEW w \in Works PROVE RowFit(w)
    <2>1. ~Begun(w)
        BY <1>1, <1>4 DEF Begun, Has
    <2> QED BY <1>1, <1>4, <2>1 DEF RowFit, Has
<1>11. OrderFit
    BY <1>1, <1>4 DEF OrderFit, OneReplyAtATime
<1>12. InputsFit
    BY <1>1, <1>4 DEF InputsFit, Has
<1> QED
    BY <1>5, <1>6, <1>7, <1>9, <1>10, <1>11, <1>12 DEF ReplyInv

LEMMA ExecutorStepKeeps == ASSUME ReplyInv, NEW c \in Claims, ExecutorStep(c) PROVE ReplyInv'
<1>1. CASE Begin(c) \/ FreezeRead(c)
    BY <1>1, BeginKeeps, FreezeReadKeeps
<1>2. CASE FreezeWrite(c) \/ AbsorbWrite(c)
    BY <1>2, MergeKeeps
<1>3. CASE RunTools(c) \/ Suspend(c) \/ Recheck(c)
    BY <1>3, RunToolsKeeps, SuspendKeeps, RecheckKeeps
<1>4. CASE SaveReply(c) \/ Fail(c)
    BY <1>4, SaveKeeps
<1>5. CASE Deliver(c) \/ Handle(c)
    BY <1>5, PhaseKeeps
<1>6. CASE Finish(c)
    BY <1>6, FinishKeeps
<1>7. CASE Release(c) \/ MarkFailed(c)
    BY <1>7, LeaveKeeps
<1> QED
    BY <1>1, <1>2, <1>3, <1>4, <1>5, <1>6, <1>7 DEF ExecutorStep

LEMMA StoppedKeeps == ASSUME ReplyInv, NEW c \in Claims, Stopped(c) PROVE ReplyInv'
BY ExitKeeps DEF Stopped, NoWrite

LEMMA NextKeeps == ReplyInv /\ [Next]_vars => ReplyInv'
<1> SUFFICES ASSUME ReplyInv, [Next]_vars PROVE ReplyInv'
    OBVIOUS
<1>1. CASE UNCHANGED vars
    <2>1. NoWrite /\ UNCHANGED <<exec, sweep, tasks, faults>>
        BY <1>1 DEF vars, NoWrite, tasks
    <2>2. Passes(Nobody)
        BY <2>1, NoWritePasses
    <2> QED BY <2>1, <2>2, TasksAlone, OutsideWrites
<1>2. ASSUME NEW w \in Works, Enqueue(w) \/ Lapse(w) \/ Reconcile(w) \/ CancelWaiting(w) PROVE ReplyInv'
    BY <1>2, EnqueueKeeps, LapseKeeps, ReconcileKeeps, CancelWaitingKeeps
<1>3. CASE StopReplies \/ SweepStops
    BY <1>3, StopKeeps, SweepStopsKeeps
<1>4. CASE Recover
    <2>1. ASSUME NEW w \in Works, RecoverRead(w) PROVE ReplyInv'
        BY <2>1, RecoverReadKeeps
    <2> QED BY <1>4, <2>1, RecoverRowKeeps, RecoverFailKeeps DEF Recover
<1>5. ASSUME NEW c \in Claims, ExecutorStep(c) \/ Renew(c) \/ Stopped(c) \/ Stream(c) \/ AbsorbRead(c) PROVE ReplyInv'
    BY <1>5, ExecutorStepKeeps, RenewKeeps, StoppedKeeps, StreamKeeps, AbsorbReadKeeps
<1>6. ASSUME NEW c \in Claims, Errs(c) PROVE ReplyInv'
    BY <1>6, PhaseKeeps
<1>7. ASSUME NEW c \in Claims, Unbind(c) \/ \E t \in Tools : Bind(c, t) PROVE ReplyInv'
    BY <1>7, BindKeeps
<1>8. ASSUME NEW c \in Claims, NEW w \in Works, Claim(c, w) PROVE ReplyInv'
    BY <1>8, ClaimKeeps
<1>9. ASSUME NEW c \in Claims, NEW started \in SUBSET Tools, Launch(c, started) PROVE ReplyInv'
    BY <1>9, LaunchKeeps
<1>10. ASSUME NEW t \in Tools, TaskEnds(t) \/ LoseNotice(t) PROVE ReplyInv'
    BY <1>10, TaskKeeps
<1>11. ASSUME NEW t \in Tools, Notify(t) PROVE ReplyInv'
    BY <1>11, NotifyKeeps
<1> QED
    BY <1>1, <1>2, <1>3, <1>4, <1>5, <1>6, <1>7, <1>8, <1>9, <1>10, <1>11 DEF Next

-----------------------------------------------------------------------------
(* Rows that have ended *)

\* A step changes rows that have not ended.
EndedUntouched == \A w \in Works : row[w].status \in Terminal => row'[w] = row[w]

\* What EndedStaysEnded asks of one row.
StaysEnded(w) ==
    row[w].status \in Terminal /\ row'[w].status # row[w].status =>
        row[w].status = "succeeded" /\ row'[w].status = "waiting" /\ Results(w) # {}

\* An update of one row that has not ended (UPDATE ... WHERE id = ... AND status = ...).
LEMMA OpenRowAlone ==
    ASSUME NEW w \in Works, NEW r, row' = [row EXCEPT ![w] = r],
           row \in [Works -> WorkRow], row[w].status \notin Terminal
    PROVE  EndedUntouched
BY DEF EndedUntouched

\* mark_terminal and release_for_retry change a row their claim still stands for.
LEMMA EndedTouchesOpen ==
    ASSUME NEW w, NEW owner, NEW status, row' = Ended(w, owner, status),
           row \in [Works -> WorkRow]
    PROVE  EndedUntouched
BY DEF Ended, ClaimStands, EndedUntouched, Terminal

\* merge_ready_foreground merges READY rows into a claimed one.
LEMMA MergeTouchesOpen ==
    ASSUME NEW c \in Claims, NEW items, MayMerge(c, items), Merge(c, items)
    PROVE  EndedUntouched
<1>1. /\ row[exec[c].work].status = "running"
      /\ \A v \in items \ {exec[c].work} : row[v].status = "ready"
    BY DEF MayMerge, Holds, ClaimStands
<1>2. \A v \in Works : v # exec[c].work /\ v \notin items => row'[v] = row[v]
    BY DEF Merge
<1> QED
    BY <1>1, <1>2 DEF EndedUntouched, Terminal

\* A background result wakes a waiting work, or reopens an answered one (_resume_waiting,
\* reopen_completed_waiting).
LEMMA ResumeRespectsEnds ==
    ASSUME NEW w, NEW slots, NEW done, Resume(w, slots, done), row \in [Works -> WorkRow]
    PROVE  \A v \in Works : StaysEnded(v)
<1>1. CASE Reopen(w) /\ row[w].status = "succeeded" /\ Results(w) # {}
    <2>1. \A v \in Works \ {w} : row'[v] = row[v]
        BY <1>1 DEF Reopen
    <2>2. w \in Works => row'[w].status = "waiting"
        BY <1>1 DEF Reopen, WorkRow
    <2> QED BY <1>1, <2>1, <2>2 DEF StaysEnded
<1>2. CASE Wake(w) /\ row[w].status = "waiting"
    <2>1. \A v \in Works \ {w} : row'[v] = row[v]
        BY <1>2 DEF Wake
    <2> QED BY <1>2, <2>1 DEF StaysEnded, Terminal
<1>3. CASE UNCHANGED row
    BY <1>3 DEF StaysEnded
<1> QED
    BY <1>1, <1>2, <1>3 DEF Resume

\* The steps of an executor before its reply is concluded.
LEMMA RepliesTouchOpen ==
    ASSUME ReplyInv, NEW c \in Claims,
           \/ Begin(c) \/ FreezeRead(c) \/ FreezeWrite(c) \/ RunTools(c)
           \/ AbsorbRead(c) \/ AbsorbWrite(c) \/ Suspend(c) \/ Stream(c) \/ Unbind(c)
           \/ \E t \in Tools : Bind(c, t)
           \/ \E started \in SUBSET Tools : Launch(c, started)
    PROVE  EndedUntouched
<1> PICK w : w = exec[c].work
    OBVIOUS
<1>1. row \in [Works -> WorkRow]
    BY DEF ReplyInv, TypeOK
<1>2. Holds(c) => row[w].status \notin Terminal
    BY DEF Holds, ClaimStands, Terminal
<1>3. CASE UNCHANGED row
    BY <1>3 DEF EndedUntouched
<1>4. CASE Holds(c) /\ \E r : row' = [row EXCEPT ![w] = r]
    BY <1>1, <1>2, <1>4 DEF EndedUntouched
<1>5. CASE Begin(c) \/ FreezeRead(c) \/ AbsorbRead(c)
    BY <1>3, <1>5 DEF Begin, FreezeRead, AbsorbRead
<1>6. CASE FreezeWrite(c) \/ AbsorbWrite(c)
    BY <1>3, <1>6, MergeTouchesOpen DEF FreezeWrite, AbsorbWrite
<1>7. CASE RunTools(c) \/ Stream(c)
    BY <1>3, <1>7 DEF RunTools, Stream, Fenced
<1>8. CASE Suspend(c)
    BY <1>3, <1>4, <1>8 DEF Suspend, Fenced
<1>9. CASE Unbind(c)
    BY <1>3, <1>4, <1>9 DEF Unbind, Fenced
<1>10. ASSUME NEW t \in Tools, Bind(c, t) PROVE EndedUntouched
    BY <1>3, <1>4, <1>10 DEF Bind, Fenced
<1>11. ASSUME NEW started \in SUBSET Tools, Launch(c, started) PROVE EndedUntouched
    BY <1>3, <1>11 DEF Launch, Fenced
<1> QED
    BY <1>5, <1>6, <1>7, <1>8, <1>9, <1>10, <1>11

\* The steps of an executor that conclude, fail or give up its reply.
LEMMA OutcomesTouchOpen ==
    ASSUME ReplyInv, NEW c \in Claims,
           \/ SaveReply(c) \/ Deliver(c) \/ Finish(c) \/ Errs(c) \/ Handle(c)
           \/ Release(c) \/ Fail(c) \/ MarkFailed(c) \/ Renew(c) \/ Stopped(c)
    PROVE  EndedUntouched
<1>1. row \in [Works -> WorkRow]
    BY DEF ReplyInv, TypeOK
<1>2. CASE UNCHANGED row
    BY <1>2 DEF EndedUntouched
<1>3. CASE \E w, status : row' = Ended(w, c, status)
    BY <1>1, <1>3, EndedTouchesOpen
<1>4. CASE SaveReply(c) \/ Deliver(c) \/ Fail(c)
    BY <1>2, <1>4 DEF SaveReply, Deliver, Fail, Fenced
<1>5. CASE Errs(c) \/ Handle(c) \/ Stopped(c)
    BY <1>2, <1>5 DEF Errs, Handle, Stopped
<1>6. CASE Finish(c)
    BY <1>2, <1>3, <1>6 DEF Finish, Fenced
<1>7. CASE Release(c) \/ MarkFailed(c)
    BY <1>3, <1>7 DEF Release, MarkFailed
<1>8. CASE Renew(c)
    BY <1>1, <1>8 DEF Renew, Holds, ClaimStands, EndedUntouched, Terminal
<1> QED
    BY <1>4, <1>5, <1>6, <1>7, <1>8

\* Submission, claims, the sweep, and the end of tasks and waits.
LEMMA QueueTouchesOpen ==
    ASSUME ReplyInv,
           \/ \E w \in Works : Enqueue(w) \/ Lapse(w) \/ Reconcile(w) \/ CancelWaiting(w) \/ RecoverRead(w)
           \/ \E c \in Claims, w \in Works : Claim(c, w)
           \/ StopReplies \/ RecoverRetry \/ RecoverFail \/ RecoverMark \/ SweepStops
           \/ \E t \in Tools : TaskEnds(t) \/ LoseNotice(t)
    PROVE  EndedUntouched
<1>1. row \in [Works -> WorkRow]
    BY DEF ReplyInv, TypeOK
<1>2. CASE UNCHANGED row
    BY <1>2 DEF EndedUntouched
<1>3. ASSUME NEW w \in Works, Enqueue(w) \/ Lapse(w) \/ CancelWaiting(w)
      PROVE  EndedUntouched
    BY <1>1, <1>3 DEF Enqueue, Lapse, CancelWaiting, EndedUntouched, Terminal
<1>4. ASSUME NEW w \in Works, Reconcile(w)
      PROVE  EndedUntouched
    BY <1>1, <1>4 DEF Reconcile, Wake, EndedUntouched, Terminal
<1>5. ASSUME NEW c \in Claims, NEW w \in Works, Claim(c, w)
      PROVE  EndedUntouched
    BY <1>1, <1>5 DEF Claim, Claimable, EndedUntouched, Terminal
<1>6. CASE StopReplies
    BY <1>6 DEF StopReplies, EndedUntouched, Terminal
<1>7. CASE RecoverRetry
    BY <1>1, <1>7 DEF RecoverRetry, ClaimStands, EndedUntouched, Terminal
<1>8. CASE RecoverMark
    BY <1>1, <1>8, EndedTouchesOpen DEF RecoverMark
<1>9. CASE RecoverFail \/ SweepStops
    BY <1>2, <1>9 DEF RecoverFail, SweepStops
<1>10. ASSUME NEW w \in Works, RecoverRead(w)
       PROVE  EndedUntouched
    BY <1>2, <1>10 DEF RecoverRead
<1>11. ASSUME NEW t \in Tools, TaskEnds(t) \/ LoseNotice(t)
       PROVE  EndedUntouched
    BY <1>2, <1>11 DEF TaskEnds, LoseNotice
<1> QED
    BY <1>3, <1>4, <1>5, <1>6, <1>7, <1>8, <1>9, <1>10, <1>11

\* No step revives or relabels a row that has ended, but for a late result (update_claimed).
LEMMA NextRespectsEnds == ReplyInv /\ [Next]_vars => \A w \in Works : StaysEnded(w)
<1> SUFFICES ASSUME ReplyInv, [Next]_vars PROVE \A w \in Works : StaysEnded(w)
    OBVIOUS
<1>1. row \in [Works -> WorkRow]
    BY DEF ReplyInv, TypeOK
<1>2. CASE EndedUntouched
    BY <1>2 DEF EndedUntouched, StaysEnded
<1>3. CASE UNCHANGED vars
    BY <1>3 DEF vars, StaysEnded
<1>4. ASSUME NEW w \in Works, Enqueue(w) \/ Lapse(w) \/ Reconcile(w) \/ CancelWaiting(w)
      PROVE  EndedUntouched
    BY <1>4, QueueTouchesOpen
<1>5. ASSUME StopReplies \/ Recover \/ SweepStops
      PROVE  EndedUntouched
    <2>1. ASSUME NEW w \in Works, RecoverRead(w) PROVE EndedUntouched
        BY <2>1, QueueTouchesOpen
    <2>2. CASE StopReplies \/ RecoverRetry \/ RecoverFail \/ RecoverMark \/ SweepStops
        BY <2>2, QueueTouchesOpen
    <2> QED BY <1>5, <2>1, <2>2 DEF Recover
<1>6. ASSUME NEW c \in Claims, NEW w \in Works, Claim(c, w)
      PROVE  EndedUntouched
    BY <1>6, QueueTouchesOpen
<1>7. ASSUME NEW t \in Tools, TaskEnds(t) \/ LoseNotice(t)
      PROVE  EndedUntouched
    BY <1>7, QueueTouchesOpen
<1>8. ASSUME NEW t \in Tools, Notify(t)
      PROVE  \A w \in Works : StaysEnded(w)
    BY <1>1, <1>8, ResumeRespectsEnds DEF Notify
<1>9. ASSUME NEW c \in Claims, Recheck(c)
      PROVE  \A w \in Works : StaysEnded(w)
    BY <1>1, <1>9, ResumeRespectsEnds DEF Recheck
<1>10. ASSUME NEW c \in Claims, ExecutorStep(c), ~Recheck(c)
       PROVE  EndedUntouched
    BY <1>10, RepliesTouchOpen, OutcomesTouchOpen DEF ExecutorStep
<1>11. ASSUME NEW c \in Claims,
              \/ Renew(c) \/ Stopped(c) \/ Errs(c) \/ Stream(c) \/ AbsorbRead(c) \/ Unbind(c)
              \/ \E t \in Tools : Bind(c, t)
              \/ \E started \in SUBSET Tools : Launch(c, started)
       PROVE  EndedUntouched
    BY <1>11, RepliesTouchOpen, OutcomesTouchOpen
<1> QED
    BY <1>2, <1>3, <1>4, <1>5, <1>6, <1>7, <1>8, <1>9, <1>10, <1>11 DEF Next

-----------------------------------------------------------------------------
(* The theorems *)

\* Rows, the session's order, frozen inputs, executors and the sweep agree in every reachable
\* state: the inductive invariant behind claim_next, update_claimed and recover_expired.
THEOREM RepliesStayFit == Spec => []ReplyInv
<1>1. Init => ReplyInv
    BY InitFits
<1>2. ReplyInv /\ [Next]_vars => ReplyInv'
    BY NextKeeps
<1> QED
    BY <1>1, <1>2, PTL DEF Spec

\* Every variable keeps its type, and no row is claimed more than MaxAttempts times between
\* two wake-ups, though claim_next does not look at the number of attempts.
THEOREM RepliesAreTyped == Spec => []TypeOK
<1>1. ReplyInv => TypeOK
    BY DEF ReplyInv
<1> QED
    BY <1>1, RepliesStayFit, PTL

\* A running row is the first of the queued rows of its session, whatever expires, is
\* retried, merged or woken (claim_next, wake_waiting).
THEOREM RepliesRunInOrder == Spec => []OneReplyAtATime
<1>1. ReplyInv => OneReplyAtATime
    BY DEF ReplyInv, OrderFit
<1> QED
    BY <1>1, RepliesStayFit, PTL

\* Every user message goes into exactly one reply (freeze_foreground_input,
\* absorb_contiguous_foreground_messages).
THEOREM MessagesAreAnsweredOnce == Spec => []EveryInputOnce
<1>1. ReplyInv => EveryInputOnce
    BY DEF ReplyInv, InputsFit, RowFit, EveryInputOnce
<1> QED
    BY <1>1, RepliesStayFit, PTL

\* Tools the user confirmed once are started once (recover_expired, _run_claimed).
THEOREM ConfirmedToolsRunOnce == Spec => []ConfirmedOnce
<1>1. ReplyInv => ConfirmedOnce
    BY DEF ReplyInv, RowFit, ConfirmedOnce
<1> QED
    BY <1>1, RepliesStayFit, PTL

\* An answered work has its final message, a failed one its error message
\* (execute_session_reply_work, fail_session_reply_work).
THEOREM EveryOutcomeIsTold == Spec => []OutcomeIsTold
<1>1. ReplyInv => OutcomeIsTold
    BY DEF ReplyInv, RowFit, OutcomeIsTold
<1> QED
    BY <1>1, RepliesStayFit, PTL

\* A late executor, sweep or wake-up never revives or relabels a row that has ended
\* (update_claimed, mark_terminal, reopen_completed_waiting).
THEOREM RepliesStayEnded == Spec => EndedStaysEnded
<1>1. ReplyInv /\ [Next]_vars
        => [\A w \in Works : row[w].status \in Terminal /\ row'[w].status # row[w].status =>
                /\ row[w].status = "succeeded" /\ row'[w].status = "waiting"
                /\ Results(w) # {}]_vars
    BY NextRespectsEnds DEF StaysEnded
<1> QED
    BY <1>1, RepliesStayFit, PTL DEF Spec, EndedStaysEnded

==================================================================================
