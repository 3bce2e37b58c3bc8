---------------------------- MODULE TerminalSessionProofs ----------------------------
(***************************************************************************)
(* Proofs about TerminalSession, for any number of workers and commands and *)
(* any round the session is part of.                                        *)
(***************************************************************************)
EXTENDS TerminalSession, AuditRoundProofs

(* The inductive invariant *)

Gone == {"settled", "deleted"}

\* What a session of status s says of its attempt in the round x.
Tells(s, x) ==
    CASE s = "failed" -> x.attempts[Shell] \in {"failed", "unknown"}
      [] s = "lost" -> x.attempts[Shell] = "unknown"
      [] s \in {"exited"} \cup Gone -> x.attempts[Shell] # "running"
      [] OTHER -> MayFinish(x, Shell) \/ Lost(x, Shell)

\* A session that has an owner is there, as is one whose commands are.
RowFit ==
    /\ row.by # 0 => row.status \in Status
    /\ \A c \in Commands : cmd[c] = "deleted" => row.status \in Gone

\* A runtime that has ended its session knows so only after everybody may; only such a
\* one releases the claim or deletes the row. The last command a runtime has completed
\* has its answer, or was deleted with it.
RuntimeFit ==
    \A w \in Workers :
        /\ local[w] \in Final => row.status \in Final \cup Gone
        /\ pc[w] \in {"release", "settle"} => local[w] \in Final
        /\ last[w] # 0 => cmd[last[w]] \in {"succeeded", "failed", "deleted"}

\* The shell is started once more than shutdowns have given the session back, at most, and
\* not more often than that while it waits for a start: before it has an owner, or while
\* its owner has claimed it and not yet tried.
StartFit ==
    /\ starts <= 1 + handed
    /\ row.by = 0 /\ row.status \in {"absent", "starting"} => starts <= handed
    /\ \A w \in Workers : pc[w] = "claimed" /\ row.by = w => starts <= handed

SessionInv ==
    /\ TypeOK
    /\ Under(round, Token)
    /\ Tells(row.status, round)
    /\ RowFit
    /\ RuntimeFit
    /\ StartFit

-----------------------------------------------------------------------------
(* The session and its attempt *)

LEMMA SessionFacts ==
    ASSUME SessionInv, TerminalAssumption
    PROVE  /\ Lawful(round) /\ Under(round, Token) /\ round \in Round
           /\ Shell \in Tools /\ Tells(row.status, round)
           /\ Onward(round, round, {})
           /\ row.status \in Status \cup Gone \cup {"absent"}
<1>1. Lawful(round) /\ Under(round, Token) /\ round \in Round
  BY DEF SessionInv, Under, Lawful
<1>2. row.status \in Status \cup Gone \cup {"absent"}
  BY DEF SessionInv, TypeOK, Gone
<1> QED BY <1>1, <1>2, SameOnward DEF SessionInv, TerminalAssumption

\* A session that is where it was tells the truth of the round that went on.
LEMMA TellsOn ==
    ASSUME TerminalAssumption, NEW x, NEW y, NEW T, Lawful(x), Onward(x, y, T), Shell \notin T, NEW s, Tells(s, x)
    PROVE  Tells(s, y)
<1>1. Shell \in Tools \ T /\ Ends(x, y)
  BY DEF TerminalAssumption, Onward
<1>2. MayFinish(x, Shell) => MayFinish(y, Shell) \/ Lost(y, Shell)
  BY <1>1 DEF Onward
<1>3. x.attempts[Shell] # "running" => y.attempts[Shell] = x.attempts[Shell]
  BY <1>1, EndsKeepsAttempt
<1>4. Lost(x, Shell) => Lost(y, Shell)
  <2>1. Lost(x, Shell) => y = x
    BY <1>1 DEF Lost, Ends, Ending
  <2> QED BY <2>1
<1> QED BY <1>2, <1>3, <1>4 DEF Tells

\* The step is one in the life of the round, and the session tells the truth of it after.
Passes == Ends(round, round') /\ Tells(row'.status, round')

Ahead == {"absent"} \cup Active

LEMMA Passing ==
    ASSUME SessionInv, TerminalAssumption, NEW T, Shell \notin T, Onward(round, round', T),
           row'.status = row.status \/ (row.status \in Ahead /\ row'.status \in Ahead)
    PROVE  Passes
<1>1. Tells(row.status, round')
  BY SessionFacts, TellsOn
<1>2. Tells(row'.status, round')
  BY <1>1 DEF Tells, Ahead, Active, Gone
<1> QED BY <1>2 DEF Passes, Onward

LEMMA PassingRow ==
    ASSUME SessionInv, TerminalAssumption, UNCHANGED round,
           row'.status = row.status \/ (row.status \in Ahead /\ row'.status \in Ahead)
    PROVE  Passes
<1>1. Shell \notin {} /\ Onward(round, round', {})
  BY SessionFacts
<1> QED BY <1>1, Passing

\* The session ends, and its attempt with it if nobody was faster.
LEMMA FinalizedTells ==
    ASSUME SessionInv, TerminalAssumption, NEW s \in Final, CanMove(row.status, s),
           NEW a \in {"succeeded", "failed", "unknown"}, s = "lost" => a = "unknown", s = "failed" => a = "failed"
    PROVE  Ends(round, Finalized(s, a)) /\ Tells(s, Finalized(s, a))
<1>1. CASE MayFinish(round, Shell)
  <2> DEFINE x == FinishAttempts(round, {Shell}, a)
             y == FinishIfComplete(x, Token)
  <2>1. Finalized(s, a) = y
    BY <1>1 DEF Finalized, FinishAttempt
  <2>2. a \in AttemptStatus /\ a \in AttemptStatus \ {"none"}
    BY DEF AttemptStatus
  <2>3. Ends(round, x)
    BY <2>2, SessionFacts, FinishAttemptsEnds
  <2>4. x.attempts[Shell] = a
    <3>1. x.attempts[Shell] = IF Shell \in {Shell} /\ round.status = "executing" /\ round.attempts[Shell] = "running"
                              THEN a ELSE round.attempts[Shell]
      BY <2>2, SessionFacts, FinishAttemptsType
    <3> HIDE DEF x
    <3> QED BY <1>1, <3>1 DEF MayFinish
  <2> HIDE DEF x
  <2>5. Ends(x, y)
    BY <2>3, FinishIfCompleteEnds DEF Ends
  <2> HIDE DEF y
  <2>6. Ends(round, y)
    BY <2>3, <2>5, SessionFacts, EndsTransitive
  <2>7. y.attempts[Shell] = a
    BY <2>4, <2>5, SessionFacts, EndsKeepsAttempt
  <2>8. Tells(s, y)
    BY <2>7 DEF Tells, Final
  <2> QED BY <2>1, <2>6, <2>8
<1>2. CASE ~MayFinish(round, Shell)
  <2>1. Finalized(s, a) = round
    BY <1>2 DEF Finalized
  <2>2. Tells(row.status, round) /\ Ends(round, round)
    BY SessionFacts, SameEnds
  <2>3. CASE row.status \in Active
    <3>1. Lost(round, Shell)
      BY <1>2, <2>2, <2>3 DEF Tells, Active, Gone
    <3> QED BY <2>1, <2>2, <3>1 DEF Tells, Lost, Final
  <2>4. CASE row.status \notin Active
    <3>1. row.status = s
      BY <2>4 DEF CanMove, Active
    <3> QED BY <2>1, <2>2, <3>1
  <2> QED BY <2>3, <2>4
<1> QED BY <1>1, <1>2

LEMMA UpdatePasses ==
    ASSUME SessionInv, TerminalAssumption, NEW w, NEW s, NEW a, NEW next, Update(w, s, a, next),
           \/ s = "closing"
           \/ s = "exited" /\ a \in {"succeeded", "failed"}
           \/ s = "failed" /\ a = "failed"
    PROVE  Passes
<1>1. CASE ~Updated(w, s)
  BY <1>1, PassingRow DEF Update
<1>2. CASE Updated(w, s)
  <2>1. row' = [row EXCEPT !.status = s] /\ round' = Finalized(s, a) /\ CanMove(row.status, s)
    BY <1>2 DEF Update, Updated
  <2>2. row'.status = s
    BY <2>1 DEF SessionInv, TypeOK
  <2>3. CASE s = "closing"
    <3>1. round' = round
      BY <2>1, <2>3 DEF Finalized, Final
    <3>2. row.status \in Ahead /\ row'.status \in Ahead
      BY <2>1, <2>2, <2>3 DEF CanMove, Ahead, Active
    <3> QED BY <3>1, <3>2, PassingRow
  <2>4. CASE s # "closing"
    <3>1. s \in Final /\ a \in {"succeeded", "failed", "unknown"}
      BY <2>4 DEF Final
    <3>2. s # "lost" /\ (s = "failed" => a = "failed")
      BY <2>4
    <3>3. Ends(round, Finalized(s, a)) /\ Tells(s, Finalized(s, a))
      BY <2>1, <3>1, <3>2, FinalizedTells
    <3> QED BY <2>1, <2>2, <3>3 DEF Passes
  <2> QED BY <2>3, <2>4
<1> QED BY <1>1, <1>2

\* The session becomes lost.
LEMMA LostPasses ==
    ASSUME SessionInv, TerminalAssumption, NEW w, Updated(w, "lost"), row'.status = "lost", round' = Finalized("lost", "unknown")
    PROVE  Passes
<1>1. "lost" \in Final /\ CanMove(row.status, "lost") /\ "unknown" \in {"succeeded", "failed", "unknown"}
  BY DEF Final, Updated
<1>2. Ends(round, Finalized("lost", "unknown")) /\ Tells("lost", Finalized("lost", "unknown"))
  BY <1>1, FinalizedTells
<1> QED BY <1>2 DEF Passes

\* The row of a session that has ended is deleted.
LEMMA GonePasses ==
    ASSUME SessionInv, TerminalAssumption, row.status \in Final, UNCHANGED round, row'.status \in Gone
    PROVE  Passes
<1>1. Tells(row.status, round) /\ Ends(round, round)
  BY SessionFacts, SameEnds
<1>2. round.attempts[Shell] # "running"
  BY <1>1 DEF Tells, Final
<1>3. Tells(row'.status, round)
  BY <1>2 DEF Tells, Gone
<1> QED BY <1>1, <1>3 DEF Passes

-----------------------------------------------------------------------------
(* Every step *)

\* Steps that leave the status of the session and the round alone, or bring a session
\* that has not ended on.
LEMMA QuietPasses ==
    ASSUME SessionInv, TerminalAssumption,
           \/ CreateSession \/ Interrupt \/ Lapse
           \/ \E w \in Workers :
                \/ Initialize(w) \/ Started(w) \/ LeaveServe(w) \/ SnapshotRefused(w) \/ ClaimCommand(w)
                \/ ReadOrWrite(w) \/ Mark(w) \/ ForceClose(w) \/ Release(w)
                \/ RuntimeFault(w) \/ ProcessExits(w) \/ RenewLost(w) \/ CoordinatorCloses(w) \/ Shutdown(w) \/ Crash(w)
                \/ ClaimStarting(w) \/ ClaimRecoverable(w) \/ CleanupFinal(w) \/ ShutdownRelease(w) \/ Restart(w)
           \/ \E c \in Commands, k \in {"read", "write", "close"} : Enqueue(c, k)
    PROVE  Passes
<1>1. row \in [status: Status \cup {"absent", "settled", "deleted"}, by: Owner, proc: Owner]
  BY DEF SessionInv, TypeOK
<1>2. CASE CreateSession \/ Interrupt \/ Lapse
  <2>1. UNCHANGED round
    BY <1>2 DEF CreateSession, Interrupt, Lapse
  <2>2. row' = row \/ (row.status = "absent" /\ row' = [row EXCEPT !.status = "starting"])
    BY <1>2 DEF CreateSession, Interrupt, Lapse
  <2>3. row'.status = row.status \/ (row.status \in Ahead /\ row'.status \in Ahead)
    BY <1>1, <2>2 DEF Ahead, Active
  <2> QED BY <2>1, <2>3, PassingRow
<1>3. ASSUME NEW w \in Workers, Started(w) PROVE Passes
  <2>1. /\ UNCHANGED round
        /\ row' = row \/ (CanMove(row.status, "running") /\ row' = [row EXCEPT !.status = "running", !.proc = w])
    BY <1>3 DEF Started, Updated
  <2>2. row'.status = row.status \/ (row.status \in Ahead /\ row'.status \in Ahead)
    BY <1>1, <2>1 DEF CanMove, Ahead, Active
  <2> QED BY <2>1, <2>2, PassingRow
<1>4. ASSUME NEW w \in Workers,
             \/ Initialize(w) \/ LeaveServe(w) \/ SnapshotRefused(w) \/ ClaimCommand(w)
             \/ ReadOrWrite(w) \/ Mark(w) \/ ForceClose(w) \/ RuntimeFault(w) \/ ProcessExits(w)
             \/ RenewLost(w) \/ CoordinatorCloses(w) \/ Shutdown(w) \/ Crash(w) \/ Restart(w)
      PROVE  Passes
  <2>1. UNCHANGED <<row, round>>
    BY <1>4 DEF Initialize, LeaveServe, SnapshotRefused, ClaimCommand, ReadOrWrite, Mark, ForceClose, RuntimeFault,
       StartError, MarkLate, RuntimeError, SettleError, ProcessExits, RenewLost, CoordinatorCloses, Shutdown, Crash,
       Restart
  <2> QED BY <2>1, PassingRow
<1>5. ASSUME NEW w \in Workers,
             ClaimStarting(w) \/ ClaimRecoverable(w) \/ CleanupFinal(w) \/ ShutdownRelease(w) \/ Release(w)
      PROVE  Passes
  <2>1. UNCHANGED round /\ (row' = row \/ \E v : row' = [row EXCEPT !.by = v])
    BY <1>5 DEF ClaimStarting, ClaimRecoverable, CleanupFinal, ShutdownRelease, Release
  <2>2. row'.status = row.status
    BY <1>1, <2>1
  <2> QED BY <2>1, <2>2, PassingRow
<1>6. ASSUME NEW c, NEW k, Enqueue(c, k) PROVE Passes
  <2>1. UNCHANGED <<row, round>>
    BY <1>6 DEF Enqueue
  <2> QED BY <2>1, PassingRow
<1> QED BY <1>2, <1>3, <1>4, <1>5, <1>6

LEMMA RuntimePasses ==
    ASSUME SessionInv, TerminalAssumption, NEW w \in Workers,
           FailStart(w) \/ NaturalExit(w) \/ BeginClose(w) \/ CloseProcess(w) \/ Finalize(w) \/ RecoverSession(w)
    PROVE  Passes
<1>1. CASE FailStart(w) \/ NaturalExit(w) \/ BeginClose(w) \/ CloseProcess(w)
  <2>1. PICK s, a, next : /\ Update(w, s, a, next)
                          /\ \/ s = "closing"
                             \/ s = "exited" /\ a \in {"succeeded", "failed"}
                             \/ s = "failed" /\ a = "failed"
    BY <1>1 DEF FailStart, NaturalExit, BeginClose, CloseProcess
  <2> QED BY <2>1, UpdatePasses
<1>2. CASE Finalize(w) \/ RecoverSession(w)
  <2>1. \/ UNCHANGED <<row, round>>
        \/ /\ Updated(w, "lost") /\ round' = Finalized("lost", "unknown")
           /\ row' = [row EXCEPT !.status = "lost"] \/ row' = [row EXCEPT !.status = "lost", !.by = 0]
    BY <1>2 DEF Finalize, RecoverSession
  <2>2. row \in [status: Status \cup {"absent", "settled", "deleted"}, by: Owner, proc: Owner]
    BY DEF SessionInv, TypeOK
  <2>3. CASE UNCHANGED <<row, round>>
    BY <2>3, PassingRow
  <2>4. CASE /\ Updated(w, "lost") /\ round' = Finalized("lost", "unknown")
             /\ row' = [row EXCEPT !.status = "lost"] \/ row' = [row EXCEPT !.status = "lost", !.by = 0]
    <3>1. row'.status = "lost"
      BY <2>2, <2>4
    <3> QED BY <2>4, <3>1, LostPasses
  <2> QED BY <2>1, <2>3, <2>4
<1> QED BY <1>1, <1>2

LEMMA DeletePasses ==
    ASSUME SessionInv, TerminalAssumption,
           (\E w \in Workers : Settle(w)) \/ DeleteSession \/ \E c \in Commands : CompleteUnowned(c)
    PROVE  Passes
<1>1. ASSUME NEW w \in Workers, Settle(w) PROVE Passes
  <2>1. CASE row.by = w
    <3>1. row.by # 0
      BY <2>1 DEF TerminalAssumption
    <3>2. row.status \in Final
      BY <1>1, <3>1 DEF SessionInv, RowFit, RuntimeFit, Settle, Status, Final, Active, Gone
    <3>3. row'.status \in Gone /\ UNCHANGED round
      BY <1>1, <2>1 DEF Settle, DeleteRow, Gone
    <3> QED BY <3>2, <3>3, GonePasses
  <2>2. CASE row.by # w
    BY <1>1, <2>2, PassingRow DEF Settle
  <2> QED BY <2>1, <2>2
<1>2. ASSUME NEW c \in Commands, CompleteUnowned(c) PROVE Passes
  <2>1. UNCHANGED round /\ row.status \in Final /\ (row' = row \/ row'.status \in Gone)
    BY <1>2 DEF CompleteUnowned, DeleteRow, Gone
  <2> QED BY <2>1, PassingRow, GonePasses
<1>3. CASE DeleteSession
  <2>1. row'.status = "deleted" /\ row.status \in Status
    BY <1>3 DEF DeleteSession, DeleteRow
  <2>2. CASE row.status \in Final
    BY <1>3, <2>1, <2>2, GonePasses DEF DeleteSession, Gone
  <2>3. CASE row.status \notin Final
    <3>1. "lost" \in Final /\ CanMove(row.status, "lost") /\ "unknown" \in {"succeeded", "failed", "unknown"}
      BY <2>1, <2>3 DEF CanMove, Status, Active, Final
    <3>2. round' = Finalized("lost", "unknown")
      BY <1>3, <2>3 DEF DeleteSession
    <3>3. Ends(round, round') /\ Tells("lost", round')
      BY <3>1, <3>2, FinalizedTells
    <3>4. Tells(row'.status, round')
      BY <2>1, <3>3 DEF Tells, Gone
    <3> QED BY <3>3, <3>4 DEF Passes
  <2> QED BY <2>2, <2>3
<1> QED BY <1>1, <1>2, <1>3

LEMMA RoundPasses ==
    ASSUME SessionInv, TerminalAssumption,
           MarkInterrupted \/ ServiceRestart \/ \E t \in Tools : OtherEnds(t)
    PROVE  Passes
<1>1. row'.status = row.status
  BY DEF MarkInterrupted, ServiceRestart, OtherEnds
<1>2. CASE MarkInterrupted
  <2>1. CASE reply = "spares"
    <3>1. Onward(round, round', Tools \ {Shell}) /\ Shell \notin Tools \ {Shell}
      BY <1>2, <2>1, SessionFacts, MarkUnknownExceptOnward DEF MarkInterrupted
    <3> QED BY <1>1, <3>1, Passing
  <2>2. CASE reply # "spares"
    <3>1. Onward(round, round', {}) /\ Shell \notin {}
      BY <1>2, <2>2, SessionFacts, MarkUnknownOnward DEF MarkInterrupted
    <3> QED BY <1>1, <3>1, Passing
  <2> QED BY <2>1, <2>2
<1>3. CASE ServiceRestart
  <2>1. Onward(round, round', {}) /\ Shell \notin {}
    BY <1>3, SessionFacts, RecoveredOnward DEF ServiceRestart
  <2> QED BY <1>1, <2>1, Passing
<1>4. ASSUME NEW t \in Tools, OtherEnds(t) PROVE Passes
  <2>1. PICK s \in {"succeeded", "failed"} : round' = FinishIfComplete(FinishAttempt(round, t, s), Token)
    BY <1>4 DEF OtherEnds
  <2> DEFINE x == FinishAttempts(round, {t}, s)
             y == FinishIfComplete(x, Token)
  <2>2. s \in AttemptStatus \ {"none"}
    BY DEF AttemptStatus
  <2>3. Onward(round, x, {t})
    BY <2>2, SessionFacts, FinishAttemptsOnward
  <2>4. Lawful(x)
    BY <2>3 DEF Onward, Ends
  <2>5. Onward(x, y, {}) /\ round' = y
    BY <2>1, <2>4, FinishIfCompleteOnward DEF FinishAttempt
  <2> HIDE DEF x, y
  <2>6. Onward(round, y, {t} \cup {})
    BY <2>3, <2>5, SessionFacts, OnwardTransitive
  <2>7. Onward(round, round', {t}) /\ Shell \notin {t}
    <3>1. {t} \cup {} = {t} /\ t # Shell
      BY <1>4 DEF OtherEnds
    <3> QED BY <2>5, <2>6, <3>1
  <2> QED BY <1>1, <2>7, Passing
<1> QED BY <1>2, <1>3, <1>4

LEMMA NextPasses ==
    ASSUME SessionInv, TerminalAssumption, [Next]_vars
    PROVE  Passes
<1>1. CASE UNCHANGED vars
  BY <1>1, PassingRow DEF vars
<1>2. CASE Next
  BY <1>2, QuietPasses, RuntimePasses, DeletePasses, RoundPasses DEF Next, RuntimeStep, Poll
<1> QED BY <1>1, <1>2

-----------------------------------------------------------------------------
(* Types, runtimes and starts *)

Pcs == {"none", "claimed", "starting", "failing", "serving", "command", "closing", "answer", "refuse", "ending",
        "finalize", "unclosed", "release", "settle"}

Rows == [status: Status \cup {"absent", "settled", "deleted"}, by: Owner, proc: Owner]

Runtimes ==
    /\ pc \in [Workers -> Pcs] /\ local \in [Workers -> Status] /\ flag \in [Workers -> {"run", "stop", "lost"}]
    /\ cur \in [Workers -> Commands \cup {0}] /\ last \in [Workers -> Commands \cup {0}]

LEMMA NextType ==
    ASSUME SessionInv, TerminalAssumption, [Next]_vars, round' \in Round
    PROVE  TypeOK'
<1> USE DEF TypeOK, commands, runtimes, counters, Owner, Unfinished, Status, Active, Final, Fault, Goto
<1>0. TypeOK /\ (faults < MaxFaults => faults + 1 \in 0..MaxFaults) /\ Workers \subseteq Owner
  BY DEF SessionInv, TerminalAssumption
<1>a. (\A x : alive \ {x} \subseteq Workers) /\ \A w \in Workers : alive \cup {w} \subseteq Workers
  BY <1>0
<1>e. \A w \in Workers : Closes(w) \/ CloseFails(w) => alive' \subseteq Workers /\ faults' \in 0..MaxFaults
  BY <1>0, <1>a DEF Closes, CloseFails
<1>b. row \in Rows /\ \A v \in Owner : [row EXCEPT !.by = v] \in Rows
  BY <1>0 DEF Rows
<1>c. /\ [row EXCEPT !.by = 0] \in Rows /\ [row EXCEPT !.status = "lost", !.by = 0] \in Rows
      /\ \A w \in Workers : [row EXCEPT !.status = "running", !.proc = w] \in Rows
  BY <1>0 DEF Rows
<1>d. \A s \in {"settled", "deleted"} : [status |-> s, by |-> 0, proc |-> 0] \in Rows
  BY DEF Rows
<1>1. CASE CreateSession
  BY <1>0, <1>1 DEF CreateSession
<1>2. CASE DeleteSession
  BY <1>0, <1>2 DEF DeleteSession, DeleteRow
<1>3. CASE Interrupt
  BY <1>0, <1>3 DEF Interrupt
<1>4. CASE MarkInterrupted \/ ServiceRestart \/ \E t \in Tools : OtherEnds(t)
  <2>1. CASE MarkInterrupted
    BY <1>0, <2>1 DEF MarkInterrupted
  <2>2. CASE ServiceRestart
    BY <1>0, <2>2 DEF ServiceRestart
  <2>3. CASE \E t \in Tools : OtherEnds(t)
    BY <1>0, <2>3 DEF OtherEnds
  <2> QED BY <1>4, <2>1, <2>2, <2>3
<1>5. CASE Lapse
  BY <1>0, <1>5 DEF Lapse
<1>6. CASE UNCHANGED vars
  BY <1>0, <1>6 DEF vars
<1>7. ASSUME NEW c \in Commands, CompleteUnowned(c) PROVE TypeOK'
  <2>1. CASE kind[c] = "close"
    <3>1. row' \in Rows /\ alive' \subseteq Workers
      BY SMTT(30), <1>7, <1>a, <1>d, <2>1 DEF CompleteUnowned, DeleteRow
    <3>2. cmd' \in [Commands -> Unfinished \cup {"none", "succeeded", "failed", "deleted"}]
      <4>1. cmd' = [d \in Commands |-> IF cmd[d] = "none" THEN "none" ELSE "deleted"]
        BY <1>7, <2>1 DEF CompleteUnowned, DeleteRow
      <4> QED BY <4>1
    <3>3. told' \in [Commands -> {"nothing", "succeeded", "failed"}]
      <4>1. told' = [told EXCEPT ![c] = "succeeded"] /\ told \in [Commands -> {"nothing", "succeeded", "failed"}]
        BY <1>0, <1>7, <2>1 DEF CompleteUnowned
      <4> QED BY <4>1
    <3> QED BY <1>0, <1>7, <2>1, <3>1, <3>2, <3>3 DEF CompleteUnowned, DeleteRow, Rows
  <2>2. CASE kind[c] # "close"
    BY ZenonT(40), <1>0, <1>7, <2>2 DEF CompleteUnowned
  <2> QED BY <2>1, <2>2
<1>8. ASSUME NEW c \in Commands, NEW k \in {"read", "write", "close"}, Enqueue(c, k) PROVE TypeOK'
  BY <1>0, <1>8 DEF Enqueue
<1>9. ASSUME NEW w \in Workers, Poll(w) PROVE TypeOK'
  <2>1. CASE ClaimStarting(w)
    BY <1>0, <2>1 DEF ClaimStarting
  <2>2. CASE ClaimRecoverable(w)
    <3>1. alive' \subseteq Workers /\ faults' \in 0..MaxFaults
      BY <1>0, <1>a, <2>2 DEF ClaimRecoverable
    <3>2. row' \in Rows /\ coord' \in [Workers -> {"polling", "recovering", "stopping", "releasing", "off", "dead"}]
      BY <1>0, <1>b, <2>2 DEF ClaimRecoverable
    <3> QED BY <1>0, <2>2, <3>1, <3>2 DEF ClaimRecoverable, Rows
  <2>3. CASE RecoverSession(w)
    <3>1. CASE Updated(w, "lost")
      <4>1. row' = [row EXCEPT !.status = "lost", !.by = 0]
        BY <2>3, <3>1 DEF RecoverSession
      <4>2. cmd' \in [Commands -> Unfinished \cup {"none", "succeeded", "failed", "deleted"}]
        BY <1>0, <2>3, <3>1 DEF RecoverSession, Failed
      <4>3. row' \in Rows
        BY <1>c, <4>1
      <4> QED BY <1>0, <2>3, <4>2, <4>3 DEF RecoverSession, Rows
    <3>2. CASE ~Updated(w, "lost")
      BY <1>0, <2>3, <3>2 DEF RecoverSession
    <3> QED BY <3>1, <3>2
  <2>4. CASE CleanupFinal(w)
    BY <1>0, <2>4 DEF CleanupFinal, Failed
  <2>5. CASE ShutdownRelease(w)
    <3>1. coord' \in [Workers -> {"polling", "recovering", "stopping", "releasing", "off", "dead"}]
      BY <1>0, <2>5 DEF ShutdownRelease
    <3>2. row' \in Rows
      BY <1>b, <2>5 DEF ShutdownRelease
    <3>3. lapsed' \in BOOLEAN
      BY <1>0, <2>5 DEF ShutdownRelease
    <3>4. handed' \in Nat
      <4>1. handed' = handed \/ handed' = handed + 1
        BY <2>5 DEF ShutdownRelease
      <4> QED BY <1>0, <4>1
    <3> QED BY <1>0, <2>5, <3>1, <3>2, <3>3, <3>4 DEF ShutdownRelease, Rows
  <2>6. CASE Restart(w)
    BY <1>0, <2>6 DEF Restart
  <2> QED BY <1>9, <2>1, <2>2, <2>3, <2>4, <2>5, <2>6 DEF Poll
<1>10. ASSUME NEW w \in Workers, RuntimeFault(w) \/ ProcessExits(w) \/ RenewLost(w) \/ CoordinatorCloses(w) \/ Shutdown(w) \/ Crash(w)
       PROVE  TypeOK'
  <2>1. CASE StartError(w)
    BY <1>0, <1>e, <2>1 DEF StartError
  <2>7. CASE MarkLate(w)
    BY <1>0, <2>7 DEF MarkLate, Lose
  <2>2. CASE RuntimeError(w)
    BY <1>0, <2>2 DEF RuntimeError
  <2>3. CASE SettleError(w)
    BY <1>0, <2>3 DEF SettleError, Done
  <2>4. CASE ProcessExits(w) \/ CoordinatorCloses(w)
    <3>1. alive' \subseteq Workers
      BY <1>a, <2>4 DEF ProcessExits, CoordinatorCloses
    <3> QED BY <1>0, <2>4, <3>1 DEF ProcessExits, CoordinatorCloses
  <2>8. CASE RenewLost(w)
    <3>1. faults' \in 0..MaxFaults
      BY <1>0, <2>8 DEF RenewLost
    <3> QED BY <1>0, <2>8, <3>1 DEF RenewLost
  <2>5. CASE Shutdown(w)
    BY <1>0, <2>5 DEF Shutdown
  <2>6. CASE Crash(w)
    BY <1>0, <2>6 DEF Crash, Done
  <2> QED BY <1>10, <2>1, <2>2, <2>3, <2>4, <2>5, <2>6, <2>7, <2>8 DEF RuntimeFault
<1>11. ASSUME NEW w \in Workers, RuntimeStep(w) PROVE TypeOK'
  <2>1. CASE Initialize(w)
    <3>1. pc' \in [Workers -> Pcs] /\ flag' \in [Workers -> {"run", "stop", "lost"}]
      BY <1>0, <2>1 DEF Initialize, Lose, Pcs
    <3>2. alive' \subseteq Workers
      BY SMTT(30), <1>0, <1>a, <2>1 DEF Initialize
    <3>3. rowlock' \in Owner /\ starts' \in Nat
      BY <1>0, <2>1 DEF Initialize, Lose
    <3> QED BY <1>0, <2>1, <3>1, <3>2, <3>3 DEF Initialize, Pcs
  <2>2. CASE Started(w)
    <3>1. row' \in Rows
      <4>1. row' = row \/ row' = [row EXCEPT !.status = "running", !.proc = w]
        BY <2>2 DEF Started
      <4> QED BY <1>b, <1>c, <4>1
    <3>3. rowlock' \in Owner /\ local' \in [Workers -> Status]
      BY <1>0, <2>2 DEF Started, Lose
    <3>2. pc' \in [Workers -> Pcs] /\ flag' \in [Workers -> {"run", "stop", "lost"}]
      BY <1>0, <2>2 DEF Started, Lose, Pcs
    <3> QED BY <1>0, <2>2, <3>1, <3>2, <3>3 DEF Started, Pcs, Rows
  <2>3. CASE FailStart(w)
    BY <1>0, <2>3 DEF FailStart, Update, Lose
  <2>4. CASE LeaveServe(w) \/ ReadOrWrite(w)
    <3>1. pc' \in [Workers -> Pcs]
      BY <1>0, <2>4 DEF LeaveServe, ReadOrWrite, Pcs
    <3>2. UNCHANGED <<row, lapsed, rowlock, round, commands, coord, local, flag, cur, last, alive, counters, faults>>
      BY <2>4 DEF LeaveServe, ReadOrWrite
    <3> QED BY <1>0, <3>1, <3>2 DEF Pcs
  <2>14. CASE SnapshotRefused(w)
    BY <1>0, <2>14 DEF SnapshotRefused, Lose
  <2>5. CASE NaturalExit(w)
    <3>1. alive' \subseteq Workers /\ faults' \in 0..MaxFaults
      <4>1. UNCHANGED <<alive, faults>> \/ CloseFails(w)
        BY <2>5 DEF NaturalExit
      <4>2. CASE UNCHANGED <<alive, faults>>
        BY <1>0, <4>2
      <4>3. CASE CloseFails(w)
        BY <1>e, <4>3
      <4> QED BY <4>1, <4>2, <4>3
    <3>2. PICK s \in {"exited", "failed"}, a \in {"succeeded", "failed"} : Update(w, s, a, "serving")
      BY <2>5 DEF NaturalExit
    <3>3. pc' \in [Workers -> Pcs] /\ flag' \in [Workers -> {"run", "stop", "lost"}]
      BY <1>0, <3>2 DEF Update, Lose, Pcs
    <3>4. local' \in [Workers -> Status] /\ row' \in Rows
      BY <1>0, <3>2 DEF Update, Lose, Rows
    <3>5. UNCHANGED <<lapsed, rowlock, commands, coord, cur, last, counters>>
      BY <2>5 DEF NaturalExit
    <3> QED BY <1>0, <3>1, <3>3, <3>4, <3>5 DEF Pcs, Rows
  <2>6. CASE ClaimCommand(w)
    BY <1>0, <2>6 DEF ClaimCommand
  <2>7. CASE BeginClose(w)
    BY <1>0, <2>7 DEF BeginClose, Update, Lose
  <2>8. CASE CloseProcess(w)
    <3>1. alive' \subseteq Workers /\ faults' \in 0..MaxFaults
      <4>1. Closes(w) \/ CloseFails(w)
        BY <2>8 DEF CloseProcess
      <4> QED BY <1>e, <4>1
    <3>2. PICK s \in {"exited", "failed"}, a \in {"succeeded", "failed"}, next \in {"answer", "refuse"} :
            Update(w, s, a, next)
      BY <2>8 DEF CloseProcess
    <3>3. pc' \in [Workers -> Pcs] /\ flag' \in [Workers -> {"run", "stop", "lost"}]
      BY <1>0, <3>2 DEF Update, Lose, Pcs
    <3>4. local' \in [Workers -> Status] /\ row' \in Rows
      BY <1>0, <3>2 DEF Update, Lose, Rows
    <3>5. UNCHANGED <<lapsed, rowlock, commands, coord, cur, last, counters>>
      BY <2>8 DEF CloseProcess
    <3> QED BY <1>0, <3>1, <3>3, <3>4, <3>5 DEF Pcs, Rows
  <2>9. CASE Mark(w)
    BY <1>0, <2>9 DEF Mark, Lose
  <2>10. CASE ForceClose(w)
    <3>1. pc' \in [Workers -> Pcs]
      BY <1>0, <2>10 DEF ForceClose, Pcs
    <3>2. alive' \subseteq Workers /\ faults' \in 0..MaxFaults
      BY <1>e, <2>10 DEF ForceClose
    <3> QED BY <1>0, <2>10, <3>1, <3>2 DEF ForceClose, Pcs
  <2>11. CASE Finalize(w)
    BY <1>0, <2>11 DEF Finalize, Done
  <2>12. CASE Release(w)
    <3>1. row' \in Rows /\ lapsed' \in BOOLEAN
      <4>1. /\ row' = row \/ row' = [row EXCEPT !.by = 0]
            /\ lapsed' = lapsed \/ lapsed' = FALSE
        BY <2>12 DEF Release
      <4> QED BY ZenonT(40), <1>0, <1>b, <1>c, <4>1
    <3>3. cmd' \in [Commands -> Unfinished \cup {"none", "succeeded", "failed", "deleted"}]
      BY <1>0, <2>12 DEF Release, Failed
    <3>2. Runtimes'
      BY <1>0, <2>12 DEF Release, Done, Runtimes, Pcs
    <3> QED BY <1>0, <2>12, <3>1, <3>2, <3>3 DEF Release, Runtimes, Pcs, Rows
  <2>13. CASE Settle(w)
    <3>1. told' \in [Commands -> {"nothing", "succeeded", "failed"}]
      <4>1. CASE row.by # w
        BY <1>0, <2>13, <4>1 DEF Settle
      <4>2. CASE row.by = w
        <5>1. row.status \notin Gone
          BY <1>0, <4>2 DEF SessionInv, RowFit, TerminalAssumption, Gone
        <5>2. last[w] # 0 => cmd[last[w]] \in {"succeeded", "failed"}
          BY <1>0, <5>1 DEF SessionInv, RowFit, RuntimeFit
        <5>3. \A c \in Commands : c # 0
          BY DEF TerminalAssumption
        <5>4. told' = Answers(w)
          BY <2>13, <4>2 DEF Settle
        <5> QED BY <1>0, <5>2, <5>3, <5>4 DEF Answers
      <4> QED BY <4>1, <4>2
    <3>2. row' \in Rows /\ lapsed' \in BOOLEAN
      BY <1>0, <1>b, <1>d, <2>13 DEF Settle, DeleteRow
    <3>4. cmd' \in [Commands -> Unfinished \cup {"none", "succeeded", "failed", "deleted"}]
      BY <1>0, <2>13 DEF Settle, DeleteRow
    <3>3. Runtimes'
      BY <1>0, <2>13 DEF Settle, Done, Runtimes, Pcs
    <3> QED BY <1>0, <2>13, <3>1, <3>2, <3>3, <3>4 DEF Settle, Runtimes, Pcs, Rows
  <2> QED BY <1>11, <2>1, <2>2, <2>3, <2>4, <2>5, <2>6, <2>7, <2>8, <2>9, <2>10, <2>11, <2>12, <2>13, <2>14 DEF RuntimeStep
<1> QED BY <1>1, <1>2, <1>3, <1>4, <1>5, <1>6, <1>7, <1>8, <1>9, <1>10, <1>11 DEF Next

\* Where the row of a session goes: it does not return to an earlier status, what is over
\* stays over, and only a shutdown gives a session back that is to be started. A worker
\* does not come to own what it is about to start.
RowGoes ==
    /\ row.status \in Final => row'.status \in {row.status} \cup Gone
    /\ row.status \in Gone => row' = row
    /\ row'.by # 0 => row'.status \in Status
    /\ row'.status = "absent" => row' = row
    /\ row'.status = "starting" =>
        \/ row' = row
        \/ row.status = "absent" /\ row'.by = row.by
        \/ row.status = "starting" /\ row'.by # 0
        \/ row.status = "starting" /\ handed' = handed + 1
    /\ \A w \in Workers : row'.by = w => row.by = w \/ pc[w] # "claimed"

LEMMA UpdatedGoes ==
    ASSUME SessionInv, TerminalAssumption, NEW w \in Workers, NEW s \in Status, Updated(w, s), s # "starting",
           \/ row' = [row EXCEPT !.status = s]
           \/ row' = [row EXCEPT !.status = s, !.by = 0]
           \/ row' = [row EXCEPT !.status = s, !.proc = w]
    PROVE  RowGoes /\ (s \in Final => row'.status \in Final)
<1>1. row \in Rows /\ row.by # 0 /\ w # 0 /\ row.status \in Status
  BY DEF SessionInv, TypeOK, RowFit, Rows, Updated, Mine, TerminalAssumption
<1>2. row'.status = s
  BY <1>1 DEF Rows
<1>3. row.status \in Final => s = row.status
  BY DEF Updated, CanMove, Final
<1>4. row.status \notin Gone /\ s \notin {"absent", "starting"}
  BY <1>1 DEF Status, Active, Final, Gone
<1>5. row'.by \in {0, row.by}
  BY <1>1 DEF Rows
<1> QED BY <1>2, <1>3, <1>4, <1>5 DEF RowGoes, TerminalAssumption

\* Nothing is written to the row, or its owner or process only.
LEMMA OwnerGoes ==
    ASSUME SessionInv, TerminalAssumption,
           \/ row' = row
           \/ /\ row.status \in Status
              /\ \E v :
                    /\ row' = [row EXCEPT !.by = v]
                    /\ v = 0 \/ pc[v] # "claimed"
                    /\ v # 0 \/ row.status # "starting" \/ handed' = handed + 1
    PROVE  RowGoes
<1>1. row \in Rows /\ (row.by # 0 => row.status \in Status)
  BY DEF SessionInv, TypeOK, RowFit, Rows
<1>2. CASE row' = row
  BY <1>1, <1>2 DEF RowGoes
<1>3. ASSUME NEW v, row.status \in Status, row' = [row EXCEPT !.by = v], v = 0 \/ pc[v] # "claimed",
             v # 0 \/ row.status # "starting" \/ handed' = handed + 1
      PROVE  RowGoes
  <2>1. row'.status = row.status /\ row'.by = v
    BY <1>1, <1>3 DEF Rows
  <2>2. row.status \notin Gone /\ row.status # "absent"
    BY <1>3 DEF Status, Active, Final, Gone
  <2>3. \A w \in Workers : row'.by = w => pc[w] # "claimed"
    BY <1>3, <2>1 DEF TerminalAssumption
  <2>4. /\ row.status \in Final => row'.status \in {row.status} \cup Gone
        /\ row'.status # "absent" /\ row'.status \in Status
    BY <1>3, <2>1, <2>2
  <2>5. row'.status = "starting" => row.status = "starting" /\ (row'.by # 0 \/ handed' = handed + 1)
    BY <1>3, <2>1
  <2> QED BY <2>2, <2>3, <2>4, <2>5 DEF RowGoes
<1> QED BY <1>2, <1>3

LEMMA GoneGoes ==
    ASSUME SessionInv, TerminalAssumption, row.status \in Status, NEW s \in Gone, row' = [status |-> s, by |-> 0, proc |-> 0]
    PROVE  RowGoes
BY DEF RowGoes, Gone, Status, Active, Final, TerminalAssumption

LEMMA NextGoes ==
    ASSUME SessionInv, TerminalAssumption, [Next]_vars
    PROVE  RowGoes
<1>0. row \in Rows /\ (row.by # 0 => row.status \in Status) /\ \A w \in Workers : w # 0
  BY DEF SessionInv, TypeOK, RowFit, Rows, TerminalAssumption
<1>1. CASE CreateSession
  <2>1. row' = [row EXCEPT !.status = "starting"] /\ row.status = "absent"
    BY <1>1 DEF CreateSession
  <2>2. row'.status = "starting" /\ row'.by = row.by
    BY <1>0, <2>1 DEF Rows
  <2>3. row.by = 0
    BY <1>0, <2>1 DEF Status, Active, Final
  <2> QED BY <1>0, <2>1, <2>2, <2>3 DEF RowGoes, Final, Gone
<1>2. CASE DeleteSession
  <2>1. row.status \in Status /\ row' = [status |-> "deleted", by |-> 0, proc |-> 0] /\ "deleted" \in Gone
    BY <1>2 DEF DeleteSession, DeleteRow, Gone
  <2> QED BY <2>1, GoneGoes
<1>3. CASE \/ Interrupt \/ MarkInterrupted \/ ServiceRestart \/ Lapse \/ UNCHANGED vars
           \/ \E t \in Tools : OtherEnds(t)
           \/ \E c \in Commands, k \in {"read", "write", "close"} : Enqueue(c, k)
  <2>1. row' = row
    BY <1>3 DEF Interrupt, MarkInterrupted, ServiceRestart, Lapse, vars, OtherEnds, Enqueue
  <2> QED BY <2>1, OwnerGoes
<1>4. ASSUME NEW c \in Commands, CompleteUnowned(c) PROVE RowGoes
  <2>1. row.status \in Status /\ (row' = row \/ row' = [status |-> "settled", by |-> 0, proc |-> 0]) /\ "settled" \in Gone
    BY <1>4 DEF CompleteUnowned, DeleteRow, Gone, Status
  <2> QED BY <2>1, GoneGoes, OwnerGoes
<1>5. ASSUME NEW w \in Workers, RuntimeFault(w) \/ ProcessExits(w) \/ RenewLost(w) \/ CoordinatorCloses(w) \/ Shutdown(w) \/ Crash(w)
      PROVE  RowGoes
  <2>1. row' = row
    BY <1>5 DEF RuntimeFault, StartError, MarkLate, RuntimeError, SettleError, ProcessExits, RenewLost, CoordinatorCloses,
       Shutdown, Crash
  <2> QED BY <2>1, OwnerGoes
<1>6. ASSUME NEW w \in Workers, Poll(w) PROVE RowGoes
  <2>1. CASE ClaimStarting(w) \/ ClaimRecoverable(w)
    <3>1. row' = [row EXCEPT !.by = w] /\ row.status \in Status /\ w # 0 /\ pc[w] # "claimed"
      BY SMTT(30), <1>0, <2>1 DEF ClaimStarting, MayStart, ClaimRecoverable, Recoverable, Initializing, Status, Active
    <3> QED BY <3>1, OwnerGoes
  <2>2. CASE RecoverSession(w)
    <3>1. row' = row \/ (Updated(w, "lost") /\ row' = [row EXCEPT !.status = "lost", !.by = 0])
      BY <2>2 DEF RecoverSession
    <3>2. "lost" \in Status /\ "lost" # "starting"
      BY DEF Status, Final
    <3> QED BY <3>1, <3>2, OwnerGoes, UpdatedGoes
  <2>3. CASE CleanupFinal(w)
    <3>1. row' = [row EXCEPT !.by = 0] /\ row.status \in Status /\ row.status # "starting"
      BY <2>3 DEF CleanupFinal, Status, Final
    <3> QED BY <3>1, OwnerGoes
  <2>4. CASE ShutdownRelease(w)
    <3>1. CASE coord[w] = "releasing" /\ row.by = w
      <4>1. row' = [row EXCEPT !.by = 0] /\ row.status \in Status /\ (row.status # "starting" \/ handed' = handed + 1)
        BY <1>0, <2>4, <3>1 DEF ShutdownRelease
      <4> QED BY <4>1, OwnerGoes
    <3>2. CASE ~(coord[w] = "releasing" /\ row.by = w)
      <4>1. row' = row
        BY <2>4, <3>2 DEF ShutdownRelease
      <4> QED BY <4>1, OwnerGoes
    <3> QED BY <3>1, <3>2
  <2>5. CASE Restart(w)
    BY <2>5, OwnerGoes DEF Restart
  <2> QED BY <1>6, <2>1, <2>2, <2>3, <2>4, <2>5 DEF Poll
<1>7. ASSUME NEW w \in Workers, RuntimeStep(w) PROVE RowGoes
  <2>1. CASE \/ Initialize(w) \/ LeaveServe(w) \/ SnapshotRefused(w) \/ ClaimCommand(w) \/ ReadOrWrite(w)
             \/ Mark(w) \/ ForceClose(w)
    <3>1. row' = row
      BY SMTT(30), <2>1 DEF Initialize, LeaveServe, SnapshotRefused, ClaimCommand, ReadOrWrite, Mark, ForceClose
    <3> QED BY <3>1, OwnerGoes
  <2>2. CASE Started(w) \/ FailStart(w) \/ NaturalExit(w) \/ BeginClose(w) \/ CloseProcess(w) \/ Finalize(w)
    <3>1. \/ row' = row
          \/ \E s \in Status \ {"starting"} :
                /\ Updated(w, s)
                /\ row' = [row EXCEPT !.status = s] \/ row' = [row EXCEPT !.status = s, !.proc = w]
      <4>1. {"running", "closing", "exited", "failed", "lost"} \subseteq Status \ {"starting"}
        BY DEF Status, Active, Final
      <4> QED BY <2>2, <4>1 DEF Started, FailStart, NaturalExit, BeginClose, CloseProcess, Finalize, Update
    <3> QED BY <3>1, OwnerGoes, UpdatedGoes
  <2>3. CASE Release(w)
    <3>1. CASE row.by = w
      <4>1. row.status \in Status /\ row.status # "starting"
        BY <1>0, <2>3, <3>1 DEF Release, SessionInv, RuntimeFit, Gone, Final
      <4> QED BY <2>3, <3>1, <4>1, OwnerGoes DEF Release
    <3>2. CASE row.by # w
      BY <2>3, <3>2, OwnerGoes DEF Release
    <3> QED BY <3>1, <3>2
  <2>4. CASE Settle(w)
    <3>1. CASE row.by = w
      <4>1. row.status \in Status /\ row' = [status |-> "settled", by |-> 0, proc |-> 0] /\ "settled" \in Gone
        BY <1>0, <2>4, <3>1 DEF Settle, DeleteRow, Gone
      <4> QED BY <4>1, GoneGoes
    <3>2. CASE row.by # w
      BY <2>4, <3>2, OwnerGoes DEF Settle
    <3> QED BY <3>1, <3>2
  <2> QED BY <1>7, <2>1, <2>2, <2>3, <2>4 DEF RuntimeStep
<1> QED BY <1>1, <1>2, <1>3, <1>4, <1>5, <1>6, <1>7 DEF Next

Answered == {"succeeded", "failed", "deleted"}

\* A command that has its answer keeps it or is deleted; one is deleted with the row.
CommandsGo ==
    \A c \in Commands :
        /\ cmd[c] \in Answered => cmd'[c] \in Answered
        /\ cmd'[c] = "deleted" => cmd[c] = "deleted" \/ row'.status \in Gone

LEMMA NextCommandsGo ==
    ASSUME SessionInv, TerminalAssumption, [Next]_vars
    PROVE  CommandsGo
<1>0. cmd \in [Commands -> Unfinished \cup {"none", "succeeded", "failed", "deleted"}]
  BY DEF SessionInv, TypeOK
<1> USE DEF CommandsGo, Answered, Unfinished, commands
<1>1. CASE cmd' = cmd
  BY <1>1
<1>2. CASE cmd' = Failed
  BY <1>0, <1>2 DEF Failed
<1>3. ASSUME NEW s \in Gone, DeleteRow(s) PROVE CommandsGo
  BY <1>0, <1>3 DEF DeleteRow, Gone
<1>4. ASSUME NEW c \in Commands, NEW s, s # "deleted", cmd[c] \notin Answered \/ s \in Answered,
             cmd' = [cmd EXCEPT ![c] = s]
      PROVE  CommandsGo
  BY <1>0, <1>4
<1>5. CASE CreateSession \/ Interrupt \/ MarkInterrupted \/ ServiceRestart \/ Lapse \/ UNCHANGED vars
           \/ \E t \in Tools : OtherEnds(t)
  BY <1>1, <1>5 DEF CreateSession, Interrupt, MarkInterrupted, ServiceRestart, Lapse, vars, OtherEnds
<1>6. CASE DeleteSession
  BY <1>3, <1>6 DEF DeleteSession, Gone
<1>7. ASSUME NEW c \in Commands, CompleteUnowned(c) PROVE CommandsGo
  <2>1. CASE kind[c] = "close"
    BY <1>3, <1>7, <2>1 DEF CompleteUnowned, Gone
  <2>2. CASE kind[c] # "close"
    <3>1. PICK s \in {"succeeded", "failed"} : cmd' = [cmd EXCEPT ![c] = s]
      BY <1>7, <2>2 DEF CompleteUnowned
    <3> QED BY <1>4, <3>1
  <2> QED BY <2>1, <2>2
<1>8. ASSUME NEW c \in Commands, NEW k, Enqueue(c, k) PROVE CommandsGo
  <2>1. cmd[c] \notin Answered /\ cmd' = [cmd EXCEPT ![c] = "pending"]
    BY <1>8 DEF Enqueue
  <2> QED BY <1>4, <2>1
<1>9. ASSUME NEW w \in Workers, Poll(w) PROVE CommandsGo
  BY <1>1, <1>2, <1>9 DEF Poll, ClaimStarting, ClaimRecoverable, RecoverSession, CleanupFinal, ShutdownRelease, Restart
<1>10. ASSUME NEW w \in Workers, RuntimeFault(w) \/ ProcessExits(w) \/ RenewLost(w) \/ CoordinatorCloses(w) \/ Shutdown(w) \/ Crash(w)
       PROVE  CommandsGo
  BY <1>1, <1>10 DEF RuntimeFault, StartError, MarkLate, RuntimeError, SettleError, ProcessExits, RenewLost, CoordinatorCloses,
     Shutdown, Crash
<1>11. ASSUME NEW w \in Workers, RuntimeStep(w) PROVE CommandsGo
  <2>1. CASE \/ Initialize(w) \/ Started(w) \/ FailStart(w) \/ LeaveServe(w) \/ NaturalExit(w) \/ SnapshotRefused(w)
             \/ ReadOrWrite(w) \/ BeginClose(w) \/ CloseProcess(w) \/ ForceClose(w) \/ Finalize(w)
    <3>1. cmd' = cmd
      BY <2>1 DEF Initialize, Started, FailStart, LeaveServe, NaturalExit, SnapshotRefused, ReadOrWrite, BeginClose,
         CloseProcess, ForceClose, Finalize
    <3> QED BY <1>1, <3>1
  <2>2. CASE ClaimCommand(w)
    <3>1. PICK c \in Commands : cmd[c] = "pending" /\ cmd' = [cmd EXCEPT ![c] = "processing"]
      BY <2>2 DEF ClaimCommand
    <3> QED BY <1>4, <3>1
  <2>3. CASE Mark(w)
    <3>1. CASE cmd' = cmd
      BY <1>1, <3>1
    <3>2. ASSUME NEW s \in {"succeeded", "failed"}, cmd' = [cmd EXCEPT ![cur[w]] = s] PROVE CommandsGo
      BY <1>0, <3>2
    <3> QED BY <2>3, <3>1, <3>2 DEF Mark
  <2>4. CASE Release(w)
    <3>1. cmd' = cmd \/ cmd' = Failed
      BY <2>4 DEF Release
    <3> QED BY <1>1, <1>2, <3>1
  <2>5. CASE Settle(w)
    <3>1. cmd' = cmd \/ DeleteRow("settled")
      BY <2>5 DEF Settle
    <3> QED BY <1>1, <1>3, <3>1 DEF Gone
  <2> QED BY <1>11, <2>1, <2>2, <2>3, <2>4, <2>5 DEF RuntimeStep
<1> QED BY <1>5, <1>6, <1>7, <1>8, <1>9, <1>10, <1>11 DEF Next

\* What a runtime knows to be over is; it settles or releases what it knows to be over;
\* what it takes for completed has its answer.
RuntimesGo ==
    \A w \in Workers :
        /\ local'[w] \in Final => local[w] \in Final \/ row'.status \in Final
        /\ pc'[w] \in {"release", "settle"} => local'[w] \in Final
        /\ last'[w] # 0 => last'[w] = last[w] \/ cmd'[last'[w]] \in Answered

\* No runtime begins.
NoneClaims ==
    \A w \in Workers :
        /\ pc[w] = "none" => pc'[w] = "none"
        /\ pc'[w] = "claimed" => pc[w] = "claimed"

LEMMA SameRuntimes ==
    ASSUME SessionInv, UNCHANGED <<pc, local, last>>
    PROVE  RuntimesGo /\ NoneClaims
BY DEF SessionInv, RuntimeFit, RuntimesGo, NoneClaims

LEMMA OneRuntime ==
    ASSUME SessionInv, NEW w \in Workers, NEW to, NEW s, NEW l,
           pc' = [pc EXCEPT ![w] = to], local' = [local EXCEPT ![w] = s], last' = [last EXCEPT ![w] = l],
           s \in Final => local[w] \in Final \/ row'.status \in Final,
           to \in {"release", "settle"} => s \in Final,
           l # 0 => l = last[w] \/ cmd'[l] \in Answered
    PROVE  /\ RuntimesGo
           /\ to # "claimed" /\ (pc[w] = "none" => to = "none") => NoneClaims
<1>1. /\ \A v \in Workers : pc'[v] = IF v = w THEN to ELSE pc[v]
      /\ \A v \in Workers : local'[v] = IF v = w THEN s ELSE local[v]
      /\ \A v \in Workers : last'[v] = IF v = w THEN l ELSE last[v]
  BY DEF SessionInv, TypeOK
<1>2. \A v \in Workers : pc[v] \in {"release", "settle"} => local[v] \in Final
  BY DEF SessionInv, RuntimeFit
<1> QED BY <1>1, <1>2 DEF RuntimesGo, NoneClaims

LEMMA GotoGoes ==
    ASSUME SessionInv, NEW w \in Workers, NEW to, Goto(w, to), UNCHANGED <<local, last>>, to \notin {"release", "settle"}
    PROVE  /\ RuntimesGo
           /\ to # "claimed" /\ (pc[w] = "none" => to = "none") => NoneClaims
<1>1. local' = [local EXCEPT ![w] = local[w]] /\ last' = [last EXCEPT ![w] = last[w]]
  BY DEF SessionInv, TypeOK
<1> QED BY <1>1, OneRuntime DEF Goto

LEMMA DoneGoes ==
    ASSUME SessionInv, NEW w \in Workers, Done(w)
    PROVE  RuntimesGo /\ NoneClaims
<1>1. "starting" \notin Final
  BY DEF Final
<1> QED BY <1>1, OneRuntime DEF Done, Goto

LEMMA UpdateGoes ==
    ASSUME SessionInv, NEW w \in Workers, NEW s, NEW a, NEW next, Update(w, s, a, next), UNCHANGED last,
           pc[w] # "none", next \notin {"release", "settle", "claimed"}
    PROVE  RuntimesGo /\ NoneClaims
<1>1. CASE Updated(w, s)
  <2>1. last' = [last EXCEPT ![w] = last[w]] /\ row \in Rows
    BY DEF SessionInv, TypeOK, Rows
  <2>2. row'.status = s
    BY <1>1, <2>1 DEF Update, Rows
  <2>3. pc' = [pc EXCEPT ![w] = next] /\ local' = [local EXCEPT ![w] = s]
    BY <1>1 DEF Update, Goto
  <2> QED BY <2>1, <2>2, <2>3, OneRuntime
<1>2. CASE ~Updated(w, s)
  <2>1. Goto(w, "ending") /\ UNCHANGED <<local, last>>
    BY <1>2 DEF Update, Lose
  <2> QED BY <2>1, GotoGoes
<1> QED BY <1>1, <1>2

\* The runtimes and, but for a claim and a start, the claims and the number of starts.
Quiet == RuntimesGo /\ NoneClaims /\ starts' = starts /\ handed' \in {handed, handed + 1}

LEMMA RuntimeGoes ==
    ASSUME SessionInv, TerminalAssumption, NEW w \in Workers, RuntimeStep(w)
    PROVE  /\ RuntimesGo /\ NoneClaims /\ handed' = handed
           /\ ~Initialize(w) => starts' = starts
<1> USE DEF counters
<1>1. CASE Initialize(w)
  <2>1. \/ Goto(w, "starting") /\ UNCHANGED <<local, last, handed>>
        \/ Goto(w, "ending") /\ UNCHANGED <<local, last, handed>>
    BY <1>1 DEF Initialize, Lose
  <2>2. pc[w] # "none"
    BY <1>1 DEF Initialize
  <2> QED BY <1>1, <2>1, <2>2, GotoGoes
<1>2. CASE Started(w)
  <2>1. /\ pc[w] = "starting" /\ UNCHANGED counters /\ UNCHANGED last
        /\ \/ Goto(w, "ending") /\ UNCHANGED local
           \/ \E to \in {"serving", "ending"} : local' = [local EXCEPT ![w] = "running"] /\ Goto(w, to)
    BY <1>2 DEF Started, Lose
  <2>2. last' = [last EXCEPT ![w] = last[w]] /\ "running" \notin Final
    BY <2>1 DEF SessionInv, TypeOK, Final
  <2>3. CASE Goto(w, "ending") /\ UNCHANGED local
    BY <2>1, <2>3, GotoGoes
  <2>4. ASSUME NEW to \in {"serving", "ending"}, local' = [local EXCEPT ![w] = "running"], Goto(w, to)
        PROVE  RuntimesGo /\ NoneClaims
    BY <2>1, <2>2, <2>4, OneRuntime DEF Goto
  <2> QED BY <2>1, <2>3, <2>4
<1>3. CASE FailStart(w) \/ NaturalExit(w) \/ BeginClose(w) \/ CloseProcess(w)
  <2>1. /\ pc[w] # "none" /\ UNCHANGED counters /\ UNCHANGED last
        /\ \E s, a, next : Update(w, s, a, next) /\ next \notin {"release", "settle", "claimed"}
    BY <1>3 DEF FailStart, NaturalExit, BeginClose, CloseProcess
  <2> QED BY <2>1, UpdateGoes
<1>4. CASE LeaveServe(w) \/ SnapshotRefused(w) \/ ClaimCommand(w) \/ ReadOrWrite(w) \/ ForceClose(w)
  <2>1. /\ pc[w] # "none" /\ UNCHANGED counters /\ UNCHANGED <<local, last>>
        /\ \E to \in {"ending", "command", "answer", "refuse", "finalize", "unclosed"} : Goto(w, to)
    BY <1>4 DEF LeaveServe, SnapshotRefused, ClaimCommand, ReadOrWrite, ForceClose, Lose
  <2> QED BY <2>1, GotoGoes
<1>5. CASE Mark(w)
  <2>1. pc[w] # "none" /\ UNCHANGED <<counters, local>> /\ local' = [local EXCEPT ![w] = local[w]]
    BY <1>5 DEF Mark, SessionInv, TypeOK
  <2>2. CASE Mine(w) /\ cmd[cur[w]] = "processing"
    <3>1. /\ pc' = [pc EXCEPT ![w] = "serving"] /\ last' = [last EXCEPT ![w] = cur[w]]
          /\ cmd' = [cmd EXCEPT ![cur[w]] = IF pc[w] = "answer" THEN "succeeded" ELSE "failed"]
      BY <1>5, <2>2 DEF Mark, Goto
    <3>2. cur[w] # 0 => cmd'[cur[w]] \in Answered
      BY <3>1 DEF SessionInv, TypeOK, Answered
    <3>3. RuntimesGo /\ NoneClaims
      <4> HIDE DEF counters
      <4> DEFINE l == cur[w]
                 s == local[w]
                 to == "serving"
      <4>1. pc' = [pc EXCEPT ![w] = to] /\ local' = [local EXCEPT ![w] = s] /\ last' = [last EXCEPT ![w] = l]
        BY <2>1, <3>1
      <4>2. (l # 0 => l = last[w] \/ cmd'[l] \in Answered) /\ (s \in Final => local[w] \in Final \/ row'.status \in Final)
        BY <3>2
      <4>3. to \notin {"release", "settle"} /\ to # "claimed"
        OBVIOUS
      <4> HIDE DEF l, s, to
      <4> QED BY <2>1, <4>1, <4>2, <4>3, OneRuntime
    <3> QED BY <2>1, <3>3
  <2>3. CASE ~(Mine(w) /\ cmd[cur[w]] = "processing")
    <3>1. Goto(w, "ending") /\ UNCHANGED last
      BY <1>5, <2>3 DEF Mark, Lose
    <3> QED BY <2>1, <3>1, GotoGoes
  <2> QED BY <2>2, <2>3
<1>6. CASE Finalize(w)
  <2>1. pc[w] # "none" /\ UNCHANGED counters
    BY <1>6 DEF Finalize
  <2>2. local = [local EXCEPT ![w] = local[w]] /\ last = [last EXCEPT ![w] = last[w]] /\ row \in Rows
    BY DEF SessionInv, TypeOK, Rows
  <2>3. CASE Done(w)
    BY <2>1, <2>3, DoneGoes
  <2>4. CASE local[w] \in Final /\ UNCHANGED <<local, last>> /\ \E to \in {"settle", "release"} : Goto(w, to)
    <3>1. PICK to \in {"settle", "release"} : Goto(w, to)
      BY <2>4
    <3> DEFINE l == last[w]
               s == local[w]
    <3>2. pc' = [pc EXCEPT ![w] = to] /\ local' = [local EXCEPT ![w] = s] /\ last' = [last EXCEPT ![w] = l] /\ l = last[w]
      BY <2>2, <2>4, <3>1 DEF Goto
    <3>3. s \in Final /\ local[w] \in Final /\ to # "claimed"
      BY <2>4
    <3> HIDE DEF l, s
    <3> QED BY <2>1, <3>2, <3>3, OneRuntime
  <2>5. CASE /\ row' = [row EXCEPT !.status = "lost"] /\ local' = [local EXCEPT ![w] = "lost"]
             /\ Goto(w, "release") /\ UNCHANGED last
    <3>1. row'.status = "lost" /\ "lost" \in Final
      BY <2>2, <2>5 DEF Rows, Final
    <3> DEFINE l == last[w]
               to == "release"
               s == "lost"
    <3>2. pc' = [pc EXCEPT ![w] = to] /\ local' = [local EXCEPT ![w] = s] /\ last' = [last EXCEPT ![w] = l] /\ l = last[w]
      BY <2>2, <2>5 DEF Goto
    <3>3. s \in Final /\ row'.status \in Final /\ to # "claimed"
      BY <3>1
    <3> HIDE DEF l, s, to
    <3> QED BY <2>1, <3>2, <3>3, OneRuntime
  <2> QED BY <1>6, <2>3, <2>4, <2>5 DEF Finalize
<1>7. CASE Release(w) \/ Settle(w)
  <2>1. Done(w) /\ UNCHANGED counters
    BY <1>7 DEF Release, Settle
  <2> QED BY <2>1, DoneGoes
<1> QED BY <1>1, <1>2, <1>3, <1>4, <1>5, <1>6, <1>7 DEF RuntimeStep

LEMMA OtherGoes ==
    ASSUME SessionInv, TerminalAssumption, [Next]_vars, NEW w \in Workers,
           \/ RuntimeFault(w) \/ ProcessExits(w) \/ RenewLost(w) \/ CoordinatorCloses(w) \/ Shutdown(w) \/ Crash(w)
           \/ ClaimRecoverable(w) \/ RecoverSession(w) \/ CleanupFinal(w) \/ ShutdownRelease(w) \/ Restart(w)
    PROVE  Quiet
<1> USE DEF counters
<1>1. CASE StartError(w) \/ MarkLate(w) \/ RuntimeError(w)
  <2>1. /\ pc[w] # "none" /\ UNCHANGED counters /\ UNCHANGED <<local, last>>
        /\ \E to \in {"failing", "ending"} : Goto(w, to)
    BY <1>1 DEF StartError, MarkLate, RuntimeError, Lose
  <2> QED BY <2>1, GotoGoes DEF Quiet
<1>2. CASE SettleError(w) \/ Crash(w)
  <2>1. Done(w) /\ UNCHANGED counters
    BY <1>2 DEF SettleError, Crash
  <2> QED BY <2>1, DoneGoes DEF Quiet
<1>3. CASE \/ ProcessExits(w) \/ RenewLost(w) \/ CoordinatorCloses(w) \/ Shutdown(w)
           \/ ClaimRecoverable(w) \/ RecoverSession(w) \/ CleanupFinal(w) \/ ShutdownRelease(w) \/ Restart(w)
  <2>1. CASE ShutdownRelease(w)
    <3>1. UNCHANGED <<pc, local, last, starts>>
      BY <2>1 DEF ShutdownRelease, runtimes
    <3>2. handed' \in {handed, handed + 1}
      BY <2>1 DEF ShutdownRelease
    <3> QED BY <3>1, <3>2, SameRuntimes DEF Quiet
  <2>2. CASE ~ShutdownRelease(w)
    <3>1. UNCHANGED <<pc, local, last, starts, handed>>
      BY <1>3, <2>2 DEF ProcessExits, RenewLost, CoordinatorCloses, Shutdown, ClaimRecoverable, RecoverSession,
         CleanupFinal, Restart, runtimes
    <3> QED BY <3>1, SameRuntimes DEF Quiet
  <2> QED BY <2>1, <2>2
<1> QED BY <1>1, <1>2, <1>3 DEF RuntimeFault

\* Every step but the two by which a session is claimed to be started and started.
LEMMA NextGoesOn ==
    ASSUME SessionInv, TerminalAssumption, [Next]_vars
    PROVE  \/ Quiet
           \/ \E w \in Workers : ClaimStarting(w) /\ RuntimesGo
           \/ \E w \in Workers : Initialize(w) /\ RuntimesGo /\ NoneClaims /\ handed' = handed
<1>1. CASE \/ CreateSession \/ DeleteSession \/ Interrupt \/ MarkInterrupted \/ ServiceRestart \/ Lapse \/ UNCHANGED vars
           \/ \E c \in Commands : CompleteUnowned(c) \/ \E k \in {"read", "write", "close"} : Enqueue(c, k)
           \/ \E t \in Tools : OtherEnds(t)
  <2>1. UNCHANGED <<pc, local, last, starts, handed>>
    BY <1>1 DEF CreateSession, DeleteSession, Interrupt, MarkInterrupted, ServiceRestart, Lapse, vars, CompleteUnowned,
       Enqueue, OtherEnds, runtimes, counters
  <2> QED BY <2>1, SameRuntimes DEF Quiet
<1>2. ASSUME NEW w \in Workers, RuntimeStep(w)
      PROVE  Quiet \/ (Initialize(w) /\ RuntimesGo /\ NoneClaims /\ handed' = handed)
  BY <1>2, RuntimeGoes DEF Quiet
<1>3. ASSUME NEW w \in Workers, ClaimStarting(w) PROVE RuntimesGo
  <2>1. Goto(w, "claimed") /\ UNCHANGED <<local, last>>
    BY <1>3 DEF ClaimStarting
  <2> QED BY <2>1, GotoGoes
<1> QED BY <1>1, <1>2, <1>3, OtherGoes DEF Next, Poll

LEMMA NextRowFit ==
    ASSUME SessionInv, RowGoes, CommandsGo, row' \in Rows
    PROVE  RowFit'
<1>1. row'.by # 0 => row'.status \in Status
  BY DEF RowGoes
<1>2. ASSUME NEW c \in Commands, cmd'[c] = "deleted" PROVE row'.status \in Gone
  <2>1. cmd[c] = "deleted" \/ row'.status \in Gone
    BY <1>2 DEF CommandsGo
  <2>2. cmd[c] = "deleted" => row.status \in Gone
    BY DEF SessionInv, RowFit
  <2>3. row.status \in Gone => row' = row
    BY DEF RowGoes
  <2> QED BY <2>1, <2>2, <2>3
<1> QED BY <1>1, <1>2 DEF RowFit

LEMMA NextRuntimeFit ==
    ASSUME SessionInv, RowGoes, CommandsGo, RuntimesGo, TypeOK'
    PROVE  RuntimeFit'
<1> SUFFICES ASSUME NEW w \in Workers
             PROVE  /\ local'[w] \in Final => row'.status \in Final \cup Gone
                    /\ pc'[w] \in {"release", "settle"} => local'[w] \in Final
                    /\ last'[w] # 0 => cmd'[last'[w]] \in Answered
  BY DEF RuntimeFit, Answered
<1>1. local'[w] \in Final => row'.status \in Final \cup Gone
  <2>1. local'[w] \in Final => local[w] \in Final \/ row'.status \in Final
    BY DEF RuntimesGo
  <2>2. local[w] \in Final => row.status \in Final \cup Gone
    BY DEF SessionInv, RuntimeFit
  <2>3. row.status \in Final \cup Gone => row'.status \in Final \cup Gone
    BY DEF RowGoes
  <2> QED BY <2>1, <2>2, <2>3
<1>2. pc'[w] \in {"release", "settle"} => local'[w] \in Final
  BY DEF RuntimesGo
<1>3. last'[w] # 0 => cmd'[last'[w]] \in Answered
  <2>1. CASE last'[w] # 0 /\ last'[w] = last[w]
    <3>1. last[w] \in Commands /\ cmd[last[w]] \in Answered
      BY <2>1 DEF SessionInv, TypeOK, RuntimeFit, Answered
    <3> QED BY <2>1, <3>1 DEF CommandsGo
  <2> QED BY <2>1 DEF RuntimesGo
<1> QED BY <1>1, <1>2, <1>3

LEMMA NextStartFit ==
    ASSUME SessionInv, TerminalAssumption, [Next]_vars, RowGoes
    PROVE  StartFit'
<1>0. pc \in [Workers -> Pcs] /\ row \in Rows /\ starts \in Nat /\ handed \in Nat
  BY DEF SessionInv, TypeOK, Pcs, Rows
<1>1. CASE Quiet
  <2>1. starts' = starts /\ handed' \in {handed, handed + 1} /\ NoneClaims
    BY <1>1 DEF Quiet
  <2>2. starts <= 1 + handed
    BY DEF SessionInv, StartFit
  <2>3. ASSUME row'.by = 0, row'.status \in {"absent", "starting"} PROVE starts' <= handed'
    <3>1. \/ row.by = 0 /\ row.status \in {"absent", "starting"}
          \/ handed' = handed + 1
      BY <2>3 DEF RowGoes
    <3>2. row.by = 0 /\ row.status \in {"absent", "starting"} => starts <= handed
      BY DEF SessionInv, StartFit
    <3> QED BY <1>0, <2>1, <2>2, <3>1, <3>2
  <2>4. ASSUME NEW w \in Workers, pc'[w] = "claimed", row'.by = w PROVE starts' <= handed'
    <3>1. pc[w] = "claimed" /\ row.by = w
      BY <2>1, <2>4 DEF NoneClaims, RowGoes
    <3>2. starts <= handed
      BY <3>1 DEF SessionInv, StartFit
    <3> QED BY <1>0, <2>1, <3>2
  <2>5. starts' <= 1 + handed'
    <3>1. starts \in Nat /\ handed \in Nat /\ starts' = starts
      BY <1>0, <2>1
    <3>2. handed' = handed \/ handed' = handed + 1
      BY <2>1
    <3> QED BY <2>2, <3>1, <3>2
  <2> QED BY <2>3, <2>4, <2>5 DEF StartFit
<1>2. ASSUME NEW w \in Workers, ClaimStarting(w) PROVE StartFit'
  <2>1. row.by = 0 /\ row.status = "starting" /\ row' = [row EXCEPT !.by = w] /\ handed' = handed /\ starts' = starts
    BY <1>2 DEF ClaimStarting, MayStart, counters
  <2>2. row'.by # 0
    BY <1>0, <2>1 DEF Rows, TerminalAssumption
  <2>3. starts <= handed
    BY <2>1 DEF SessionInv, StartFit
  <2> QED BY <1>0, <2>1, <2>2, <2>3 DEF StartFit
<1>3. ASSUME NEW w \in Workers, Initialize(w) PROVE StartFit'
  <2>1. pc[w] = "claimed" /\ UNCHANGED <<row, handed>>
    BY <1>3 DEF Initialize
  <2>2. CASE row.by = w
    <3>1. starts <= handed /\ row'.by # 0
      BY <2>1, <2>2 DEF SessionInv, StartFit, TerminalAssumption
    <3>2. starts' = starts + 1 /\ pc' = [pc EXCEPT ![w] = "starting"]
      BY <1>3, <2>2 DEF Initialize, Goto
    <3>3. \A v \in Workers : row'.by = v => pc'[v] # "claimed"
      BY <1>0, <2>1, <2>2, <3>2
    <3> QED BY <1>0, <2>1, <3>1, <3>2, <3>3 DEF StartFit
  <2>3. CASE row.by # w
    <3>1. starts' = starts /\ pc' = [pc EXCEPT ![w] = "ending"]
      BY <1>3, <2>3 DEF Initialize, Goto, Lose
    <3>2. \A v \in Workers : pc'[v] = "claimed" => pc[v] = "claimed"
      BY <1>0, <3>1
    <3> QED BY <1>0, <2>1, <3>1, <3>2 DEF SessionInv, StartFit
  <2> QED BY <2>2, <2>3
<1> QED BY <1>1, <1>2, <1>3, NextGoesOn

LEMMA SessionInit == ASSUME TerminalAssumption, Init PROVE SessionInv
<1>2. round \in Round /\ round.status = "executing" /\ round.token = 1 /\ \A t \in Tools : round.attempts[t] = "running"
  BY DEF Init, Token, Round, RecordStatus, AttemptStatus
<1>3. Under(round, Token)
  BY <1>2 DEF Under, Lawful, Token
<1>4. Tells(row.status, round)
  <2>1. row.status = "absent" /\ MayFinish(round, Shell)
    BY <1>2 DEF Init, MayFinish, TerminalAssumption
  <2> QED BY <2>1 DEF Tells, Gone
<1>5. TypeOK
  <2>1. 0 \in Owner /\ 0 \in 0..MaxFaults /\ "starting" \in Status
    BY DEF Owner, Status, Active, TerminalAssumption
  <2>2. row \in [status: Status \cup {"absent", "settled", "deleted"}, by: Owner, proc: Owner]
    BY <2>1 DEF Init
  <2>3. /\ cmd \in [Commands -> Unfinished \cup {"none", "succeeded", "failed", "deleted"}]
        /\ kind \in [Commands -> {"none", "read", "write", "close"}]
        /\ told \in [Commands -> {"nothing", "succeeded", "failed"}]
    BY DEF Init
  <2>4. /\ coord \in [Workers -> {"polling", "recovering", "stopping", "releasing", "off", "dead"}]
        /\ pc \in [Workers -> {"none", "claimed", "starting", "failing", "serving", "command", "closing",
                               "answer", "refuse", "ending", "finalize", "unclosed", "release", "settle"}]
        /\ local \in [Workers -> Status]
        /\ flag \in [Workers -> {"run", "stop", "lost"}]
        /\ cur \in [Workers -> Commands \cup {0}] /\ last \in [Workers -> Commands \cup {0}]
    BY <2>1 DEF Init
  <2>5. lapsed \in BOOLEAN /\ handed \in Nat /\ rowlock \in Owner /\ starts \in Nat /\ faults \in 0..MaxFaults
    BY <2>1 DEF Init
  <2>6. alive \subseteq Workers /\ reply \in {"live", "spares", "marks", "over"}
    BY DEF Init
  <2> QED BY <1>2, <2>2, <2>3, <2>4, <2>5, <2>6 DEF TypeOK
<1>6. RowFit /\ RuntimeFit /\ StartFit
  BY DEF Init, RowFit, RuntimeFit, StartFit, Final
<1> QED BY <1>3, <1>4, <1>5, <1>6 DEF SessionInv

LEMMA SessionStep == ASSUME TerminalAssumption, SessionInv, [Next]_vars PROVE SessionInv'
<1>1. Passes
  BY NextPasses
<1>2. Under(round, Token)'
  <2>1. Under(round', Token)
    BY <1>1, EndsUnder DEF SessionInv, Passes
  <2> QED BY <2>1 DEF Under, Lawful
<1>3. TypeOK'
  <2>1. round' \in Round
    BY <1>1 DEF Passes, Ends, Lawful
  <2> QED BY <2>1, NextType
<1>4. RowGoes /\ CommandsGo
  BY NextGoes, NextCommandsGo
<1>5. RuntimesGo
  BY NextGoesOn DEF Quiet
<1>6. RowFit'
  <2>1. row' \in Rows
    BY <1>3 DEF TypeOK, Rows
  <2> QED BY <1>4, <2>1, NextRowFit
<1>7. RuntimeFit'
  BY <1>3, <1>4, <1>5, NextRuntimeFit
<1>8. StartFit'
  BY <1>4, NextStartFit
<1>9. Tells(row.status, round)'
  BY <1>1 DEF Passes, Tells
<1> QED BY <1>2, <1>3, <1>6, <1>7, <1>8, <1>9 DEF SessionInv

LEMMA SessionAlways == Spec => []SessionInv
<1>1. Init => SessionInv
  BY SessionInit, TerminalAssumption
<1>2. SessionInv /\ [Next]_vars => SessionInv'
  BY SessionStep, TerminalAssumption
<1> QED BY <1>1, <1>2, PTL DEF Spec

-----------------------------------------------------------------------------
(* Theorems *)

\* The row, its commands, the runtimes and the coordinators stay in their types.
THEOREM SessionHasItsType == Spec => []TypeOK
<1>1. SessionInv => TypeOK
  BY DEF SessionInv
<1> QED BY <1>1, SessionAlways, PTL

\* The runtime, the recovery, the stop of the chat session and the interrupted reply
\* write row and attempt in transactions of their own, in any order, and none of them
\* leaves a session that says something else than its attempt.
THEOREM SessionAndAttemptAgree == Spec => []AttemptMatchesSession
<1>1. SessionInv => AttemptMatchesSession
  <2> SUFFICES ASSUME SessionInv PROVE AttemptMatchesSession
    OBVIOUS
  <2>1. Tells(row.status, round) /\ row \in Rows
    BY DEF SessionInv, TypeOK, Rows
  <2> QED BY <2>1 DEF Tells, AttemptMatchesSession, Over, Final, Gone, Active, Status, Rows, Lost
<1> QED BY <1>1, SessionAlways, PTL

\* _initialize starts the shell while it holds the row, claim_next_starting takes only a
\* session nobody has claimed, and a claim that has run out is recovered: in no order of
\* workers, losses of leases and crashes is the command started more than once, and once
\* more for each shutdown that has given the session back STARTING.
THEOREM SessionStartsOnce == Spec => []StartedOnce
<1>1. SessionInv => StartedOnce
  BY DEF SessionInv, TypeOK, StartFit, StartedOnce
<1> QED BY <1>1, SessionAlways, PTL

\* Whatever the terminal workers, the tools of the reply, the cleanups and a restart of
\* the service write of the round is a step that the abstract life of an audit record
\* allows.
THEOREM SessionKeepsTheRound == Spec => SessionKeepsAuditLifecycle
<1>1. Init => Life!Init
  <2> SUFFICES ASSUME Init PROVE Life!UnderWay(round)
    BY DEF Life!Init
  <2> QED BY DEF Init, Life!UnderWay, Life!Attempted, Token
<1>2. SessionInv /\ [Next]_vars => [Life!Next]_([r \in {1} |-> round])
  <2> SUFFICES ASSUME SessionInv, [Next]_vars PROVE Life!LifeStep(round, round')
    BY DEF Life!Next
  <2>1. Ends(round, round')
    BY NextPasses, TerminalAssumption DEF Passes
  <2> QED BY <2>1 DEF Ends, Ending, Life!LifeStep, Life!Ending, Says, Life!Says, Attempted, Life!Attempted
<1> QED BY <1>1, <1>2, SessionAlways, PTL DEF Spec, SessionKeepsAuditLifecycle, Life!Spec
=============================================================================
