--------------------------- MODULE AuditExecutionProofs ---------------------------
(***************************************************************************)
(* Proofs about AuditExecution, for any number of records, tool calls,      *)
(* executors, messages and faults.                                          *)
(***************************************************************************)
EXTENDS AuditExecution, AuditRoundProofs, FiniteSetTheorems

(* The inductive invariant *)

\* Where an executor works on the round it is at, and where it works on a new one and
\* still has to retire the confirmed round it was at.
Executes == {"check", "attempt", "bind", "run", "abort", "giveup"}

Audits == {"supersede", "close", "create", "audit", "retire"}

\* The executor x is the one that may execute record r or retire it.
Holds(x, r) == (x.pc \in Executes /\ x.at.r = r) \/ (x.pc \in Audits /\ x.was.r = r)

\* One execution claim per record, which is its token while it executes.
Issue(r) ==
    /\ issued[r] \in {0, 1}
    /\ round[r].status \in {"absent", "preparing", "passed", "pending"} => issued[r] = 0
    /\ round[r].status = "executing" => issued[r] = 1 /\ round[r].token = 1

\* What the attempts of round x say about the starts n of its tools.
Truth(x, n) ==
    \A t \in Tools :
        /\ n[t] \in {0, 1}
        /\ n[t] = 1 => x.attempts[t] \notin {"none", "cancelled"}
        /\ x.attempts[t] \in {"succeeded", "failed"} => n[t] = 1

RecordsFit == \A r \in Records : Lawful(round[r]) /\ Issue(r) /\ Truth(round[r], ran[r])

\* Nothing was attempted or started.
Untouched(x, n) == \A t \in Tools : x.attempts[t] = "none" /\ n[t] = 0

\* No tool was started, and what the attempts are among, S while the round executes.
Prepared(x, n, S) ==
    \A t \in Tools :
        /\ n[t] = 0
        /\ x.attempts[t] \in S \cup {"unknown"}
        /\ x.status = "executing" => x.attempts[t] \in S

\* The executor e in the middle of the round x.
InRun(e, x, n) ==
    \A t \in Tools :
        /\ n[t] = IF t \in e.started THEN 1 ELSE 0
        /\ x.attempts[t] \notin {"none", "cancelled"}
        /\ t \notin e.started => x.attempts[t] \in {"running", "unknown"}
        /\ t \in e.ended => x.attempts[t] # "running"
        /\ t \notin e.ended /\ x.status = "executing" => x.attempts[t] = "running"

\* How far the executor e of the round x has come with it.
Fits(e, x, n) ==
    /\ e.pc \in {"check"} \cup Audits => Untouched(x, n)
    /\ e.pc = "bind" => IF e.kind = "confirmed" THEN Untouched(x, n) ELSE Prepared(x, n, {"running"})
    /\ e.pc \in {"attempt", "abort"} => Prepared(x, n, {"none", "running"})
    /\ e.pc = "giveup" => Prepared(x, n, {"none", "cancelled"})
    /\ e.pc = "run" => InRun(e, x, n)

\* A record has one executor, or one queued work, or neither.
HoldersFit ==
    \A e \in Executors, r \in Records :
        Holds(exec[e], r) =>
            /\ issued[r] = 1
            /\ Fits(exec[e], round[r], ran[r])
            /\ \A b \in ready : b.r # r
            /\ \A f \in Executors \ {e} : ~Holds(exec[f], r)

\* A binding that was handed out.
Good(b) == b.r \in Records /\ b.k = 1 /\ issued[b.r] = 1

ReadyFit == \A b \in ready : Good(b) /\ Untouched(round[b.r], ran[b.r])

\* What an executor remembers.
Remembers(e) ==
    /\ e.pc \in Executes => Good(e.at)
    /\ e.pc \in {"audit", "offer", "shown", "retire", "reshow", "claim"} => e.at.r \in Records
    /\ e.was = NoBinding \/ Good(e.was)
    /\ e.bind = NoBinding \/ Good(e.bind)
    /\ e.pc = "retire" => e.was # NoBinding
    /\ e.pc = "close" => e.stale \in Records
    /\ e.pc \notin {"run", "handler"} => e.started = {}
    /\ e.ended \subseteq e.started
    /\ e.pc \in {"check", "run"} \/ (e.pc = "attempt" /\ e.kind = "confirmed") => e.bind = e.at
    /\ e.pc = "idle" => e = Idle

ExecutorsFit == \A e \in Executors : Remembers(exec[e])

SweepFit == \A b \in sweep : Good(b)

ExecutionInv == TypeOK /\ RecordsFit /\ HoldersFit /\ ReadyFit /\ ExecutorsFit /\ SweepFit

\* One live executor; the one confirmation claim is that of a pending record, and it is
\* gone before the live executor offers another one.
CardInv ==
    /\ \A e, f \in Executors : Live(e) /\ Live(f) => e = f
    /\ \A r \in claims : round[r].status = "pending"
    /\ \A r, s \in claims : r = s
    /\ \A r \in shown : round[r].status \notin {"absent", "preparing"}
    /\ \A r \in shown \ expired : round[r].status = "pending" => r \in claims
    /\ \A e \in Executors \ lost :
        /\ At(e, "close") => claims \subseteq {exec[e].stale}
        /\ exec[e].pc \in {"create", "audit", "offer"} => claims = {}

\* An executing round with attempts has an owner who will end it.
Begun(x) == x.status = "executing" /\ \E t \in Tools : x.attempts[t] # "none"

Owner(e, r) ==
    \/ exec[e].pc \in Executes /\ exec[e].at.r = r
    \/ At(e, "handler") /\ exec[e].bind.r = r

OwnedInv ==
    /\ \A r \in Records :
        Begun(round[r]) => (\E e \in Executors : Owner(e, r)) \/ (\E b \in sweep : b.r = r)
    /\ \A e \in Executors :
        exec[e].pc \in {"abort", "giveup"} =>
            exec[e].bind = exec[e].at \/ round[Here(e)].status # "executing"

-----------------------------------------------------------------------------
(* What a write to somebody else's round leaves true *)

\* A settled round still fits its executor, its starts and its claim.
LEMMA SettlesFits ==
    ASSUME NEW x, NEW y, NEW n, Settles(x, y)
    PROVE  /\ Untouched(x, n) => Untouched(y, n)
           /\ Truth(x, n) => Truth(y, n)
           /\ \A S : Prepared(x, n, S) => Prepared(y, n, S)
           /\ \A e : InRun(e, x, n) => InRun(e, y, n)
           /\ \A e : Fits(e, x, n) => Fits(e, y, n)
<1>1. Untouched(x, n) => Untouched(y, n)
  BY DEF Settles, Untouched
<1>2. Truth(x, n) => Truth(y, n)
  BY DEF Settles, Truth
<1>3. ASSUME NEW S, Prepared(x, n, S) PROVE Prepared(y, n, S)
  BY <1>3 DEF Settles, Prepared
<1>4. ASSUME NEW e, InRun(e, x, n) PROVE InRun(e, y, n)
  <2> SUFFICES ASSUME NEW t \in Tools
               PROVE  /\ n[t] = IF t \in e.started THEN 1 ELSE 0
                      /\ y.attempts[t] \notin {"none", "cancelled"}
                      /\ t \notin e.started => y.attempts[t] \in {"running", "unknown"}
                      /\ t \in e.ended => y.attempts[t] # "running"
                      /\ t \notin e.ended /\ y.status = "executing" => y.attempts[t] = "running"
    BY DEF InRun
  <2>1. n[t] = IF t \in e.started THEN 1 ELSE 0
    BY <1>4 DEF InRun
  <2> QED BY <1>4, <2>1 DEF InRun, Settles
<1>5. ASSUME NEW e, Fits(e, x, n) PROVE Fits(e, y, n)
  <2> HIDE DEF Settles
  <2>1. Prepared(x, n, {"running"}) => Prepared(y, n, {"running"})
    BY <1>3
  <2>2. Prepared(x, n, {"none", "running"}) => Prepared(y, n, {"none", "running"})
    BY <1>3
  <2>3. Prepared(x, n, {"none", "cancelled"}) => Prepared(y, n, {"none", "cancelled"})
    BY <1>3
  <2>4. InRun(e, x, n) => InRun(e, y, n)
    BY <1>4
  <2> QED BY <1>1, <1>5, <2>1, <2>2, <2>3, <2>4 DEF Fits
<1> QED BY <1>1, <1>2, <1>3, <1>4, <1>5

\* Nothing was started of a round that is not begun.
LEMMA UnbegunUntouched ==
    ASSUME NEW x, NEW n, Lawful(x), Truth(x, n), x.status \in Unbegun
    PROVE  Untouched(x, n)
BY DEF Lawful, Truth, Untouched, Unbegun

\* An idle executor holds nothing, nor does one whose work is with the handlers.
LEMMA NothingHeld ==
    ASSUME AuditAssumption, NEW x, x = Idle \/ x.pc \in {"idle", "handler", "offer", "shown", "reshow", "claim"},
           NEW r \in Records
    PROVE  ~Holds(x, r)
BY DEF Holds, Idle, Executes, Audits

LEMMA IdleRemembers == Remembers(Idle)
BY DEF Remembers, Idle, NoBinding, Executes

\* The writes settle rounds; every executor that keeps a round goes on with it.
LEMMA CalmStep ==
    ASSUME ExecutionInv, TypeOK',
           \A r \in Records : Settles(round[r], round'[r]),
           UNCHANGED <<issued, ran>>, ready' \subseteq ready, \A b \in sweep' : Good(b),
           \A e \in Executors :
               \/ exec'[e] = exec[e]
               \/ /\ Remembers(exec'[e])
                  /\ \A r \in Records : Holds(exec'[e], r) =>
                        Holds(exec[e], r) /\ Fits(exec'[e], round'[r], ran[r])
    PROVE  ExecutionInv'
<1>1. RecordsFit /\ HoldersFit /\ ReadyFit /\ ExecutorsFit
  BY DEF ExecutionInv
<1>2. RecordsFit'
  <2> SUFFICES ASSUME NEW r \in Records
               PROVE  Lawful(round[r])' /\ Issue(r)' /\ Truth(round[r], ran[r])'
    BY DEF RecordsFit
  <2>1. Settles(round[r], round'[r]) /\ Lawful(round[r]) /\ Issue(r) /\ Truth(round[r], ran[r])
    BY <1>1 DEF RecordsFit
  <2>2. Truth(round'[r], ran[r])
    BY <2>1, SettlesFits
  <2>3. Lawful(round'[r])
    BY <2>1 DEF Settles
  <2>4. Issue(r)'
    BY <2>1 DEF Settles, Issue, Unbegun
  <2> QED BY <2>2, <2>3, <2>4
<1>3. ASSUME NEW e \in Executors, NEW r \in Records, Holds(exec'[e], r)
      PROVE  Holds(exec[e], r) /\ Fits(exec'[e], round'[r], ran[r])
  <2>1. CASE exec'[e] = exec[e]
    <3>1. Holds(exec[e], r)
      BY <1>3, <2>1
    <3>2. Fits(exec[e], round[r], ran[r]) /\ Settles(round[r], round'[r])
      BY <1>1, <3>1 DEF HoldersFit
    <3>3. Fits(exec[e], round'[r], ran[r])
      BY <3>2, SettlesFits
    <3> QED BY <2>1, <3>1, <3>3
  <2>2. CASE exec'[e] # exec[e]
    BY <1>3, <2>2
  <2> QED BY <2>1, <2>2
<1>4. HoldersFit'
  <2> SUFFICES ASSUME NEW e \in Executors, NEW r \in Records, Holds(exec'[e], r)
               PROVE  /\ issued'[r] = 1
                      /\ Fits(exec'[e], round'[r], ran'[r])
                      /\ \A b \in ready' : b.r # r
                      /\ \A f \in Executors \ {e} : ~Holds(exec'[f], r)
    BY DEF HoldersFit, Holds
  <2>1. Holds(exec[e], r) /\ Fits(exec'[e], round'[r], ran[r])
    BY <1>3
  <2>2. /\ issued[r] = 1
        /\ \A b \in ready : b.r # r
        /\ \A f \in Executors \ {e} : ~Holds(exec[f], r)
    BY <1>1, <2>1 DEF HoldersFit
  <2>3. \A f \in Executors \ {e} : ~Holds(exec'[f], r)
    BY <1>3, <2>2
  <2> QED BY <2>1, <2>2, <2>3
<1>5. ReadyFit'
  <2> SUFFICES ASSUME NEW b \in ready'
               PROVE  Good(b)' /\ Untouched(round'[b.r], ran'[b.r])
    BY DEF ReadyFit, Untouched
  <2>1. Good(b) /\ Untouched(round[b.r], ran[b.r])
    BY <1>1 DEF ReadyFit
  <2>2. Good(b)' /\ b.r \in Records
    BY <2>1 DEF Good
  <2>3. Untouched(round'[b.r], ran[b.r])
    BY <2>1, <2>2, SettlesFits
  <2> QED BY <2>2, <2>3
<1>6. ExecutorsFit' /\ SweepFit'
  <2>1. \A e \in Executors : Remembers(exec'[e])
    BY <1>1 DEF ExecutorsFit
  <2>2. ExecutorsFit'
    BY <2>1 DEF ExecutorsFit, Remembers, Good
  <2> QED BY <2>2 DEF SweepFit, Good
<1> QED BY <1>2, <1>4, <1>5, <1>6 DEF ExecutionInv

\* The one executor of a round writes to it.
LEMMA OwnStep ==
    ASSUME ExecutionInv, TypeOK',
           NEW e \in Executors, NEW r \in Records, Holds(exec[e], r),
           \A s \in Records \ {r} : round'[s] = round[s] /\ ran'[s] = ran[s],
           UNCHANGED <<issued, ready, sweep>>,
           \A f \in Executors \ {e} : exec'[f] = exec[f],
           Lawful(round'[r]), Issue(r)', Truth(round'[r], ran'[r]),
           Remembers(exec'[e]),
           \A s \in Records : Holds(exec'[e], s) => s = r /\ Fits(exec'[e], round'[r], ran'[r])
    PROVE  ExecutionInv'
<1>1. RecordsFit /\ HoldersFit /\ ReadyFit /\ ExecutorsFit /\ SweepFit
  BY DEF ExecutionInv
<1>2. RecordsFit'
  <2> SUFFICES ASSUME NEW s \in Records
               PROVE  Lawful(round[s])' /\ Issue(s)' /\ Truth(round[s], ran[s])'
    BY DEF RecordsFit
  <2>1. CASE s = r
    <3>1. Truth(round[r], ran[r])'
      BY DEF Truth
    <3>2. Lawful(round[r])'
      BY DEF Lawful
    <3> QED BY <2>1, <3>1, <3>2
  <2>2. CASE s # r
    <3>1. round'[s] = round[s] /\ ran'[s] = ran[s] /\ issued'[s] = issued[s]
      BY <2>2
    <3>2. Lawful(round[s]) /\ Issue(s) /\ Truth(round[s], ran[s])
      BY <1>1 DEF RecordsFit
    <3>3. Lawful(round[s])'
      BY <3>1, <3>2 DEF Lawful
    <3>4. Issue(s)' /\ Truth(round[s], ran[s])'
      BY <3>1, <3>2 DEF Issue, Truth
    <3> QED BY <3>3, <3>4
  <2> QED BY <2>1, <2>2
<1>3. /\ issued[r] = 1
      /\ \A b \in ready : b.r # r
      /\ \A f \in Executors \ {e} : ~Holds(exec[f], r)
  BY <1>1 DEF HoldersFit
<1>4. HoldersFit'
  <2> SUFFICES ASSUME NEW f \in Executors, NEW s \in Records, Holds(exec'[f], s)
               PROVE  /\ issued'[s] = 1
                      /\ Fits(exec'[f], round'[s], ran'[s])
                      /\ \A b \in ready' : b.r # s
                      /\ \A g \in Executors \ {f} : ~Holds(exec'[g], s)
    BY DEF HoldersFit, Holds
  <2>1. CASE f = e
    BY <1>3, <2>1
  <2>2. CASE f # e
    <3>1. Holds(exec[f], s) /\ s # r
      BY <1>3, <2>2
    <3>2. /\ issued[s] = 1
          /\ Fits(exec[f], round[s], ran[s])
          /\ \A b \in ready : b.r # s
          /\ \A g \in Executors \ {f} : ~Holds(exec[g], s)
      BY <1>1, <3>1 DEF HoldersFit
    <3>3. ~Holds(exec'[e], s)
      BY <3>1
    <3> QED BY <2>2, <3>1, <3>2, <3>3
  <2> QED BY <2>1, <2>2
<1>5. ReadyFit'
  <2> SUFFICES ASSUME NEW b \in ready'
               PROVE  Good(b)' /\ Untouched(round'[b.r], ran'[b.r])
    BY DEF ReadyFit, Untouched
  <2>1. Good(b) /\ Untouched(round[b.r], ran[b.r]) /\ b.r # r
    BY <1>1, <1>3 DEF ReadyFit
  <2> QED BY <2>1 DEF Good
<1>6. ExecutorsFit' /\ SweepFit'
  <2>1. \A f \in Executors : Remembers(exec'[f])
    BY <1>1 DEF ExecutorsFit
  <2>2. ExecutorsFit'
    BY <2>1 DEF ExecutorsFit, Remembers, Good
  <2> QED BY <1>1, <2>2 DEF SweepFit, Good
<1> QED BY <1>2, <1>4, <1>5, <1>6 DEF ExecutionInv

\* A round is claimed for execution, for the first time; it is queued, or an executor
\* that held nothing has it, or nobody.
LEMMA ClaimStep ==
    ASSUME ExecutionInv, TypeOK', AuditAssumption,
           NEW r \in Records, round[r].status \in {"passed", "pending"},
           round' = [round EXCEPT ![r] = Claimed(round[r], issued[r] + 1)],
           issued' = [issued EXCEPT ![r] = issued[r] + 1],
           UNCHANGED <<sweep, ran>>,
           \/ ready' = ready \cup {[r |-> r, k |-> issued[r] + 1]} /\ exec' = exec
           \/ /\ ready' = ready
              /\ \E e \in Executors :
                    /\ \A f \in Executors \ {e} : exec'[f] = exec[f]
                    /\ Remembers(exec[e])'
                    /\ \A s \in Records : Holds(exec'[e], s) =>
                          s = r /\ (\A n : Untouched(round'[r], n) => Fits(exec'[e], round'[r], n))
    PROVE  ExecutionInv'
<1>1. /\ RecordsFit /\ HoldersFit /\ ReadyFit /\ ExecutorsFit /\ SweepFit
      /\ round \in [Records -> Round] /\ issued \in [Records -> Nat]
  BY DEF ExecutionInv, TypeOK
<1>2. Lawful(round[r]) /\ Issue(r) /\ Truth(round[r], ran[r])
  BY <1>1 DEF RecordsFit
<1>3. issued[r] = 0 /\ issued' = [issued EXCEPT ![r] = 1] /\ issued'[r] = 1
  <2>1. issued[r] = 0
    BY <1>2 DEF Issue
  <2> QED BY <1>1, <2>1
<1>4. round'[r] = Claimed(round[r], 1)
  BY <1>1, <1>3
<1>5. /\ Lawful(round'[r])
      /\ round'[r].status = "executing" /\ round'[r].token = 1 /\ round'[r].attempts = round[r].attempts
  <2>1. Keeps(round[r], Claimed(round[r], 1))
    BY <1>2, ClaimedKeeps
  <2>2. Lawful(round'[r])
    BY <1>4, <2>1 DEF Keeps
  <2>3. round[r] \in Round /\ 1 \in Nat
    BY <1>1
  <2> QED BY <1>4, <2>2, <2>3, ClaimedType
<1>6. Untouched(round[r], ran[r]) /\ Untouched(round'[r], ran[r])
  <2>1. Untouched(round[r], ran[r])
    BY <1>2, UnbegunUntouched DEF Unbegun
  <2> QED BY <1>5, <2>1 DEF Untouched
<1>7. \A s \in Records \ {r} : round'[s] = round[s] /\ issued'[s] = issued[s]
  BY <1>1
<1>8. RecordsFit'
  <2> SUFFICES ASSUME NEW s \in Records
               PROVE  Lawful(round[s])' /\ Issue(s)' /\ Truth(round[s], ran[s])'
    BY DEF RecordsFit
  <2>1. CASE s = r
    <3>1. Truth(round[r], ran[r])'
      BY <1>6 DEF Truth, Untouched
    <3>2. Lawful(round[r])'
      BY <1>5 DEF Lawful
    <3>3. Issue(r)'
      BY <1>3, <1>5 DEF Issue
    <3> QED BY <2>1, <3>1, <3>2, <3>3
  <2>2. CASE s # r
    <3>1. Lawful(round[s]) /\ Issue(s) /\ Truth(round[s], ran[s])
      BY <1>1 DEF RecordsFit
    <3>2. Lawful(round[s])'
      BY <1>7, <2>2, <3>1 DEF Lawful
    <3>3. Issue(s)' /\ Truth(round[s], ran[s])'
      BY <1>7, <2>2, <3>1 DEF Issue, Truth
    <3> QED BY <3>2, <3>3
  <2> QED BY <2>1, <2>2
<1>9. /\ \A e \in Executors : ~Holds(exec[e], r)
      /\ \A b \in ready : b.r # r
  BY <1>1, <1>3 DEF HoldersFit, ReadyFit, Good
<1>10. \A s \in Records : issued[s] = 1 => issued'[s] = 1
  BY <1>3, <1>7
<1>11. HoldersFit'
  <2> SUFFICES ASSUME NEW f \in Executors, NEW s \in Records, Holds(exec'[f], s)
               PROVE  /\ issued'[s] = 1
                      /\ Fits(exec'[f], round'[s], ran[s])
                      /\ \A b \in ready' : b.r # s
                      /\ \A g \in Executors \ {f} : ~Holds(exec'[g], s)
    BY DEF HoldersFit, Holds
  <2>1. ASSUME exec'[f] = exec[f]
        PROVE  /\ s # r /\ issued'[s] = 1
               /\ Fits(exec'[f], round'[s], ran[s])
               /\ \A b \in ready : b.r # s
               /\ \A g \in Executors \ {f} : ~Holds(exec[g], s)
    <3>1. s # r
      BY <1>9, <2>1
    <3>2. Holds(exec[f], s)
      BY <2>1
    <3>3. /\ issued[s] = 1 /\ Fits(exec[f], round[s], ran[s])
          /\ \A b \in ready : b.r # s
          /\ \A g \in Executors \ {f} : ~Holds(exec[g], s)
      BY <1>1, <3>2 DEF HoldersFit
    <3> QED BY <1>7, <2>1, <3>1, <3>3
  <2>2. CASE ready' = ready \cup {[r |-> r, k |-> issued[r] + 1]} /\ exec' = exec
    BY <2>1, <2>2
  <2>3. ASSUME ready' = ready,
               NEW e \in Executors,
               \A g \in Executors \ {e} : exec'[g] = exec[g],
               \A t \in Records : Holds(exec'[e], t) =>
                   t = r /\ (\A n : Untouched(round'[r], n) => Fits(exec'[e], round'[r], n))
        PROVE  /\ issued'[s] = 1
               /\ Fits(exec'[f], round'[s], ran[s])
               /\ \A b \in ready' : b.r # s
               /\ \A g \in Executors \ {f} : ~Holds(exec'[g], s)
    <3>1. CASE f = e
      <4>1. s = r /\ Fits(exec'[e], round'[r], ran[r])
        BY <1>6, <2>3, <3>1
      <4> QED BY <1>3, <1>9, <2>3, <3>1, <4>1
    <3>2. CASE f # e
      <4>1. exec'[f] = exec[f]
        BY <2>3, <3>2
      <4>2. ~Holds(exec'[e], s)
        BY <2>1, <2>3, <4>1
      <4> QED BY <2>1, <2>3, <4>1, <4>2
    <3> QED BY <3>1, <3>2
  <2> QED BY <2>2, <2>3
<1>12. ReadyFit'
  <2> SUFFICES ASSUME NEW b \in ready'
               PROVE  Good(b)' /\ Untouched(round'[b.r], ran[b.r])
    BY DEF ReadyFit, Untouched
  <2>1. CASE b \in ready
    <3>1. Good(b) /\ Untouched(round[b.r], ran[b.r]) /\ b.r # r
      BY <1>1, <1>9, <2>1 DEF ReadyFit
    <3>2. Good(b)'
      BY <1>10, <3>1 DEF Good
    <3>3. round'[b.r] = round[b.r]
      BY <1>7, <3>1 DEF Good
    <3> QED BY <3>1, <3>2, <3>3
  <2>2. CASE b \notin ready
    <3>1. b.r = r /\ b.k = 1
      BY <1>3, <2>2
    <3> QED BY <1>3, <1>6, <3>1 DEF Good
  <2> QED BY <2>1, <2>2
<1>13. ExecutorsFit' /\ SweepFit'
  <2>1. \A b : Good(b) => Good(b)'
    BY <1>10 DEF Good
  <2>2. ASSUME NEW f \in Executors, exec'[f] = exec[f] PROVE Remembers(exec[f])'
    <3>1. Remembers(exec[f])
      BY <1>1 DEF ExecutorsFit
    <3> QED BY <2>1, <2>2, <3>1 DEF Remembers
  <2>3. ASSUME NEW f \in Executors PROVE Remembers(exec[f])'
    <3>1. CASE exec' = exec
      BY <2>2, <3>1
    <3>2. ASSUME NEW e \in Executors,
                 \A g \in Executors \ {e} : exec'[g] = exec[g],
                 Remembers(exec[e])'
          PROVE  Remembers(exec[f])'
      <4>1. CASE f = e
        BY <3>2, <4>1 DEF Remembers
      <4>2. CASE f # e
        BY <2>2, <3>2, <4>2
      <4> QED BY <4>1, <4>2
    <3> QED BY <3>1, <3>2
  <2> QED BY <1>1, <2>1, <2>3 DEF ExecutorsFit, SweepFit
<1> QED BY <1>8, <1>11, <1>12, <1>13 DEF ExecutionInv

-----------------------------------------------------------------------------
(* Writes to one round and one executor *)

LEMMA RoundsLawful ==
    ASSUME ExecutionInv
    PROVE  \A r \in Records : Lawful(round[r]) /\ round[r] \in Round
BY DEF ExecutionInv, RecordsFit, Lawful

\* One round is settled, or none.
LEMMA SetSettles ==
    ASSUME ExecutionInv, NEW r, NEW y, Set(r, y), r \in Records => Settles(round[r], y)
    PROVE  round' \in [Records -> Round] /\ \A s \in Records : Settles(round[s], round'[s])
<1>1. round \in [Records -> Round] /\ round' = [round EXCEPT ![r] = y]
  BY DEF ExecutionInv, TypeOK, Set
<1>2. ASSUME NEW s \in Records PROVE Settles(round[s], round'[s]) /\ round'[s] \in Round
  <2>1. Settles(round[s], round'[s])
    <3>1. CASE s = r
      BY <1>1, <3>1
    <3>2. CASE s # r
      <4>1. round'[s] = round[s]
        BY <1>1, <3>2
      <4> QED BY <4>1, RoundsLawful, SameSettles
    <3> QED BY <3>1, <3>2
  <2> QED BY <2>1 DEF Settles, Lawful
<1> QED BY <1>1, <1>2

LEMMA UnchangedSettles ==
    ASSUME ExecutionInv, UNCHANGED round
    PROVE  round' \in [Records -> Round] /\ \A s \in Records : Settles(round[s], round'[s])
<1>1. \A s \in Records : Settles(round[s], round[s])
  BY RoundsLawful, SameSettles
<1> QED BY <1>1 DEF ExecutionInv, TypeOK

\* A statement that writes a pending record only.
LEMMA ClosePendingSettles ==
    ASSUME ExecutionInv, NEW r, NEW s \in {"rejected", "expired", "cancelled", "audit_failed"},
           ClosePending(r, s) \/ (Set(r, Closed(round[r], s)) /\ round[r].status = "pending")
    PROVE  round' \in [Records -> Round] /\ \A t \in Records : Settles(round[t], round'[t])
<1>1. CASE Set(r, Closed(round[r], s)) /\ round[r].status = "pending"
  <2>1. s \in RecordEnds
    BY DEF RecordEnds, RecordStatus
  <2>2. ASSUME r \in Records PROVE Settles(round[r], Closed(round[r], s))
    BY <1>1, <2>1, <2>2, RoundsLawful, ClosedSettles DEF Unbegun
  <2> QED BY <1>1, <2>2, SetSettles
<1>2. CASE UNCHANGED round
  BY <1>2, UnchangedSettles
<1> QED BY <1>1, <1>2 DEF ClosePending

\* The mark of a round that is bound to a work.
LEMMA HandledSettles ==
    ASSUME ExecutionInv, NEW b, b = NoBinding \/ Good(b),
           Handled(b)
    PROVE  round' \in [Records -> Round] /\ \A s \in Records : Settles(round[s], round'[s])
<1>1. CASE b = NoBinding
  BY <1>1, UnchangedSettles DEF Handled
<1>2. CASE b # NoBinding
  <2>1. Good(b) /\ Set(b.r, MarkUnknownReliably(round[b.r], b.k))
    BY <1>2 DEF Handled
  <2>2. Lawful(round[b.r]) /\ (round[b.r].status = "executing" => round[b.r].token = b.k)
    BY <2>1 DEF Good, ExecutionInv, RecordsFit, Issue
  <2>3. Settles(round[b.r], MarkUnknownReliably(round[b.r], b.k))
    BY <2>2, MarkUnknownSettles
  <2> QED BY <2>1, <2>3, SetSettles
<1> QED BY <1>1, <1>2

LEMMA GotoType ==
    ASSUME TypeOK, NEW e \in Executors, NEW pc, Goto(e, pc),
           pc \in {"idle", "check", "supersede", "close", "create", "audit", "offer", "shown",
                   "retire", "reshow", "claim", "attempt", "bind", "run", "abort", "giveup", "handler"}
    PROVE  /\ exec' \in [Executors -> Executor] /\ lost' = lost
           /\ exec[e] \in Executor
           /\ exec'[e] = [exec[e] EXCEPT !.pc = pc]
           /\ \A f \in Executors \ {e} : exec'[f] = exec[f]
<1>1. exec \in [Executors -> Executor] /\ exec' = [exec EXCEPT ![e].pc = pc] /\ lost' = lost
  BY DEF TypeOK, Goto
<1>2. [exec[e] EXCEPT !.pc = pc] \in Executor
  BY <1>1 DEF Executor
<1> QED BY <1>1, <1>2

LEMMA IdleType == Idle \in Executor
BY DEF Idle, Executor, NoBinding, Binding, RecordStatus

LEMMA ExitType ==
    ASSUME TypeOK, NEW e \in Executors, Exit(e)
    PROVE  /\ exec' \in [Executors -> Executor] /\ lost' \subseteq Executors
           /\ exec'[e] = Idle
           /\ \A f \in Executors \ {e} : exec'[f] = exec[f]
BY IdleType DEF TypeOK, Exit

\* The error of an executor reaches the handlers of its work.
LEMMA HandlerRemembers ==
    ASSUME NEW x \in Executor, Remembers(x)
    PROVE  Remembers([x EXCEPT !.pc = "handler"])
BY DEF Remembers, Executor, Executes

\* An executor lets go of everything, its round being settled before.
LEMMA ReleaseStep ==
    ASSUME ExecutionInv, AuditAssumption, TypeOK',
           NEW e \in Executors, Exit(e) \/ Goto(e, "handler"),
           \A r \in Records : Settles(round[r], round'[r]),
           UNCHANGED <<issued, ran>>, ready' \subseteq ready, sweep' = sweep
    PROVE  ExecutionInv'
<1>1. TypeOK /\ ExecutorsFit /\ \A b \in sweep' : Good(b)
  BY DEF ExecutionInv, SweepFit
<1>2. \A f \in Executors \ {e} : exec'[f] = exec[f]
  BY <1>1, ExitType, GotoType
<1>3. Remembers(exec'[e]) /\ \A r \in Records : ~Holds(exec'[e], r)
  <2>1. CASE Exit(e)
    BY <1>1, <2>1, ExitType, IdleRemembers, NothingHeld
  <2>2. CASE Goto(e, "handler")
    <3>1. exec[e] \in Executor /\ exec'[e] = [exec[e] EXCEPT !.pc = "handler"]
      BY <1>1, <2>2, GotoType
    <3>2. Remembers(exec'[e])
      BY <1>1, <3>1, HandlerRemembers DEF ExecutorsFit
    <3>3. exec'[e].pc = "handler"
      BY <3>1 DEF Executor
    <3> QED BY <3>2, <3>3, NothingHeld
  <2> QED BY <2>1, <2>2
<1> QED BY <1>1, <1>2, <1>3, CalmStep

\* An executor goes on with what it holds.
LEMMA MoveStep ==
    ASSUME ExecutionInv, TypeOK',
           NEW e \in Executors, \A f \in Executors \ {e} : exec'[f] = exec[f],
           \A r \in Records : Settles(round[r], round'[r]),
           UNCHANGED <<issued, ran>>, ready' \subseteq ready, sweep' = sweep,
           Remembers(exec'[e]),
           \A r \in Records : Holds(exec'[e], r) =>
               /\ Holds(exec[e], r)
               /\ \A x, n : Fits(exec[e], x, n) => Fits(exec'[e], x, n)
    PROVE  ExecutionInv'
<1>1. HoldersFit /\ \A b \in sweep' : Good(b)
  BY DEF ExecutionInv, SweepFit
<1>2. ASSUME NEW r \in Records, Holds(exec'[e], r)
      PROVE  Holds(exec[e], r) /\ Fits(exec'[e], round'[r], ran[r])
  <2>1. Fits(exec[e], round[r], ran[r])
    BY <1>1, <1>2 DEF HoldersFit
  <2>2. Fits(exec[e], round'[r], ran[r])
    BY <2>1, SettlesFits
  <2> QED BY <1>2, <2>2
<1> QED BY <1>1, <1>2, CalmStep

\* A step of the executor that lets go of the round, which is settled before.
LEMMA LeaveStep ==
    ASSUME ExecutionInv, AuditAssumption, NEW e \in Executors,
           Exit(e) \/ Goto(e, "handler"),
           round' \in [Records -> Round], \A t \in Records : Settles(round[t], round'[t]),
           UNCHANGED <<issued, ready, ran, sweep, asked>>, faults' \in 0..MaxFaults,
           claims' \cup shown' \cup reshown' \cup expired' \subseteq Records
    PROVE  ExecutionInv'
<1>1. TypeOK
  BY DEF ExecutionInv
<1>2. exec' \in [Executors -> Executor] /\ lost' \subseteq Executors
  <2>1. lost \subseteq Executors
    BY <1>1 DEF TypeOK
  <2> QED BY <1>1, <2>1, ExitType, GotoType
<1>3. TypeOK'
  BY <1>1, <1>2 DEF TypeOK
<1> QED BY <1>3, ReleaseStep

-----------------------------------------------------------------------------
(* The audit of a round *)

LEMMA BeginReplyStep ==
    ASSUME ExecutionInv, AuditAssumption, NEW e \in Executors, BeginReply(e)
    PROVE  ExecutionInv'
<1>1. TypeOK /\ exec[e] = Idle
  <2>1. exec[e].pc = "idle"
    BY DEF BeginReply, MayBegin, At
  <2> QED BY <2>1 DEF ExecutionInv, ExecutorsFit, Remembers
<1>2. /\ Goto(e, "supersede") /\ UNCHANGED <<round, claims, rest>>
  BY DEF BeginReply
<1>3. /\ exec' \in [Executors -> Executor] /\ lost' = lost
      /\ exec'[e] = [exec[e] EXCEPT !.pc = "supersede"]
      /\ \A f \in Executors \ {e} : exec'[f] = exec[f]
  BY <1>1, <1>2, GotoType
<1>4. TypeOK'
  BY <1>1, <1>2, <1>3 DEF TypeOK, rest, cards
<1>5. exec'[e] = [Idle EXCEPT !.pc = "supersede"]
  BY <1>1, <1>3
<1>6. Remembers(exec'[e]) /\ \A r \in Records : ~Holds(exec'[e], r)
  BY <1>5 DEF Remembers, Holds, Idle, NoBinding, Executes, Audits, AuditAssumption
<1> QED BY <1>2, <1>3, <1>4, <1>6, UnchangedSettles, MoveStep DEF rest

LEMMA SupersedeStep ==
    ASSUME ExecutionInv, AuditAssumption, NEW e \in Executors, Supersede(e)
    PROVE  ExecutionInv'
<1>1. TypeOK /\ Remembers(exec[e]) /\ exec[e] \in Executor
  BY DEF ExecutionInv, ExecutorsFit, TypeOK
<1>2. /\ exec[e].pc = "supersede" /\ UNCHANGED <<round, claims, lost, rest>>
  BY DEF Supersede, At
<1>3. PICK r \in Records \cup {NoRecord} :
           /\ r = NoRecord \/ r \in Records
           /\ exec' = [exec EXCEPT ![e].pc = IF r = NoRecord THEN "create" ELSE "close", ![e].stale = r]
  BY <1>1 DEF Supersede, TypeOK
<1>4. /\ exec' \in [Executors -> Executor]
      /\ exec'[e] = [exec[e] EXCEPT !.pc = IF r = NoRecord THEN "create" ELSE "close", !.stale = r]
      /\ \A f \in Executors \ {e} : exec'[f] = exec[f]
  BY <1>1, <1>3 DEF TypeOK, Executor
<1>5. TypeOK'
  BY <1>1, <1>2, <1>4 DEF TypeOK, rest, cards
<1>6. /\ exec'[e].pc \in {"create", "close"}
      /\ exec'[e].pc = "close" => exec'[e].stale \in Records
      /\ exec'[e].was = exec[e].was /\ exec'[e].bind = exec[e].bind
      /\ exec'[e].started = exec[e].started /\ exec'[e].ended = exec[e].ended
  BY <1>1, <1>3, <1>4 DEF Executor
<1>7. Remembers(exec'[e])
  BY <1>1, <1>2, <1>6 DEF Remembers, Executes
<1>8. \A r1 \in Records : Holds(exec'[e], r1) =>
          Holds(exec[e], r1) /\ \A x, n : Fits(exec[e], x, n) => Fits(exec'[e], x, n)
  BY <1>2, <1>6 DEF Holds, Fits, Executes, Audits
<1> QED BY <1>2, <1>4, <1>5, <1>7, <1>8, UnchangedSettles, MoveStep DEF rest

LEMMA CloseStep ==
    ASSUME ExecutionInv, AuditAssumption, NEW e \in Executors, Close(e)
    PROVE  ExecutionInv'
<1>1. TypeOK /\ Remembers(exec[e]) /\ exec[e] \in Executor /\ exec[e].pc = "close"
  BY DEF ExecutionInv, ExecutorsFit, TypeOK, Close, At
<1>2. /\ ClosePending(exec[e].stale, "cancelled") /\ UNCHANGED rest
      /\ Goto(e, "create") \/ Goto(e, "handler")
  BY DEF Close
<1>3. round' \in [Records -> Round] /\ \A r \in Records : Settles(round[r], round'[r])
  BY <1>2, ClosePendingSettles
<1>4. claims' \subseteq claims
  BY <1>2 DEF ClosePending
<1>5. exec' \in [Executors -> Executor] /\ lost' = lost
  BY <1>1, <1>2, GotoType
<1>6. TypeOK'
  BY <1>1, <1>2, <1>3, <1>4, <1>5 DEF TypeOK, rest, cards
<1>7. CASE Goto(e, "handler")
  BY <1>2, <1>3, <1>6, <1>7, ReleaseStep DEF rest
<1>8. CASE Goto(e, "create")
  <2>1. /\ exec'[e] = [exec[e] EXCEPT !.pc = "create"]
        /\ \A f \in Executors \ {e} : exec'[f] = exec[f]
    BY <1>1, <1>8, GotoType
  <2>2. Remembers(exec'[e])
    BY <1>1, <2>1 DEF Remembers, Executor, Executes
  <2>3. \A r \in Records : Holds(exec'[e], r) =>
            Holds(exec[e], r) /\ \A x, n : Fits(exec[e], x, n) => Fits(exec'[e], x, n)
    BY <1>1, <2>1 DEF Holds, Fits, Executor, Executes, Audits
  <2> QED BY <1>2, <1>3, <1>6, <2>1, <2>2, <2>3, MoveStep DEF rest
<1> QED BY <1>2, <1>7, <1>8

\* A record that is not there yet is as good as new.
LEMMA AbsentSettles ==
    ASSUME NEW x, Lawful(x), x.status = "absent"
    PROVE  /\ x = NewRound
           /\ Settles(x, [NewRound EXCEPT !.status = "preparing"])
           /\ Keeps(x, [NewRound EXCEPT !.status = "preparing"])
<1>1. x = NewRound
  BY DEF Lawful, Round, NewRound
<1>2. <<x.status, "preparing">> \in Decisions
  BY DEF Decisions
<1>3. Keeps(x, [NewRound EXCEPT !.status = "preparing"])
  BY <1>1, <1>2, DecisionKeeps
<1>4. Settles(x, [NewRound EXCEPT !.status = "preparing"])
  BY <1>1, <1>3 DEF Settles, Keeps, NewRound, Unbegun
<1> QED BY <1>1, <1>3, <1>4

LEMMA CreateStep ==
    ASSUME ExecutionInv, AuditAssumption, NEW e \in Executors, Create(e)
    PROVE  ExecutionInv'
<1>1. TypeOK /\ Remembers(exec[e]) /\ exec[e] \in Executor /\ exec[e].pc = "create"
  BY DEF ExecutionInv, ExecutorsFit, TypeOK, Create, Fenced, At
<1>2. PICK r \in Records :
           /\ IsNext(r) /\ Set(r, [NewRound EXCEPT !.status = "preparing"])
           /\ exec' = [exec EXCEPT ![e].pc = "audit", ![e].at = [r |-> r, k |-> 0]]
           /\ UNCHANGED <<claims, lost, rest>>
  BY DEF Create
<1>3. round' \in [Records -> Round] /\ \A s \in Records : Settles(round[s], round'[s])
  <2>1. Lawful(round[r]) /\ round[r].status = "absent"
    BY <1>2, RoundsLawful DEF IsNext, Unused
  <2> QED BY <1>2, <2>1, AbsentSettles, SetSettles
<1>4. /\ exec' \in [Executors -> Executor]
      /\ exec'[e] = [exec[e] EXCEPT !.pc = "audit", !.at = [r |-> r, k |-> 0]]
      /\ \A f \in Executors \ {e} : exec'[f] = exec[f]
  BY <1>1, <1>2 DEF TypeOK, Executor, Binding
<1>5. TypeOK'
  BY <1>1, <1>2, <1>3, <1>4 DEF TypeOK, rest, cards
<1>6. Remembers(exec'[e])
  BY <1>1, <1>4 DEF Remembers, Executor, Executes
<1>7. \A s \in Records : Holds(exec'[e], s) =>
          Holds(exec[e], s) /\ \A x, n : Fits(exec[e], x, n) => Fits(exec'[e], x, n)
  BY <1>1, <1>4 DEF Holds, Fits, Executor, Executes, Audits
<1> QED BY <1>2, <1>3, <1>4, <1>5, <1>6, <1>7, MoveStep DEF rest

LEMMA AuditedStep ==
    ASSUME ExecutionInv, AuditAssumption, NEW e \in Executors,
           NEW s \in {"passed", "pending", "blocked", "audit_failed"}, Audited(e, s)
    PROVE  ExecutionInv'
<1> DEFINE r == Here(e)
           said == IF round[r].status = "preparing" THEN s ELSE "audit_failed"
           pc == AfterAudit(e, said)
<1>1. TypeOK /\ Remembers(exec[e]) /\ exec[e] \in Executor /\ exec[e].pc = "audit"
  BY DEF ExecutionInv, ExecutorsFit, TypeOK, Audited, Fenced, At
<1>2. r \in Records
  BY <1>1 DEF Remembers, Here
<1>3. /\ IF round[r].status = "preparing" THEN Set(r, [round[r] EXCEPT !.status = s]) ELSE UNCHANGED round
      /\ IF pc = "idle" THEN Exit(e)
         ELSE exec' = [exec EXCEPT ![e].pc = pc, ![e].said = said] /\ UNCHANGED lost
      /\ UNCHANGED <<claims, rest>>
  BY DEF Audited
<1>4. /\ pc = IF exec[e].was # NoBinding THEN "retire"
              ELSE IF said = "pending" THEN "offer" ELSE IF said = "passed" THEN "claim" ELSE "idle"
      /\ said \in RecordStatus
  BY DEF AfterAudit, RecordStatus
<1> HIDE DEF pc, said, r
<1>5. round' \in [Records -> Round] /\ \A t \in Records : Settles(round[t], round'[t])
  <2>1. CASE round[r].status = "preparing"
    <3>1. <<round[r].status, s>> \in Decisions /\ Lawful(round[r]) /\ round[r] \in Round
      BY <1>2, <2>1, RoundsLawful DEF Decisions
    <3>2. Lawful([round[r] EXCEPT !.status = s])
      BY <3>1, DecisionKeeps DEF Keeps
    <3>3. Settles(round[r], [round[r] EXCEPT !.status = s])
      BY <2>1, <3>1, <3>2 DEF Settles, Round, Unbegun
    <3> QED BY <1>3, <2>1, <3>3, SetSettles
  <2>2. CASE round[r].status # "preparing"
    BY <1>3, <2>2, UnchangedSettles
  <2> QED BY <2>1, <2>2
<1>6. CASE Exit(e)
  <2>1. exec' \in [Executors -> Executor] /\ lost' \subseteq Executors
    BY <1>1, <1>6, ExitType
  <2>2. TypeOK'
    BY <1>1, <1>3, <1>5, <2>1 DEF TypeOK, rest, cards
  <2> QED BY <1>3, <1>5, <1>6, <2>2, ReleaseStep DEF rest
<1>7. CASE pc # "idle" /\ exec' = [exec EXCEPT ![e].pc = pc, ![e].said = said] /\ UNCHANGED lost
  <2>1. /\ exec' \in [Executors -> Executor]
        /\ exec'[e] = [exec[e] EXCEPT !.pc = pc, !.said = said]
        /\ \A f \in Executors \ {e} : exec'[f] = exec[f]
    BY <1>1, <1>4, <1>7 DEF TypeOK, Executor
  <2>2. TypeOK'
    BY <1>1, <1>3, <1>5, <1>7, <2>1 DEF TypeOK, rest, cards
  <2>3. /\ exec'[e].pc = pc /\ exec'[e].was = exec[e].was /\ exec'[e].bind = exec[e].bind
        /\ exec'[e].at = exec[e].at /\ exec'[e].ended = exec[e].ended /\ exec'[e].started = exec[e].started
    BY <1>1, <2>1 DEF Executor
  <2>4. pc \in {"retire", "offer", "claim"} /\ (pc = "retire" => exec[e].was # NoBinding)
    BY <1>4, <1>7
  <2>5. Remembers(exec'[e])
    BY <1>1, <2>3, <2>4 DEF Remembers, Executes
  <2>6. \A t \in Records : Holds(exec'[e], t) =>
            Holds(exec[e], t) /\ \A x, n : Fits(exec[e], x, n) => Fits(exec'[e], x, n)
    BY <1>1, <2>3, <2>4 DEF Holds, Fits, Executes, Audits
  <2> QED BY <1>3, <1>5, <2>1, <2>2, <2>5, <2>6, MoveStep DEF rest
<1> QED BY <1>3, <1>6, <1>7

LEMMA OfferStep ==
    ASSUME ExecutionInv, AuditAssumption, NEW e \in Executors, Offer(e)
    PROVE  ExecutionInv'
<1> DEFINE r == Here(e)
<1>1. TypeOK /\ Remembers(exec[e]) /\ exec[e] \in Executor /\ exec[e].pc = "offer"
  BY DEF ExecutionInv, ExecutorsFit, TypeOK, Offer, Fenced, At
<1>2. r \in Records
  BY <1>1 DEF Remembers, Here
<1>3. /\ Goto(e, "shown") \/ Goto(e, "handler")
      /\ claims' \subseteq claims \cup {r} /\ shown' \subseteq shown \cup {r}
      /\ UNCHANGED <<issued, reshown, expired, ready, sweep, asked, ran, faults>>
  BY DEF Offer
<1>4. round' \in [Records -> Round] /\ \A t \in Records : Settles(round[t], round'[t])
  <2>1. UNCHANGED round \/ (Set(r, Closed(round[r], "audit_failed")) /\ round[r].status = "pending")
    BY DEF Offer
  <2> QED BY <2>1, UnchangedSettles, ClosePendingSettles
<1>5. /\ exec' \in [Executors -> Executor] /\ lost' = lost
      /\ exec'[e] \in {[exec[e] EXCEPT !.pc = "shown"], [exec[e] EXCEPT !.pc = "handler"]}
      /\ \A f \in Executors \ {e} : exec'[f] = exec[f]
  BY <1>1, <1>3, GotoType
<1>6. TypeOK'
  BY <1>1, <1>2, <1>3, <1>4, <1>5 DEF TypeOK
<1>7. Remembers(exec'[e])
  BY <1>1, <1>5 DEF Remembers, Executor, Executes
<1>8. \A t \in Records : ~Holds(exec'[e], t)
  BY <1>1, <1>5, NothingHeld DEF Executor
<1> QED BY <1>3, <1>4, <1>5, <1>6, <1>7, <1>8, MoveStep

LEMMA AbsorbStep ==
    ASSUME ExecutionInv, AuditAssumption, NEW e \in Executors, Absorb(e)
    PROVE  ExecutionInv'
<1>1. TypeOK /\ UNCHANGED rest /\ (Exit(e) \/ Goto(e, "handler"))
  BY DEF Absorb, ExecutionInv
<1>2. ClosePending(Here(e), "cancelled")
  BY DEF Absorb
<1>3. round' \in [Records -> Round] /\ \A t \in Records : Settles(round[t], round'[t])
  BY <1>2, ClosePendingSettles
<1>4. claims' \cup shown \cup reshown \cup expired \subseteq Records /\ faults \in 0..MaxFaults
  <2>1. claims' \subseteq claims
    BY <1>2 DEF ClosePending
  <2> QED BY <1>1, <2>1 DEF TypeOK
<1> QED BY <1>1, <1>3, <1>4, LeaveStep DEF rest, cards

LEMMA OfferedStep ==
    ASSUME ExecutionInv, AuditAssumption, NEW e \in Executors, Offered(e)
    PROVE  ExecutionInv'
<1>1. Exit(e) /\ UNCHANGED <<round, claims, rest>>
  BY DEF Offered
<1>2. claims \cup shown \cup reshown \cup expired \subseteq Records /\ faults \in 0..MaxFaults
  BY DEF ExecutionInv, TypeOK
<1> QED BY <1>1, <1>2, UnchangedSettles, LeaveStep DEF rest, cards

-----------------------------------------------------------------------------
(* The execution of a round *)

LEMMA BeginConfirmedStep ==
    ASSUME ExecutionInv, AuditAssumption, NEW e \in Executors, NEW b \in ready, BeginConfirmed(e, b)
    PROVE  ExecutionInv'
<1> DEFINE y == [Idle EXCEPT !.pc = "check", !.kind = "confirmed", !.at = b, !.bind = b]
<1>1. TypeOK /\ RecordsFit /\ HoldersFit /\ ReadyFit /\ ExecutorsFit /\ SweepFit
  BY DEF ExecutionInv
<1>2. exec[e] = Idle
  <2>1. exec[e].pc = "idle"
    BY DEF BeginConfirmed, MayBegin, At
  <2> QED BY <1>1, <2>1 DEF ExecutorsFit, Remembers
<1>3. /\ exec' = [exec EXCEPT ![e] = y] /\ ready' = ready \ {b}
      /\ UNCHANGED <<round, issued, claims, cards, expired, lost, sweep, asked, ran, faults>>
  BY DEF BeginConfirmed
<1>4. b \in Binding /\ Good(b) /\ Untouched(round[b.r], ran[b.r])
  BY <1>1 DEF TypeOK, ReadyFit
<1>5. /\ y \in Executor
      /\ y.pc = "check" /\ y.at = b /\ y.was = NoBinding /\ y.bind = b /\ y.started = {} /\ y.ended = {}
  BY <1>4, IdleType DEF Idle, Executor
<1> HIDE DEF y
<1>6. /\ exec' \in [Executors -> Executor] /\ exec'[e] = y
      /\ \A f \in Executors \ {e} : exec'[f] = exec[f]
  BY <1>1, <1>3, <1>5 DEF TypeOK
<1>7. TypeOK'
  BY <1>1, <1>3, <1>6 DEF TypeOK, cards
<1>8. \A s \in Records : Holds(y, s) <=> s = b.r
  BY <1>5 DEF Holds, Executes, Audits
<1>9. \A f \in Executors : ~Holds(exec[f], b.r)
  BY <1>1, <1>4 DEF HoldersFit, Good
<1>10. \A c \in ready' : c.r # b.r
  <2> SUFFICES ASSUME NEW c \in ready, c.r = b.r PROVE c = b
    BY <1>3
  <2>1. c \in Binding /\ c.k = b.k
    BY <1>1, <1>4 DEF TypeOK, ReadyFit, Good
  <2> QED BY <1>4, <2>1 DEF Binding
<1>11. Fits(y, round[b.r], ran[b.r])
  BY <1>4, <1>5 DEF Fits, Audits
<1>12. HoldersFit'
  <2> SUFFICES ASSUME NEW f \in Executors, NEW s \in Records, Holds(exec'[f], s)
               PROVE  /\ issued[s] = 1
                      /\ Fits(exec'[f], round[s], ran[s])
                      /\ \A c \in ready' : c.r # s
                      /\ \A g \in Executors \ {f} : ~Holds(exec'[g], s)
    BY <1>3 DEF HoldersFit, Holds
  <2>1. CASE f = e
    <3>1. s = b.r
      BY <1>6, <1>8, <2>1
    <3> QED BY <1>4, <1>6, <1>9, <1>10, <1>11, <2>1, <3>1 DEF Good
  <2>2. CASE f # e
    <3>1. Holds(exec[f], s)
      BY <1>6, <2>2
    <3>2. /\ issued[s] = 1 /\ Fits(exec[f], round[s], ran[s])
          /\ \A c \in ready : c.r # s
          /\ \A g \in Executors \ {f} : ~Holds(exec[g], s)
      BY <1>1, <3>1 DEF HoldersFit
    <3>3. ~Holds(exec'[e], s)
      BY <1>6, <1>8, <1>9, <3>1
    <3> QED BY <1>3, <1>6, <2>2, <3>2, <3>3
  <2> QED BY <2>1, <2>2
<1>13. ReadyFit'
  BY <1>1, <1>3 DEF ReadyFit, Good, Untouched
<1>14. Remembers(y)
  BY <1>4, <1>5 DEF Remembers, Executes
<1>15. \A f \in Executors : Remembers(exec'[f])
  BY <1>1, <1>6, <1>14 DEF ExecutorsFit
<1>16. ExecutorsFit'
  BY <1>3, <1>15 DEF ExecutorsFit, Remembers, Good
<1>17. SweepFit' /\ RecordsFit'
  BY <1>1, <1>3 DEF SweepFit, Good, RecordsFit, Lawful, Issue, Truth
<1> QED BY <1>7, <1>12, <1>13, <1>16, <1>17 DEF ExecutionInv

\* A confirmed round that was not begun is closed by its executor.
LEMMA UntouchedClosed ==
    ASSUME ExecutionInv, NEW e \in Executors, NEW r \in Records, Holds(exec[e], r),
           exec[e].pc \in {"check"} \cup Audits, NEW k, NEW s \in {"failed", "cancelled"},
           IF Executing(round[r], k) THEN Set(r, Closed(round[r], s)) ELSE UNCHANGED round
    PROVE  round' \in [Records -> Round] /\ \A t \in Records : Settles(round[t], round'[t])
<1>1. CASE Executing(round[r], k)
  <2>1. Fits(exec[e], round[r], ran[r]) /\ Lawful(round[r])
    BY RoundsLawful DEF ExecutionInv, HoldersFit
  <2>2. Untouched(round[r], ran[r])
    BY <2>1 DEF Fits
  <2>3. Attempted(round[r], "running") = {} /\ round[r].status = "executing"
    BY <1>1, <2>2 DEF Untouched, Attempted, Executing
  <2>4. Settles(round[r], Closed(round[r], s))
    BY <2>1, <2>3, ClosedSettles
  <2> QED BY <1>1, <2>4, SetSettles
<1>2. CASE ~Executing(round[r], k)
  BY <1>2, UnchangedSettles
<1> QED BY <1>1, <1>2

LEMMA SourceInvalidStep ==
    ASSUME ExecutionInv, AuditAssumption, NEW e \in Executors, SourceInvalid(e)
    PROVE  ExecutionInv'
<1>1. /\ exec[e].pc = "check" /\ Exit(e) /\ UNCHANGED <<claims, rest>>
      /\ IF Executing(round[Here(e)], exec[e].at.k) THEN Set(Here(e), Closed(round[Here(e)], "failed"))
         ELSE UNCHANGED round
  BY DEF SourceInvalid, At
<1>2. Here(e) \in Records /\ Holds(exec[e], Here(e))
  BY <1>1 DEF ExecutionInv, ExecutorsFit, Remembers, Good, Here, Holds, Executes
<1>3. round' \in [Records -> Round] /\ \A t \in Records : Settles(round[t], round'[t])
  BY <1>1, <1>2, UntouchedClosed
<1>4. claims \cup shown \cup reshown \cup expired \subseteq Records /\ faults \in 0..MaxFaults
  BY DEF ExecutionInv, TypeOK
<1> QED BY <1>1, <1>3, <1>4, LeaveStep DEF rest, cards

LEMMA SourceValidStep ==
    ASSUME ExecutionInv, AuditAssumption, NEW e \in Executors, SourceValid(e)
    PROVE  ExecutionInv'
<1>1. /\ exec[e].pc = "check" /\ Goto(e, "attempt") /\ UNCHANGED <<round, claims, rest>>
      /\ TypeOK /\ exec[e] \in Executor /\ Remembers(exec[e])
  BY DEF SourceValid, At, ExecutionInv, TypeOK, ExecutorsFit
<1>2. /\ exec' \in [Executors -> Executor] /\ lost' = lost
      /\ exec'[e] = [exec[e] EXCEPT !.pc = "attempt"]
      /\ \A f \in Executors \ {e} : exec'[f] = exec[f]
  BY <1>1, GotoType
<1>3. TypeOK'
  BY <1>1, <1>2 DEF TypeOK, rest, cards
<1>4. Remembers(exec'[e])
  BY <1>1, <1>2 DEF Remembers, Executor, Executes
<1>5. \A r \in Records : Holds(exec'[e], r) =>
          Holds(exec[e], r) /\ \A x, n : Fits(exec[e], x, n) => Fits(exec'[e], x, n)
  BY <1>1, <1>2 DEF Holds, Fits, Untouched, Prepared, Executor, Executes, Audits
<1> QED BY <1>1, <1>2, <1>3, <1>4, <1>5, UnchangedSettles, MoveStep DEF rest

LEMMA FilesChangedStep ==
    ASSUME ExecutionInv, AuditAssumption, NEW e \in Executors, FilesChanged(e)
    PROVE  ExecutionInv'
<1>1. /\ exec[e].pc = "check" /\ UNCHANGED <<round, claims, lost, rest>>
      /\ exec' = [exec EXCEPT ![e].pc = "supersede", ![e].was = exec[e].at]
      /\ TypeOK /\ exec[e] \in Executor /\ Remembers(exec[e])
  BY DEF FilesChanged, At, ExecutionInv, TypeOK, ExecutorsFit
<1>2. /\ exec' \in [Executors -> Executor]
      /\ exec'[e] = [exec[e] EXCEPT !.pc = "supersede", !.was = exec[e].at]
      /\ \A f \in Executors \ {e} : exec'[f] = exec[f]
  BY <1>1 DEF TypeOK, Executor
<1>3. TypeOK'
  BY <1>1, <1>2 DEF TypeOK, rest, cards
<1>4. Remembers(exec'[e])
  BY <1>1, <1>2 DEF Remembers, Executor, Executes
<1>5. \A r \in Records : Holds(exec'[e], r) =>
          Holds(exec[e], r) /\ \A x, n : Fits(exec[e], x, n) => Fits(exec'[e], x, n)
  BY <1>1, <1>2 DEF Holds, Fits, Executor, Executes, Audits
<1> QED BY <1>1, <1>2, <1>3, <1>4, <1>5, UnchangedSettles, MoveStep DEF rest

LEMMA RetireStep ==
    ASSUME ExecutionInv, AuditAssumption, NEW e \in Executors, Retire(e)
    PROVE  ExecutionInv'
<1> DEFINE b == exec[e].was
<1>1. /\ exec[e].pc = "retire" /\ UNCHANGED <<claims, rest>>
      /\ IF Executing(round[b.r], b.k) THEN Set(b.r, Closed(round[b.r], "cancelled")) ELSE UNCHANGED round
      /\ Goto(e, "reshow") \/ Goto(e, "claim") \/ Exit(e)
      /\ TypeOK /\ exec[e] \in Executor /\ Remembers(exec[e])
  BY DEF Retire, At, ExecutionInv, TypeOK, ExecutorsFit
<1>2. b.r \in Records /\ Holds(exec[e], b.r)
  BY <1>1 DEF Remembers, Good, Holds, Audits
<1>3. round' \in [Records -> Round] /\ \A t \in Records : Settles(round[t], round'[t])
  <2>1. exec[e].pc \in {"check"} \cup Audits
    BY <1>1 DEF Audits
  <2> HIDE DEF b
  <2> QED BY <1>1, <1>2, <2>1, UntouchedClosed
<1>4. claims \cup shown \cup reshown \cup expired \subseteq Records /\ faults \in 0..MaxFaults
  BY <1>1 DEF TypeOK
<1>5. CASE Exit(e)
  BY <1>1, <1>3, <1>4, <1>5, LeaveStep DEF rest, cards
<1>6. CASE Goto(e, "reshow") \/ Goto(e, "claim")
  <2>1. /\ exec' \in [Executors -> Executor] /\ lost' = lost
        /\ exec'[e] \in {[exec[e] EXCEPT !.pc = "reshow"], [exec[e] EXCEPT !.pc = "claim"]}
        /\ \A f \in Executors \ {e} : exec'[f] = exec[f]
    BY <1>1, <1>6, GotoType
  <2>2. TypeOK'
    BY <1>1, <1>3, <2>1 DEF TypeOK, rest, cards
  <2>3. Remembers(exec'[e])
    BY <1>1, <2>1 DEF Remembers, Executor, Executes
  <2>4. \A t \in Records : ~Holds(exec'[e], t)
    BY <1>1, <2>1, NothingHeld DEF Executor
  <2> QED BY <1>1, <1>3, <2>1, <2>2, <2>3, <2>4, MoveStep DEF rest
<1> QED BY <1>1, <1>5, <1>6

LEMMA ReshowStep ==
    ASSUME ExecutionInv, AuditAssumption, NEW e \in Executors, Reshow(e)
    PROVE  ExecutionInv'
<1>1. /\ exec[e].pc = "reshow" /\ Exit(e) /\ reshown' = reshown \cup {Here(e)}
      /\ UNCHANGED <<round, issued, claims, shown, expired, ready, sweep, asked, ran, faults>>
  BY DEF Reshow, Fenced, At
<1>2. Here(e) \in Records
  BY <1>1 DEF ExecutionInv, ExecutorsFit, Remembers, Here
<1>3. claims \cup shown \cup reshown \cup expired \subseteq Records /\ faults \in 0..MaxFaults
  BY DEF ExecutionInv, TypeOK
<1> QED BY <1>1, <1>2, <1>3, UnchangedSettles, LeaveStep

LEMMA ClaimPassedStep ==
    ASSUME ExecutionInv, AuditAssumption, NEW e \in Executors, ClaimPassed(e)
    PROVE  ExecutionInv'
<1> DEFINE r == Here(e)
           k == issued[r] + 1
           x == exec[e]
<1>1. /\ x.pc = "claim" /\ TypeOK /\ x \in Executor /\ Remembers(x)
      /\ UNCHANGED <<claims, cards, expired, ready, lost, sweep, asked, ran>>
  BY DEF ClaimPassed, Fenced, At, ExecutionInv, TypeOK, ExecutorsFit
<1>2. r \in Records /\ k \in Nat
  <2>1. r \in Records
    BY <1>1 DEF Remembers, Here
  <2>2. issued \in [Records -> Nat]
    BY <1>1 DEF TypeOK
  <2> HIDE DEF r
  <2>3. issued[r] + 1 \in Nat
    BY <2>1, <2>2
  <2> QED BY <2>1, <2>3
<1>3. claims \cup shown \cup reshown \cup expired \subseteq Records /\ faults \in 0..MaxFaults
  BY <1>1 DEF TypeOK
<1>4. CASE round[r].status # "passed"
  <2>1. exec' = [exec EXCEPT ![e].pc = "handler"] /\ UNCHANGED <<round, issued, faults>>
    BY <1>4 DEF ClaimPassed
  <2>2. Goto(e, "handler")
    BY <1>1, <2>1 DEF Goto
  <2> QED BY <1>1, <1>3, <2>1, <2>2, UnchangedSettles, LeaveStep DEF cards
<1>5. CASE round[r].status = "passed"
  <2>1. /\ round' = [round EXCEPT ![r] = Claimed(round[r], k)] /\ issued' = [issued EXCEPT ![r] = k]
        /\ \/ /\ exec' = [exec EXCEPT ![e].at.k = k,
                                      ![e].pc = IF x.kind = "confirmed" THEN "bind" ELSE "attempt"]
              /\ UNCHANGED faults
           \/ Fault /\ exec' = [exec EXCEPT ![e].pc = "handler"]
    BY <1>5 DEF ClaimPassed, Set
  <2> HIDE DEF k
  <2>2. /\ exec' \in [Executors -> Executor] /\ exec'[e] \in Executor
        /\ \A f \in Executors \ {e} : exec'[f] = exec[f]
        /\ exec'[e].was = x.was /\ exec'[e].bind = x.bind
        /\ exec'[e].started = x.started /\ exec'[e].ended = x.ended /\ exec'[e].kind = x.kind
        /\ \/ /\ exec'[e].pc = IF x.kind = "confirmed" THEN "bind" ELSE "attempt"
              /\ exec'[e].at = [r |-> r, k |-> k]
           \/ exec'[e].pc = "handler"
    <3>1. CASE exec' = [exec EXCEPT ![e].pc = "handler"]
      BY <1>1, <3>1 DEF TypeOK, Executor
    <3>2. CASE exec' = [exec EXCEPT ![e].at.k = k, ![e].pc = IF x.kind = "confirmed" THEN "bind" ELSE "attempt"]
      <4>1. exec' = [exec EXCEPT ![e] = [x EXCEPT !.at = [r |-> r, k |-> k],
                                                  !.pc = IF x.kind = "confirmed" THEN "bind" ELSE "attempt"]]
        BY <1>1, <3>2 DEF TypeOK, Executor, Binding, Here
      <4>2. [x EXCEPT !.at = [r |-> r, k |-> k],
                      !.pc = IF x.kind = "confirmed" THEN "bind" ELSE "attempt"] \in Executor
        BY <1>1, <1>2 DEF Executor, Binding
      <4> QED BY <1>1, <4>1, <4>2 DEF TypeOK, Executor
    <3> QED BY <2>1, <3>1, <3>2
  <2>3. Claimed(round[r], k) \in Round
    BY <1>2, RoundsLawful, ClaimedType
  <2>4. round' \in [Records -> Round] /\ issued' \in [Records -> Nat] /\ faults' \in 0..MaxFaults
    BY <1>1, <1>2, <2>1, <2>3 DEF TypeOK, Fault, AuditAssumption
  <2>5. TypeOK'
    BY <1>1, <2>2, <2>4 DEF TypeOK, cards
  <2>6. issued[r] = 0 /\ k = 1
    <3>1. Issue(r)
      BY <1>2 DEF ExecutionInv, RecordsFit
    <3> HIDE DEF r
    <3>2. issued[r] = 0
      BY <1>5, <3>1 DEF Issue
    <3> QED BY <3>2 DEF k
  <2>7. \A s \in Records : issued[s] = 1 => issued'[s] = 1
    BY <1>1, <2>1, <2>6 DEF TypeOK
  <2>8. issued'[r] = 1
    BY <1>1, <1>2, <2>1, <2>6 DEF TypeOK
  <2>9. Remembers(exec[e])'
    <3>1. exec'[e].was = NoBinding \/ Good(exec[e].was)'
      <4>1. x.was = NoBinding \/ (x.was.r \in Records /\ x.was.k = 1 /\ issued[x.was.r] = 1)
        BY <1>1 DEF Remembers, Good
      <4> QED BY <2>2, <2>7, <4>1 DEF Good
    <3>2. exec'[e].bind = NoBinding \/ Good(exec[e].bind)'
      <4>1. x.bind = NoBinding \/ (x.bind.r \in Records /\ x.bind.k = 1 /\ issued[x.bind.r] = 1)
        BY <1>1 DEF Remembers, Good
      <4> QED BY <2>2, <2>7, <4>1 DEF Good
    <3>3. exec'[e].pc \in Executes => Good(exec[e].at)'
      BY <1>2, <2>2, <2>6, <2>8 DEF Good, Executes
    <3> QED BY <1>1, <2>2, <3>1, <3>2, <3>3 DEF Remembers
  <2>10. ASSUME NEW s \in Records, Holds(exec'[e], s)
         PROVE  s = r /\ (\A n : Untouched(round'[r], n) => Fits(exec'[e], round'[r], n))
    <3>1. exec'[e].pc = (IF x.kind = "confirmed" THEN "bind" ELSE "attempt") /\ exec'[e].at.r = r
      BY <2>2, <2>10, NothingHeld
    <3>2. s = r
      BY <2>10, <3>1 DEF Holds, Executes, Audits
    <3>3. \A y, n : Untouched(y, n) => Prepared(y, n, {"none", "running"})
      BY DEF Untouched, Prepared
    <3>4. \A y, n : Untouched(y, n) => Fits(exec'[e], y, n)
      BY <2>2, <3>1, <3>3 DEF Fits, Audits
    <3> QED BY <3>2, <3>4
  <2> HIDE DEF r
  <2>11. round' = [round EXCEPT ![r] = Claimed(round[r], issued[r] + 1)] /\ issued' = [issued EXCEPT ![r] = issued[r] + 1]
    BY <2>1 DEF k
  <2> QED BY <1>1, <1>2, <1>5, <2>2, <2>5, <2>9, <2>10, <2>11, ClaimStep
<1> QED BY <1>4, <1>5

\* What the executor that holds the round it is at knows.
LEMMA AtFits ==
    ASSUME ExecutionInv, NEW e \in Executors, exec[e].pc \in Executes
    PROVE  /\ TypeOK /\ Remembers(exec[e]) /\ exec[e] \in Executor
           /\ Here(e) \in Records /\ exec[e].at.k = 1 /\ Holds(exec[e], Here(e))
           /\ Fits(exec[e], round[Here(e)], ran[Here(e)])
           /\ Lawful(round[Here(e)]) /\ round[Here(e)] \in Round
           /\ Issue(Here(e)) /\ Truth(round[Here(e)], ran[Here(e)])
<1>1. TypeOK /\ Remembers(exec[e]) /\ exec[e] \in Executor
  BY DEF ExecutionInv, TypeOK, ExecutorsFit
<1>2. Here(e) \in Records /\ exec[e].at.k = 1 /\ Holds(exec[e], Here(e))
  BY <1>1 DEF Remembers, Good, Holds, Here
<1>3. Fits(exec[e], round[Here(e)], ran[Here(e)])
  BY <1>2 DEF ExecutionInv, HoldersFit
<1>4. Lawful(round[Here(e)]) /\ Issue(Here(e)) /\ Truth(round[Here(e)], ran[Here(e)])
  BY <1>2 DEF ExecutionInv, RecordsFit
<1> QED BY <1>1, <1>2, <1>3, <1>4 DEF Lawful

\* A step of the executor with the round it is at: no record is claimed or queued, and
\* the record keeps its status and token.
LEMMA HereStep ==
    ASSUME ExecutionInv, NEW e \in Executors, exec[e].pc \in Executes,
           NEW r \in Records, r = Here(e),
           exec' \in [Executors -> Executor], lost' = lost,
           \A f \in Executors \ {e} : exec'[f] = exec[f],
           NEW x \in Round, round' = [round EXCEPT ![r] = x],
           x.status = round[r].status, x.token = round[r].token,
           NEW n \in [Tools -> Nat], ran' = [ran EXCEPT ![r] = n],
           UNCHANGED <<issued, claims, cards, expired, ready, sweep, asked>>, faults' \in 0..MaxFaults,
           Lawful(x), Truth(x, n), Remembers(exec'[e]),
           \A s \in Records : Holds(exec'[e], s) => s = r /\ Fits(exec'[e], x, n)
    PROVE  ExecutionInv'
<1>1. /\ TypeOK /\ r \in Records /\ Holds(exec[e], r) /\ Issue(r)
      /\ round \in [Records -> Round] /\ ran \in [Records -> [Tools -> Nat]]
  BY AtFits DEF TypeOK
<1>2. /\ round' \in [Records -> Round] /\ ran' \in [Records -> [Tools -> Nat]]
      /\ round'[r] = x /\ ran'[r] = n
      /\ \A s \in Records \ {r} : round'[s] = round[s] /\ ran'[s] = ran[s]
  BY <1>1
<1>3. TypeOK'
  BY <1>1, <1>2 DEF TypeOK, cards
<1>4. Issue(r)'
  <2>1. issued'[r] = issued[r] /\ round'[r].status = round[r].status /\ round'[r].token = round[r].token
    BY <1>2
  <2> QED BY <1>1, <2>1 DEF Issue
<1>5. \A s \in Records : Holds(exec'[e], s) => s = r /\ Fits(exec'[e], round'[r], ran'[r])
  BY <1>2
<1>6. Lawful(round'[r]) /\ Truth(round'[r], ran'[r])
  BY <1>2
<1>7. UNCHANGED <<issued, ready, sweep>>
  OBVIOUS
<1> QED BY <1>1, <1>2, <1>3, <1>4, <1>5, <1>6, <1>7, OwnStep

LEMMA CreateAttemptsStep ==
    ASSUME ExecutionInv, AuditAssumption, NEW e \in Executors, NEW t \in Tools, CreateAttempts(e, t)
    PROVE  ExecutionInv'
<1> DEFINE x == round[Here(e)]
           n == ran[Here(e)]
<1>1. /\ exec[e].pc = "attempt" /\ exec[e].pc \in Executes
      /\ x.attempts[t] = "none" /\ UNCHANGED <<claims, rest>>
      /\ \/ Executing(x, exec[e].at.k) /\ Set(Here(e), CreateAttempt(x, t)) /\ UNCHANGED <<exec, lost>>
         \/ Goto(e, "abort") /\ UNCHANGED round
  BY DEF CreateAttempts, Fenced, At, Executes
<1>2. /\ TypeOK /\ Remembers(exec[e]) /\ exec[e] \in Executor
      /\ Here(e) \in Records /\ Holds(exec[e], Here(e)) /\ Fits(exec[e], x, n)
      /\ Lawful(x) /\ x \in Round /\ Truth(x, n)
  BY <1>1, AtFits
<1>3. CASE Goto(e, "abort") /\ UNCHANGED round
  <2>1. /\ exec' \in [Executors -> Executor] /\ lost' = lost
        /\ exec'[e] = [exec[e] EXCEPT !.pc = "abort"]
        /\ \A f \in Executors \ {e} : exec'[f] = exec[f]
    BY <1>2, <1>3, GotoType
  <2>2. TypeOK'
    BY <1>1, <1>2, <1>3, <2>1 DEF TypeOK, rest, cards
  <2>3. Remembers(exec'[e])
    BY <1>1, <1>2, <2>1 DEF Remembers, Executor, Executes
  <2>4. \A s \in Records : Holds(exec'[e], s) =>
            Holds(exec[e], s) /\ \A y, m : Fits(exec[e], y, m) => Fits(exec'[e], y, m)
    BY <1>1, <1>2, <2>1 DEF Holds, Fits, Executor, Executes, Audits
  <2> QED BY <1>1, <1>3, <2>1, <2>2, <2>3, <2>4, UnchangedSettles, MoveStep DEF rest
<1>4. CASE Executing(x, exec[e].at.k) /\ Set(Here(e), CreateAttempt(x, t)) /\ UNCHANGED <<exec, lost>>
  <2> DEFINE y == CreateAttempt(x, t)
  <2>1. /\ y \in Round /\ y.status = x.status /\ y.token = x.token
        /\ \A u \in Tools : y.attempts[u] = IF u = t THEN "running" ELSE x.attempts[u]
    <3>1. "running" \in AttemptStatus
      BY DEF AttemptStatus
    <3>2. /\ y \in Round /\ y.status = x.status /\ y.token = x.token
          /\ \A u \in Tools : y.attempts[u] = IF u \in {t} THEN "running" ELSE x.attempts[u]
      BY <1>2, <3>1, AttemptsType DEF CreateAttempt
    <3> HIDE DEF x, y
    <3> QED BY <3>2
  <2>2. Lawful(y)
    BY <1>1, <1>2, <1>4, CreateAttemptKeeps DEF Keeps, Executing
  <2>3. Prepared(x, n, {"none", "running"})
    BY <1>1, <1>2 DEF Fits
  <2> HIDE DEF x, y, n
  <2>4. Prepared(y, n, {"none", "running"}) /\ Truth(y, n)
    <3>1. \A u \in Tools : /\ n[u] = 0 /\ x.attempts[u] \in {"none", "running", "unknown"}
                           /\ x.status = "executing" => x.attempts[u] \in {"none", "running"}
      BY <2>3 DEF Prepared
    <3>2. \A u \in Tools : y.attempts[u] \in {"running", x.attempts[u]} /\ y.status = x.status
      BY <2>1
    <3>3. \A u \in Tools : /\ n[u] = 0 /\ y.attempts[u] \in {"none", "running", "unknown"}
                           /\ y.status = "executing" => y.attempts[u] \in {"none", "running"}
      BY <3>1, <3>2
    <3>4. Prepared(y, n, {"none", "running"})
      BY <3>3 DEF Prepared
    <3>5. Truth(y, n)
      BY <3>3 DEF Truth
    <3> QED BY <3>4, <3>5
  <2>5. \A s \in Records : Holds(exec'[e], s) => s = Here(e) /\ Fits(exec'[e], y, n)
    BY <1>1, <1>4, <2>4 DEF Holds, Fits, Executes, Audits, Here
  <2>6. n \in [Tools -> Nat] /\ ran = [ran EXCEPT ![Here(e)] = n] /\ faults \in 0..MaxFaults
    BY <1>2 DEF TypeOK, n
  <2>7. exec' \in [Executors -> Executor] /\ round' = [round EXCEPT ![Here(e)] = y]
    BY <1>2, <1>4 DEF TypeOK, Set, y
  <2>8. y.status = round[Here(e)].status /\ y.token = round[Here(e)].token
    BY <2>1 DEF x
  <2>9. UNCHANGED <<issued, claims, cards, expired, ready, sweep, asked, ran, faults, lost, exec>>
    BY <1>1, <1>4 DEF rest
  <2> QED BY <1>1, <1>2, <2>1, <2>2, <2>4, <2>5, <2>6, <2>7, <2>8, <2>9, HereStep
<1> QED BY <1>1, <1>3, <1>4

LEMMA AllAttemptedStep ==
    ASSUME ExecutionInv, AuditAssumption, NEW e \in Executors, AllAttempted(e)
    PROVE  ExecutionInv'
<1> DEFINE x == round[Here(e)]
           n == ran[Here(e)]
           pc == IF exec[e].kind = "reply" THEN "bind" ELSE "run"
<1>1. /\ exec[e].pc = "attempt" /\ exec[e].pc \in Executes
      /\ Attempted(x, "none") = {} /\ UNCHANGED <<round, claims, rest>> /\ Goto(e, pc)
  BY DEF AllAttempted, Fenced, At, Executes
<1>2. /\ TypeOK /\ Remembers(exec[e]) /\ exec[e] \in Executor
      /\ Here(e) \in Records /\ Fits(exec[e], x, n)
      /\ Lawful(x) /\ x \in Round /\ Truth(x, n)
  BY <1>1, AtFits
<1>3. /\ exec' \in [Executors -> Executor] /\ lost' = lost
      /\ exec'[e] = [exec[e] EXCEPT !.pc = pc]
      /\ \A f \in Executors \ {e} : exec'[f] = exec[f]
  BY <1>1, <1>2, GotoType
<1>4. /\ exec'[e].pc = pc /\ exec'[e].at = exec[e].at /\ exec'[e].was = exec[e].was
      /\ exec'[e].bind = exec[e].bind /\ exec'[e].kind = exec[e].kind
      /\ exec'[e].started = {} /\ exec'[e].ended = {}
  BY <1>1, <1>2, <1>3 DEF Executor, Remembers
<1>5. exec[e].kind \in {"reply", "confirmed"}
  BY <1>2 DEF Executor
<1>6. Remembers(exec'[e])
  BY <1>1, <1>2, <1>4, <1>5 DEF Remembers, Executes
<1>7. Prepared(x, n, {"none", "running"})
  BY <1>1, <1>2 DEF Fits
<1>8. Prepared(x, n, {"running"})
  BY <1>1, <1>7 DEF Prepared, Attempted
<1> HIDE DEF x, n
<1>9. InRun(exec'[e], x, n)
  BY <1>4, <1>8 DEF InRun, Prepared
<1>10. \A s \in Records : Holds(exec'[e], s) => s = Here(e) /\ Fits(exec'[e], x, n)
  BY <1>4, <1>5, <1>8, <1>9 DEF Holds, Fits, Executes, Audits, Here
<1>11. /\ n \in [Tools -> Nat] /\ ran' = [ran EXCEPT ![Here(e)] = n] /\ faults' \in 0..MaxFaults
       /\ round' = [round EXCEPT ![Here(e)] = x]
  BY <1>1, <1>2 DEF TypeOK, rest, x, n
<1>12. x.status = round[Here(e)].status /\ x.token = round[Here(e)].token
  BY DEF x
<1>13. UNCHANGED <<issued, claims, cards, expired, ready, sweep, asked>>
  BY <1>1 DEF rest
<1> HIDE DEF pc
<1> QED BY <1>1, <1>2, <1>3, <1>6, <1>10, <1>11, <1>12, <1>13, HereStep

LEMMA BindStep ==
    ASSUME ExecutionInv, AuditAssumption, NEW e \in Executors, Bind(e)
    PROVE  ExecutionInv'
<1> DEFINE pc == IF exec[e].kind = "reply" THEN "run" ELSE "attempt"
<1>1. /\ exec[e].pc = "bind" /\ UNCHANGED <<round, claims, lost, rest>>
      /\ exec' = [exec EXCEPT ![e].bind = exec[e].at, ![e].pc = pc]
      /\ TypeOK /\ exec[e] \in Executor /\ Remembers(exec[e])
  BY DEF Bind, Fenced, At, ExecutionInv, TypeOK, ExecutorsFit
<1>2. /\ exec' \in [Executors -> Executor]
      /\ exec'[e] = [exec[e] EXCEPT !.bind = exec[e].at, !.pc = pc]
      /\ \A f \in Executors \ {e} : exec'[f] = exec[f]
  BY <1>1 DEF TypeOK, Executor
<1>3. TypeOK'
  BY <1>1, <1>2 DEF TypeOK, rest, cards
<1>4. /\ exec'[e].pc = pc /\ exec'[e].at = exec[e].at /\ exec'[e].was = exec[e].was
      /\ exec'[e].bind = exec[e].at /\ exec'[e].kind = exec[e].kind
      /\ exec'[e].started = {} /\ exec'[e].ended = {}
  BY <1>1, <1>2 DEF Executor, Remembers
<1>5. exec[e].kind \in {"reply", "confirmed"} /\ pc \in {"run", "attempt"}
  BY <1>1 DEF Executor
<1>6. /\ exec[e].kind = "reply" => pc = "run"
      /\ exec[e].kind = "confirmed" => pc = "attempt"
  OBVIOUS
<1> HIDE DEF pc
<1>7. Remembers(exec'[e])
  BY <1>1, <1>4, <1>5 DEF Remembers, Executes
<1>8. \A x, n : Prepared(x, n, {"running"}) => InRun(exec'[e], x, n)
  BY <1>4 DEF Prepared, InRun
<1>9. \A x, n : Untouched(x, n) => Prepared(x, n, {"none", "running"})
  BY DEF Prepared, Untouched
<1>10. \A x, n : Fits(exec[e], x, n) => Fits(exec'[e], x, n)
  BY <1>1, <1>4, <1>5, <1>6, <1>8, <1>9 DEF Fits, Audits
<1>11. \A r \in Records : Holds(exec'[e], r) => Holds(exec[e], r)
  BY <1>1, <1>4, <1>5 DEF Holds, Executes, Audits
<1> QED BY <1>1, <1>2, <1>3, <1>7, <1>10, <1>11, UnchangedSettles, MoveStep DEF rest

LEMMA PrecheckStep ==
    ASSUME ExecutionInv, AuditAssumption, NEW e \in Executors, Precheck(e)
    PROVE  ExecutionInv'
<1>1. /\ exec[e].pc = "run" /\ exec[e].started = {} /\ Goto(e, "abort") /\ UNCHANGED <<round, claims, rest>>
      /\ TypeOK /\ exec[e] \in Executor /\ Remembers(exec[e])
  BY DEF Precheck, At, ExecutionInv, TypeOK, ExecutorsFit
<1>2. /\ exec' \in [Executors -> Executor] /\ lost' = lost
      /\ exec'[e] = [exec[e] EXCEPT !.pc = "abort"]
      /\ \A f \in Executors \ {e} : exec'[f] = exec[f]
  BY <1>1, GotoType
<1>3. TypeOK'
  BY <1>1, <1>2 DEF TypeOK, rest, cards
<1>4. Remembers(exec'[e])
  BY <1>1, <1>2 DEF Remembers, Executor, Executes
<1>5. ASSUME NEW x, NEW n, InRun(exec[e], x, n) PROVE Prepared(x, n, {"none", "running"})
  <2>1. exec[e].ended = {}
    BY <1>1 DEF Remembers
  <2> QED BY <1>1, <1>5, <2>1 DEF InRun, Prepared
<1>6. exec'[e].pc = "abort" /\ exec'[e].at = exec[e].at
  BY <1>1, <1>2 DEF Executor
<1>7. \A r \in Records : Holds(exec'[e], r) =>
          Holds(exec[e], r) /\ \A x, n : Fits(exec[e], x, n) => Fits(exec'[e], x, n)
  BY <1>1, <1>5, <1>6 DEF Holds, Fits, Executes, Audits
<1> QED BY <1>1, <1>2, <1>3, <1>4, <1>7, UnchangedSettles, MoveStep DEF rest

LEMMA AbortAttemptsStep ==
    ASSUME ExecutionInv, AuditAssumption, NEW e \in Executors, AbortAttempts(e)
    PROVE  ExecutionInv'
<1> DEFINE x == round[Here(e)]
           n == ran[Here(e)]
           y == FinishAttempts(x, Tools, "cancelled")
<1>1. /\ exec[e].pc = "abort" /\ exec[e].pc \in Executes /\ UNCHANGED <<claims, rest>>
      /\ Set(Here(e), y) /\ Goto(e, "giveup")
  BY DEF AbortAttempts, At, Executes
<1>2. /\ TypeOK /\ Remembers(exec[e]) /\ exec[e] \in Executor
      /\ Here(e) \in Records /\ Fits(exec[e], x, n)
      /\ Lawful(x) /\ x \in Round /\ Truth(x, n)
  BY <1>1, AtFits
<1>3. /\ exec' \in [Executors -> Executor] /\ lost' = lost
      /\ exec'[e] = [exec[e] EXCEPT !.pc = "giveup"]
      /\ \A f \in Executors \ {e} : exec'[f] = exec[f]
  BY <1>1, <1>2, GotoType
<1>4. Remembers(exec'[e])
  BY <1>1, <1>2, <1>3 DEF Remembers, Executor, Executes
<1>5. exec'[e].pc = "giveup" /\ exec'[e].at = exec[e].at
  BY <1>2, <1>3 DEF Executor
<1>6. "cancelled" \in AttemptStatus /\ "cancelled" \in AttemptStatus \ {"none"}
  BY DEF AttemptStatus
<1>7. Lawful(y)
  BY <1>2, <1>6, FinishAttemptsEnds DEF Ends
<1>8. /\ y \in Round /\ y.status = x.status /\ y.token = x.token
      /\ \A u \in Tools : y.attempts[u] =
             IF u \in Tools /\ x.status = "executing" /\ x.attempts[u] = "running" THEN "cancelled" ELSE x.attempts[u]
  BY <1>2, <1>6, FinishAttemptsType
<1>9. Prepared(x, n, {"none", "running"})
  BY <1>1, <1>2 DEF Fits
<1>10. /\ n \in [Tools -> Nat] /\ ran' = [ran EXCEPT ![Here(e)] = n] /\ faults' \in 0..MaxFaults
       /\ round' = [round EXCEPT ![Here(e)] = y]
  BY <1>1, <1>2 DEF TypeOK, rest, Set
<1>11. UNCHANGED <<issued, claims, cards, expired, ready, sweep, asked>>
  BY <1>1 DEF rest
<1> HIDE DEF x, n, y
<1>12. \A u \in Tools : y.attempts[u] # "running"
  BY <1>7, <1>8 DEF Lawful
<1>13. Prepared(y, n, {"none", "cancelled"}) /\ Truth(y, n)
  BY <1>8, <1>9, <1>12 DEF Prepared, Truth
<1>14. \A s \in Records : Holds(exec'[e], s) => s = Here(e) /\ Fits(exec'[e], y, n)
  BY <1>5, <1>13 DEF Holds, Fits, Executes, Audits, Here
<1>15. y.status = round[Here(e)].status /\ y.token = round[Here(e)].token
  BY <1>8 DEF x
<1> QED BY <1>1, <1>2, <1>3, <1>4, <1>7, <1>8, <1>10, <1>11, <1>13, <1>14, <1>15, HereStep

LEMMA AbortRoundStep ==
    ASSUME ExecutionInv, AuditAssumption, NEW e \in Executors, AbortRound(e)
    PROVE  ExecutionInv'
<1>1. /\ UNCHANGED <<claims, rest>>
      /\ Exit(e) \/ Goto(e, "handler")
      /\ Set(Here(e), FinishRound(round[Here(e)], exec[e].at.k, "failed"))
  BY DEF AbortRound
<1>2. ASSUME Here(e) \in Records
      PROVE  Settles(round[Here(e)], FinishRound(round[Here(e)], exec[e].at.k, "failed"))
  <2>1. "failed" \in {"failed", "cancelled", "unknown"}
    OBVIOUS
  <2> QED BY <1>2, <2>1, RoundsLawful, FinishRoundSettles
<1>3. round' \in [Records -> Round] /\ \A t \in Records : Settles(round[t], round'[t])
  BY <1>1, <1>2, SetSettles
<1>4. claims \cup shown \cup reshown \cup expired \subseteq Records /\ faults \in 0..MaxFaults
  BY DEF ExecutionInv, TypeOK
<1> QED BY <1>1, <1>3, <1>4, LeaveStep DEF rest, cards

LEMMA FinishStep ==
    ASSUME ExecutionInv, AuditAssumption, NEW e \in Executors, Finish(e)
    PROVE  ExecutionInv'
<1>1. /\ UNCHANGED <<claims, rest>> /\ Exit(e)
      /\ Set(Here(e), FinishIfComplete(round[Here(e)], exec[e].at.k))
  BY DEF Finish
<1>2. Here(e) \in Records => Settles(round[Here(e)], FinishIfComplete(round[Here(e)], exec[e].at.k))
  BY RoundsLawful, FinishIfCompleteSettles
<1>3. round' \in [Records -> Round] /\ \A t \in Records : Settles(round[t], round'[t])
  BY <1>1, <1>2, SetSettles
<1>4. claims \cup shown \cup reshown \cup expired \subseteq Records /\ faults \in 0..MaxFaults
  BY DEF ExecutionInv, TypeOK
<1> QED BY <1>1, <1>3, <1>4, LeaveStep DEF rest, cards

LEMMA HandlerStep ==
    ASSUME ExecutionInv, AuditAssumption, NEW e \in Executors, Handler(e)
    PROVE  ExecutionInv'
<1>1. /\ UNCHANGED <<claims, rest>> /\ Exit(e) /\ Handled(exec[e].bind)
  BY DEF Handler
<1>2. exec[e].bind = NoBinding \/ Good(exec[e].bind)
  BY DEF ExecutionInv, ExecutorsFit, Remembers
<1>3. round' \in [Records -> Round] /\ \A t \in Records : Settles(round[t], round'[t])
  BY <1>1, <1>2, HandledSettles
<1>4. claims \cup shown \cup reshown \cup expired \subseteq Records /\ faults \in 0..MaxFaults
  BY DEF ExecutionInv, TypeOK
<1> QED BY <1>1, <1>3, <1>4, LeaveStep DEF rest, cards

LEMMA StartToolStep ==
    ASSUME ExecutionInv, AuditAssumption, NEW e \in Executors, NEW t \in Tools, StartTool(e, t)
    PROVE  ExecutionInv'
<1> DEFINE x == round[Here(e)]
           n == ran[Here(e)]
           m == [n EXCEPT ![t] = @ + 1]
<1>1. /\ exec[e].pc = "run" /\ exec[e].pc \in Executes /\ t \notin exec[e].started
      /\ exec' = [exec EXCEPT ![e].started = @ \cup {t}]
      /\ ran' = [ran EXCEPT ![Here(e)][t] = @ + 1]
      /\ UNCHANGED <<round, issued, claims, cards, expired, ready, lost, sweep, asked, faults>>
  BY DEF StartTool, Fenced, At, Executes
<1>2. /\ TypeOK /\ Remembers(exec[e]) /\ exec[e] \in Executor
      /\ Here(e) \in Records /\ Fits(exec[e], x, n)
      /\ Lawful(x) /\ x \in Round /\ Truth(x, n)
  BY <1>1, AtFits
<1>3. /\ n \in [Tools -> Nat] /\ m \in [Tools -> Nat] /\ ran' = [ran EXCEPT ![Here(e)] = m]
      /\ faults' \in 0..MaxFaults /\ round' = [round EXCEPT ![Here(e)] = x]
  BY <1>1, <1>2 DEF TypeOK
<1>4. InRun(exec[e], x, n)
  BY <1>1, <1>2 DEF Fits
<1>5. n[t] = 0
  BY <1>1, <1>4 DEF InRun
<1>6. /\ m[t] = 1 /\ \A u \in Tools \ {t} : m[u] = n[u]
  BY <1>3, <1>5
<1>7. x.status = round[Here(e)].status /\ x.token = round[Here(e)].token
  OBVIOUS
<1> HIDE DEF x, m, n
<1>8. /\ exec' \in [Executors -> Executor] /\ lost' = lost
      /\ exec'[e] = [exec[e] EXCEPT !.started = @ \cup {t}]
      /\ \A f \in Executors \ {e} : exec'[f] = exec[f]
  BY ZenonT(40), <1>1, <1>2 DEF TypeOK, Executor
<1>9. /\ exec'[e].pc = "run" /\ exec'[e].at = exec[e].at /\ exec'[e].was = exec[e].was
      /\ exec'[e].bind = exec[e].bind /\ exec'[e].kind = exec[e].kind
      /\ exec'[e].started = exec[e].started \cup {t} /\ exec'[e].ended = exec[e].ended
  BY <1>1, <1>2, <1>8 DEF Executor
<1>10. Remembers(exec'[e])
  BY <1>1, <1>2, <1>9 DEF Remembers, Executes
<1>11. Truth(x, m)
  BY <1>2, <1>4, <1>6 DEF Truth, InRun
<1>12. InRun(exec'[e], x, m)
  <2> SUFFICES ASSUME NEW u \in Tools
               PROVE  /\ m[u] = IF u \in exec'[e].started THEN 1 ELSE 0
                      /\ x.attempts[u] \notin {"none", "cancelled"}
                      /\ u \notin exec'[e].started => x.attempts[u] \in {"running", "unknown"}
                      /\ u \in exec'[e].ended => x.attempts[u] # "running"
                      /\ u \notin exec'[e].ended /\ x.status = "executing" => x.attempts[u] = "running"
    BY DEF InRun
  <2>1. /\ n[u] = IF u \in exec[e].started THEN 1 ELSE 0
        /\ x.attempts[u] \notin {"none", "cancelled"}
        /\ u \notin exec[e].started => x.attempts[u] \in {"running", "unknown"}
        /\ u \in exec[e].ended => x.attempts[u] # "running"
        /\ u \notin exec[e].ended /\ x.status = "executing" => x.attempts[u] = "running"
    BY <1>4 DEF InRun
  <2> QED BY <1>6, <1>9, <2>1
<1>13. \A s \in Records : Holds(exec'[e], s) => s = Here(e) /\ Fits(exec'[e], x, m)
  BY <1>9, <1>12 DEF Holds, Fits, Executes, Audits, Here
<1> QED BY <1>1, <1>2, <1>3, <1>7, <1>8, <1>10, <1>11, <1>13, HereStep

LEMMA ToolEndsStep ==
    ASSUME ExecutionInv, AuditAssumption, NEW e \in Executors, NEW t \in Tools,
           NEW s \in {"succeeded", "failed", "unknown"}, ToolEnds(e, t, s)
    PROVE  ExecutionInv'
<1> DEFINE x == round[Here(e)]
           n == ran[Here(e)]
           y == FinishAttempts(x, {t}, s)
<1>1. /\ exec[e].pc = "run" /\ exec[e].pc \in Executes /\ t \in exec[e].started \ exec[e].ended
      /\ exec' = [exec EXCEPT ![e].ended = @ \cup {t}]
      /\ Set(Here(e), y) /\ UNCHANGED <<claims, lost, rest>>
  BY DEF ToolEnds, At, Executes, FinishAttempt
<1>2. /\ TypeOK /\ Remembers(exec[e]) /\ exec[e] \in Executor
      /\ Here(e) \in Records /\ Fits(exec[e], x, n)
      /\ Lawful(x) /\ x \in Round /\ Truth(x, n)
  BY <1>1, AtFits
<1>3. /\ n \in [Tools -> Nat] /\ ran' = [ran EXCEPT ![Here(e)] = n] /\ faults' \in 0..MaxFaults
      /\ round' = [round EXCEPT ![Here(e)] = y]
      /\ UNCHANGED <<issued, claims, cards, expired, ready, sweep, asked>>
  BY <1>1, <1>2 DEF TypeOK, rest, Set
<1>4. s \in AttemptStatus /\ s \in AttemptStatus \ {"none"}
  BY DEF AttemptStatus
<1>5. Lawful(y)
  BY <1>2, <1>4, FinishAttemptsEnds DEF Ends
<1>6. /\ y \in Round /\ y.status = x.status /\ y.token = x.token
      /\ \A u \in Tools : y.attempts[u] =
             IF u \in {t} /\ x.status = "executing" /\ x.attempts[u] = "running" THEN s ELSE x.attempts[u]
  BY <1>2, <1>4, FinishAttemptsType
<1>7. InRun(exec[e], x, n)
  BY <1>1, <1>2 DEF Fits
<1>8. x = round[Here(e)]
  OBVIOUS
<1> HIDE DEF x, n, y
<1>9. /\ exec' \in [Executors -> Executor] /\ lost' = lost
      /\ exec'[e] = [exec[e] EXCEPT !.ended = @ \cup {t}]
      /\ \A f \in Executors \ {e} : exec'[f] = exec[f]
  BY ZenonT(40), <1>1, <1>2 DEF TypeOK, Executor
<1>10. /\ exec'[e].pc = "run" /\ exec'[e].at = exec[e].at /\ exec'[e].was = exec[e].was
       /\ exec'[e].bind = exec[e].bind /\ exec'[e].kind = exec[e].kind
       /\ exec'[e].started = exec[e].started /\ exec'[e].ended = exec[e].ended \cup {t}
  BY <1>1, <1>2, <1>9 DEF Executor
<1>11. Remembers(exec'[e])
  BY <1>1, <1>2, <1>10 DEF Remembers, Executes
<1>12. /\ \A u \in Tools \ {t} : y.attempts[u] = x.attempts[u]
       /\ y.attempts[t] = IF x.status = "executing" /\ x.attempts[t] = "running" THEN s ELSE x.attempts[t]
  BY <1>6
<1>13. /\ n[t] = 1 /\ x.attempts[t] \notin {"none", "cancelled"}
       /\ y.attempts[t] \notin {"none", "cancelled", "running"}
  <2>1. n[t] = 1 /\ x.attempts[t] \notin {"none", "cancelled"}
    BY <1>1, <1>7 DEF InRun
  <2>2. x.attempts[t] = "running" => x.status = "executing"
    BY <1>2 DEF Lawful
  <2> QED BY <1>12, <2>1, <2>2
<1>14. Truth(y, n)
  BY <1>2, <1>12, <1>13 DEF Truth
<1>15. InRun(exec'[e], y, n)
  <2> SUFFICES ASSUME NEW u \in Tools
               PROVE  /\ n[u] = IF u \in exec'[e].started THEN 1 ELSE 0
                      /\ y.attempts[u] \notin {"none", "cancelled"}
                      /\ u \notin exec'[e].started => y.attempts[u] \in {"running", "unknown"}
                      /\ u \in exec'[e].ended => y.attempts[u] # "running"
                      /\ u \notin exec'[e].ended /\ y.status = "executing" => y.attempts[u] = "running"
    BY DEF InRun
  <2>1. /\ n[u] = IF u \in exec[e].started THEN 1 ELSE 0
        /\ x.attempts[u] \notin {"none", "cancelled"}
        /\ u \notin exec[e].started => x.attempts[u] \in {"running", "unknown"}
        /\ u \in exec[e].ended => x.attempts[u] # "running"
        /\ u \notin exec[e].ended /\ x.status = "executing" => x.attempts[u] = "running"
    BY <1>7 DEF InRun
  <2>2. CASE u = t
    BY <1>1, <1>10, <1>13, <2>1, <2>2
  <2>3. CASE u # t
    BY <1>6, <1>10, <1>12, <2>1, <2>3
  <2> QED BY <2>2, <2>3
<1>16. \A r \in Records : Holds(exec'[e], r) => r = Here(e) /\ Fits(exec'[e], y, n)
  BY <1>10, <1>15 DEF Holds, Fits, Executes, Audits, Here
<1>17. y.status = round[Here(e)].status /\ y.token = round[Here(e)].token
  BY <1>6, <1>8
<1> QED BY <1>1, <1>2, <1>3, <1>5, <1>6, <1>9, <1>11, <1>14, <1>16, <1>17, HereStep

-----------------------------------------------------------------------------
(* Errors, lost claims, stops and restarts *)

LEMMA FaultType == ASSUME TypeOK, AuditAssumption, Fault PROVE faults' \in 0..MaxFaults
BY DEF TypeOK, Fault, AuditAssumption

\* The marks an executor makes on the round it is at.
LEMMA MarkHereSettles ==
    ASSUME ExecutionInv, NEW e \in Executors, exec[e].pc \in Executes,
           \/ Set(Here(e), MarkUnknown(round[Here(e)], exec[e].at.k))
           \/ Set(Here(e), MarkUnknownReliably(round[Here(e)], exec[e].at.k))
    PROVE  round' \in [Records -> Round] /\ \A t \in Records : Settles(round[t], round'[t])
<1>1. /\ Lawful(round[Here(e)])
      /\ round[Here(e)].status = "executing" => round[Here(e)].token = exec[e].at.k
  BY AtFits DEF Issue
<1>2. /\ Settles(round[Here(e)], MarkUnknown(round[Here(e)], exec[e].at.k))
      /\ Settles(round[Here(e)], MarkUnknownReliably(round[Here(e)], exec[e].at.k))
  BY <1>1, MarkUnknownSettles
<1> QED BY <1>2, SetSettles

\* The handler of a confirmed round cancels what was not started.
LEMMA OnCancelStep ==
    ASSUME ExecutionInv, AuditAssumption, NEW e \in Executors, exec[e].pc = "run",
           Set(Here(e), OnCancel(e)), Goto(e, "handler"), faults' \in 0..MaxFaults,
           UNCHANGED <<issued, claims, cards, expired, ready, sweep, asked, ran>>
    PROVE  ExecutionInv'
<1> DEFINE x == round[Here(e)]
           n == ran[Here(e)]
           T == Tools \ exec[e].started
           y == FinishAttempts(x, T, "cancelled")
<1>1. exec[e].pc \in Executes
  BY DEF Executes
<1>2. /\ TypeOK /\ Remembers(exec[e]) /\ exec[e] \in Executor
      /\ Here(e) \in Records /\ Fits(exec[e], x, n)
      /\ Lawful(x) /\ x \in Round /\ Truth(x, n)
  BY <1>1, AtFits
<1>3. /\ n \in [Tools -> Nat] /\ ran' = [ran EXCEPT ![Here(e)] = n]
      /\ round' = [round EXCEPT ![Here(e)] = y]
  BY <1>2 DEF TypeOK, OnCancel, Set
<1>4. "cancelled" \in AttemptStatus /\ "cancelled" \in AttemptStatus \ {"none"}
  BY DEF AttemptStatus
<1>5. Lawful(y)
  BY <1>2, <1>4, FinishAttemptsEnds DEF Ends
<1>6. /\ y \in Round /\ y.status = x.status /\ y.token = x.token
      /\ \A u \in Tools : y.attempts[u] =
             IF u \in T /\ x.status = "executing" /\ x.attempts[u] = "running" THEN "cancelled" ELSE x.attempts[u]
  BY <1>2, <1>4, FinishAttemptsType
<1>7. InRun(exec[e], x, n) /\ x = round[Here(e)]
  BY <1>2 DEF Fits
<1> HIDE DEF x, n, y
<1>8. ASSUME NEW u \in Tools
      PROVE  /\ n[u] \in {0, 1}
             /\ n[u] = 1 => y.attempts[u] \notin {"none", "cancelled"}
             /\ y.attempts[u] \in {"succeeded", "failed"} => n[u] = 1
  <2>1. /\ n[u] = IF u \in exec[e].started THEN 1 ELSE 0
        /\ x.attempts[u] \notin {"none", "cancelled"}
        /\ u \notin exec[e].started => x.attempts[u] \in {"running", "unknown"}
    BY <1>7 DEF InRun
  <2> QED BY <1>6, <2>1
<1>9. Truth(y, n)
  BY <1>8 DEF Truth
<1>10. /\ exec' \in [Executors -> Executor] /\ lost' = lost
       /\ exec'[e] = [exec[e] EXCEPT !.pc = "handler"]
       /\ \A f \in Executors \ {e} : exec'[f] = exec[f]
  BY <1>2, GotoType
<1>11. Remembers(exec'[e]) /\ exec'[e].pc = "handler"
  BY <1>2, <1>10, HandlerRemembers DEF Executor
<1>12. \A s \in Records : ~Holds(exec'[e], s)
  BY <1>11, NothingHeld
<1>13. y.status = round[Here(e)].status /\ y.token = round[Here(e)].token
  BY <1>6, <1>7
<1> QED BY <1>1, <1>2, <1>3, <1>5, <1>6, <1>9, <1>10, <1>11, <1>12, <1>13, HereStep

LEMMA CancelledStep ==
    ASSUME ExecutionInv, AuditAssumption, NEW e \in Executors, Cancelled(e)
    PROVE  ExecutionInv'
<1>1. /\ Goto(e, "handler")
      /\ UNCHANGED <<issued, cards, expired, ready, sweep, asked, ran>>
  BY DEF Cancelled
<1>2. TypeOK /\ claims \cup shown \cup reshown \cup expired \subseteq Records
  BY DEF ExecutionInv, TypeOK
<1>3. faults' \in 0..MaxFaults
  <2>1. UNCHANGED faults \/ Fault
    BY DEF Cancelled
  <2> QED BY <1>2, <2>1, FaultType DEF TypeOK
<1>4. \/ Set(Here(e), CancelUnexecuted(round[Here(e)])) /\ claims' = claims \ {Here(e)}
      \/ /\ UNCHANGED claims
         /\ \/ exec[e].pc \in {"attempt", "bind"} /\ Set(Here(e), MarkUnknown(round[Here(e)], exec[e].at.k))
            \/ exec[e].pc = "bind" /\ Set(Here(e), MarkUnknownReliably(round[Here(e)], exec[e].at.k))
            \/ exec[e].pc = "run" /\ Set(Here(e), OnCancel(e))
            \/ UNCHANGED round
  BY DEF Cancelled, At
<1>5. CASE exec[e].pc = "run" /\ Set(Here(e), OnCancel(e)) /\ UNCHANGED claims
  BY <1>1, <1>3, <1>5, OnCancelStep
<1>6. CASE Set(Here(e), CancelUnexecuted(round[Here(e)])) /\ claims' = claims \ {Here(e)}
  <2>1. Here(e) \in Records => Settles(round[Here(e)], CancelUnexecuted(round[Here(e)]))
    BY RoundsLawful, CancelUnexecutedSettles
  <2>2. round' \in [Records -> Round] /\ \A t \in Records : Settles(round[t], round'[t])
    BY <1>6, <2>1, SetSettles
  <2> QED BY <1>1, <1>2, <1>3, <1>6, <2>2, LeaveStep DEF cards
<1>7. CASE /\ UNCHANGED claims
           /\ \/ exec[e].pc \in {"attempt", "bind"} /\ Set(Here(e), MarkUnknown(round[Here(e)], exec[e].at.k))
              \/ exec[e].pc = "bind" /\ Set(Here(e), MarkUnknownReliably(round[Here(e)], exec[e].at.k))
              \/ UNCHANGED round
  <2>1. round' \in [Records -> Round] /\ \A t \in Records : Settles(round[t], round'[t])
    BY <1>7, UnchangedSettles, MarkHereSettles DEF Executes
  <2> QED BY <1>1, <1>2, <1>3, <1>7, <2>1, LeaveStep DEF cards
<1> QED BY <1>4, <1>5, <1>6, <1>7

LEMMA FailsStep ==
    ASSUME ExecutionInv, AuditAssumption, NEW e \in Executors, Fails(e)
    PROVE  ExecutionInv'
<1>1. /\ Goto(e, "handler") /\ Fault
      /\ UNCHANGED <<issued, claims, cards, expired, ready, sweep, asked, ran>>
      /\ \/ exec[e].pc \in {"attempt", "bind"} /\ Set(Here(e), MarkUnknown(round[Here(e)], exec[e].at.k))
         \/ exec[e].pc = "bind" /\ Set(Here(e), MarkUnknownReliably(round[Here(e)], exec[e].at.k))
         \/ UNCHANGED round
  BY DEF Fails, At
<1>2. TypeOK /\ claims \cup shown \cup reshown \cup expired \subseteq Records
  BY DEF ExecutionInv, TypeOK
<1>3. faults' \in 0..MaxFaults
  BY <1>1, <1>2, FaultType
<1>4. round' \in [Records -> Round] /\ \A t \in Records : Settles(round[t], round'[t])
  BY <1>1, UnchangedSettles, MarkHereSettles DEF Executes
<1> QED BY <1>1, <1>2, <1>3, <1>4, LeaveStep DEF cards

LEMMA SweepStep ==
    ASSUME ExecutionInv, AuditAssumption, NEW e \in Executors, Sweep(e)
    PROVE  ExecutionInv'
<1>1. /\ Fault /\ lost' = lost \cup {e}
      /\ sweep' \subseteq sweep \cup {exec[e].bind} /\ (exec[e].bind = NoBinding => sweep' = sweep)
      /\ UNCHANGED <<round, issued, claims, cards, expired, ready, exec, asked, ran>>
  BY DEF Sweep
<1>2. TypeOK /\ exec[e] \in Executor /\ Remembers(exec[e])
  BY DEF ExecutionInv, TypeOK, ExecutorsFit
<1>3. faults' \in 0..MaxFaults
  BY <1>1, <1>2, FaultType
<1>4. exec[e].bind \in Binding
  BY <1>2 DEF Executor
<1>5. TypeOK'
  BY <1>1, <1>2, <1>3, <1>4 DEF TypeOK, cards
<1>6. \A b \in sweep' : Good(b)
  BY <1>1, <1>2 DEF ExecutionInv, SweepFit, Remembers
<1> QED BY <1>1, <1>5, <1>6, UnchangedSettles, CalmStep

\* A statement of nobody's or of the sweep: the executors stay where they are.
LEMMA AsideStep ==
    ASSUME ExecutionInv, AuditAssumption,
           round' \in [Records -> Round], \A t \in Records : Settles(round[t], round'[t]),
           UNCHANGED <<issued, ran>>, ready' \subseteq ready, sweep' \subseteq sweep,
           exec' = exec \/ exec' = [e \in Executors |-> Idle],
           claims' \cup expired' \subseteq Records, UNCHANGED cards, lost' \subseteq Executors,
           asked' \in [Records -> 0..MaxAsked], faults' \in 0..MaxFaults
    PROVE  ExecutionInv'
<1>1. TypeOK /\ \A b \in sweep' : Good(b)
  BY DEF ExecutionInv, SweepFit
<1>2. exec' \in [Executors -> Executor]
  BY <1>1, IdleType DEF TypeOK
<1>3. TypeOK'
  BY <1>1, <1>2 DEF TypeOK, cards
<1>4. ASSUME NEW e \in Executors
      PROVE  \/ exec'[e] = exec[e]
             \/ /\ Remembers(exec'[e])
                /\ \A r \in Records : Holds(exec'[e], r) =>
                      Holds(exec[e], r) /\ Fits(exec'[e], round'[r], ran[r])
  <2>1. exec'[e] = exec[e] \/ exec'[e] = Idle
    OBVIOUS
  <2> QED BY <2>1, IdleRemembers, NothingHeld
<1> QED BY <1>1, <1>3, <1>4, CalmStep

LEMMA SweepMarkStep ==
    ASSUME ExecutionInv, AuditAssumption, NEW b \in sweep, SweepMark(b)
    PROVE  ExecutionInv'
<1>1. /\ Handled(b) /\ sweep' = sweep \ {b}
      /\ UNCHANGED <<issued, claims, cards, expired, ready, exec, lost, asked, ran, faults>>
  BY DEF SweepMark
<1>2. TypeOK /\ Good(b)
  BY DEF ExecutionInv, SweepFit
<1>3. round' \in [Records -> Round] /\ \A t \in Records : Settles(round[t], round'[t])
  BY <1>1, <1>2, HandledSettles
<1>4. /\ claims \cup expired \subseteq Records /\ lost \subseteq Executors
      /\ asked \in [Records -> 0..MaxAsked] /\ faults \in 0..MaxFaults
  BY <1>2 DEF TypeOK
<1> QED BY <1>1, <1>3, <1>4, AsideStep

LEMMA StopStep ==
    ASSUME ExecutionInv, AuditAssumption, Stop
    PROVE  ExecutionInv'
<1>1. /\ Fault /\ round' = [r \in Records |-> CancelUnexecuted(round[r])]
      /\ claims' \subseteq claims /\ ready' = {} /\ lost' \subseteq Executors
      /\ UNCHANGED <<issued, cards, expired, exec, sweep, asked, ran>>
  BY DEF Stop
<1>2. /\ TypeOK /\ claims \cup expired \subseteq Records
      /\ asked \in [Records -> 0..MaxAsked]
  BY DEF ExecutionInv, TypeOK
<1>3. faults' \in 0..MaxFaults
  BY <1>1, <1>2, FaultType
<1>4. ASSUME NEW t \in Records PROVE Settles(round[t], round'[t]) /\ round'[t] \in Round
  <2>1. Settles(round[t], CancelUnexecuted(round[t]))
    BY RoundsLawful, CancelUnexecutedSettles
  <2> QED BY <1>1, <2>1 DEF Settles, Lawful
<1>5. round' \in [Records -> Round]
  BY <1>1, <1>4
<1> QED BY <1>1, <1>2, <1>3, <1>4, <1>5, AsideStep

LEMMA RestartStep ==
    ASSUME ExecutionInv, AuditAssumption, Restart
    PROVE  ExecutionInv'
<1> DEFINE over == {r \in expired : round[r].status = "pending"}
<1>1. /\ Fault
      /\ round' = [r \in Records |-> IF r \in over THEN Closed(round[r], "expired") ELSE Recovered(round[r])]
      /\ claims' \subseteq claims /\ exec' = [e \in Executors |-> Idle] /\ lost' = {} /\ sweep' = {}
      /\ asked' = [r \in Records |-> 0]
      /\ UNCHANGED <<issued, cards, expired, ready, ran>>
  BY DEF Restart
<1>2. TypeOK /\ claims \cup expired \subseteq Records
  BY DEF ExecutionInv, TypeOK
<1>3. faults' \in 0..MaxFaults
  BY <1>1, <1>2, FaultType
<1>4. ASSUME NEW t \in Records PROVE Settles(round[t], round'[t]) /\ round'[t] \in Round
  <2>1. Lawful(round[t])
    BY RoundsLawful
  <2>2. Settles(round[t], Recovered(round[t]))
    BY <2>1, RecoveredSettles
  <2>3. round[t].status = "pending" => Settles(round[t], Closed(round[t], "expired"))
    <3>1. "expired" \in RecordEnds
      BY DEF RecordEnds, RecordStatus
    <3> QED BY <2>1, <3>1, ClosedSettles DEF Unbegun
  <2>4. Settles(round[t], round'[t])
    BY <1>1, <2>2, <2>3
  <2> QED BY <2>4 DEF Settles, Lawful
<1>5. round' \in [Records -> Round]
  BY <1>1, <1>4
<1>6. asked' \in [Records -> 0..MaxAsked]
  BY <1>1 DEF AuditAssumption
<1> QED BY <1>1, <1>2, <1>3, <1>4, <1>5, <1>6, AsideStep

-----------------------------------------------------------------------------
(* The user's messages *)

LEMMA AskedType ==
    ASSUME TypeOK, AuditAssumption, NEW r \in Records,
           Answer(r) \/ asked' = asked \/ (asked[r] < MaxAsked /\ asked' = [asked EXCEPT ![r] = @ + 1])
    PROVE  asked' \in [Records -> 0..MaxAsked]
<1>1. asked \in [Records -> 0..MaxAsked] /\ MaxAsked \in Nat
  BY DEF TypeOK, AuditAssumption
<1>2. CASE asked[r] > 0 /\ asked' = [asked EXCEPT ![r] = @ - 1]
  <2>1. asked[r] \in 0..MaxAsked /\ asked[r] - 1 \in 0..MaxAsked
    BY <1>1, <1>2
  <2> QED BY <1>1, <1>2, <2>1
<1>3. CASE asked[r] < MaxAsked /\ asked' = [asked EXCEPT ![r] = @ + 1]
  <2>1. asked[r] \in 0..MaxAsked /\ asked[r] + 1 \in 0..MaxAsked
    BY <1>1, <1>3
  <2> QED BY <1>1, <1>3, <2>1
<1> QED BY <1>1, <1>2, <1>3 DEF Answer

LEMMA SubmitStep ==
    ASSUME ExecutionInv, AuditAssumption, Submit
    PROVE  ExecutionInv'
<1>1. /\ round' = [r \in Records |-> IF Expires(r) THEN Closed(round[r], "expired") ELSE round[r]]
      /\ claims' \subseteq claims
      /\ UNCHANGED <<issued, cards, expired, ready, exec, lost, sweep, ran, faults>>
      /\ \/ UNCHANGED asked
         \/ \E r \in Current : asked[r] < MaxAsked /\ asked' = [asked EXCEPT ![r] = @ + 1]
  BY DEF Submit
<1>2. /\ TypeOK /\ claims \cup expired \subseteq Records /\ lost \subseteq Executors
      /\ faults \in 0..MaxFaults /\ asked \in [Records -> 0..MaxAsked]
  BY DEF ExecutionInv, TypeOK
<1>3. asked' \in [Records -> 0..MaxAsked]
  <2>1. CASE UNCHANGED asked
    BY <1>2, <2>1
  <2>2. CASE \E r \in Current : asked[r] < MaxAsked /\ asked' = [asked EXCEPT ![r] = @ + 1]
    <3>1. Current \subseteq Records
      BY <1>2 DEF Current
    <3> QED BY <1>2, <2>2, <3>1, AskedType
  <2> QED BY <1>1, <2>1, <2>2
<1>4. ASSUME NEW t \in Records PROVE Settles(round[t], round'[t]) /\ round'[t] \in Round
  <2>1. Lawful(round[t]) /\ "expired" \in RecordEnds
    BY RoundsLawful DEF RecordEnds, RecordStatus
  <2>2. Expires(t) => Settles(round[t], Closed(round[t], "expired"))
    BY <2>1, ClosedSettles DEF Unbegun, Expires
  <2>3. Settles(round[t], round[t])
    BY <2>1, SameSettles
  <2>4. Settles(round[t], round'[t])
    BY <1>1, <2>2, <2>3
  <2> QED BY <2>4 DEF Settles, Lawful
<1>5. round' \in [Records -> Round]
  BY <1>1, <1>4
<1> QED BY <1>1, <1>2, <1>3, <1>4, <1>5, AsideStep

LEMMA ClosingAnswerStep ==
    ASSUME ExecutionInv, AuditAssumption, NEW r \in Records, Reject(r) \/ OtherText(r)
    PROVE  ExecutionInv'
<1>1. /\ Answer(r)
      /\ ClosePending(r, "rejected") \/ ClosePending(r, "cancelled")
      /\ UNCHANGED <<issued, cards, expired, ready, exec, lost, sweep, ran, faults>>
  BY DEF Reject, OtherText
<1>2. /\ TypeOK /\ claims \cup expired \subseteq Records /\ lost \subseteq Executors
      /\ faults \in 0..MaxFaults
  BY DEF ExecutionInv, TypeOK
<1>3. round' \in [Records -> Round] /\ \A t \in Records : Settles(round[t], round'[t])
  BY <1>1, ClosePendingSettles
<1>4. claims' \subseteq claims /\ asked' \in [Records -> 0..MaxAsked]
  BY <1>1, <1>2, AskedType DEF ClosePending, Reject, OtherText
<1> QED BY <1>1, <1>2, <1>3, <1>4, AsideStep

LEMMA ExpireStep ==
    ASSUME ExecutionInv, AuditAssumption, NEW r \in Records, Expire(r)
    PROVE  ExecutionInv'
<1>1. /\ expired' = expired \cup {r}
      /\ UNCHANGED <<round, issued, claims, cards, ready, exec, lost, sweep, asked, ran, faults>>
  BY DEF Expire
<1>2. /\ TypeOK /\ claims \cup expired \subseteq Records /\ lost \subseteq Executors
      /\ faults \in 0..MaxFaults /\ asked \in [Records -> 0..MaxAsked]
  BY DEF ExecutionInv, TypeOK
<1> QED BY <1>1, <1>2, UnchangedSettles, AsideStep

LEMMA ApproveStep ==
    ASSUME ExecutionInv, AuditAssumption, NEW r \in Records, Approve(r)
    PROVE  ExecutionInv'
<1> DEFINE k == issued[r] + 1
<1>1. /\ Answer(r) /\ UNCHANGED <<cards, expired, exec, lost, sweep, ran, faults>>
      /\ TypeOK /\ issued \in [Records -> Nat]
  BY DEF Approve, ExecutionInv, TypeOK
<1>2. asked' \in [Records -> 0..MaxAsked]
  BY <1>1, AskedType
<1>3. CASE MayExecute(r)
  <2>1. /\ round[r].status = "pending"
        /\ round' = [round EXCEPT ![r] = Claimed(round[r], k)]
        /\ issued' = [issued EXCEPT ![r] = k]
        /\ claims' = claims \ {r}
        /\ ready' = ready \cup {[r |-> r, k |-> k]}
    BY <1>3 DEF Approve, MayExecute, Set
  <2>2. k \in Nat
    BY <1>1
  <2>3. Claimed(round[r], k) \in Round
    <3> HIDE DEF k
    <3> QED BY <2>2, RoundsLawful, ClaimedType
  <2>4. [r |-> r, k |-> k] \in Binding
    BY <2>2 DEF Binding
  <2> HIDE DEF k
  <2>5. /\ round' \in [Records -> Round] /\ issued' \in [Records -> Nat]
        /\ claims' \subseteq claims /\ ready' \subseteq Binding
    BY <1>1, <2>1, <2>2, <2>3, <2>4 DEF TypeOK
  <2>6. TypeOK'
    BY <1>1, <1>2, <2>5 DEF TypeOK, cards
  <2> QED BY <1>1, <2>1, <2>6, ClaimStep DEF k
<1>4. CASE ~MayExecute(r)
  <2>1. UNCHANGED <<round, issued, claims, ready>>
    BY <1>4 DEF Approve
  <2>2. /\ claims \cup expired \subseteq Records /\ lost \subseteq Executors /\ faults \in 0..MaxFaults
    BY <1>1 DEF TypeOK
  <2> QED BY <1>1, <1>2, <2>1, <2>2, UnchangedSettles, AsideStep
<1> QED BY <1>3, <1>4

-----------------------------------------------------------------------------
(* Theorems: type correctness, no call twice, and what the records say *)

LEMMA ExecutionInitially == ASSUME AuditAssumption, Init PROVE ExecutionInv
<1>1. TypeOK
  BY IdleType, NewRoundLawful DEF TypeOK, Init, Lawful, AuditAssumption
<1>2. RecordsFit
  BY NewRoundLawful DEF Init, RecordsFit, Issue, Truth, NewRound
<1>3. HoldersFit /\ ReadyFit /\ ExecutorsFit /\ SweepFit
  BY NothingHeld, IdleRemembers DEF Init, HoldersFit, ReadyFit, ExecutorsFit, SweepFit
<1> QED BY <1>1, <1>2, <1>3 DEF ExecutionInv

LEMMA ExecutionKept ==
    ASSUME AuditAssumption, ExecutionInv, [Next]_vars
    PROVE  ExecutionInv'
<1>1. CASE UNCHANGED vars
  <2>1. /\ claims \cup expired \subseteq Records /\ lost \subseteq Executors
        /\ faults \in 0..MaxFaults /\ asked \in [Records -> 0..MaxAsked]
    BY DEF ExecutionInv, TypeOK
  <2> QED BY <1>1, <2>1, UnchangedSettles, AsideStep DEF vars, cards
<1>2. CASE Submit \/ Stop \/ Restart
  BY <1>2, SubmitStep, StopStep, RestartStep
<1>3. ASSUME NEW r \in Records, Decision(r) \/ Expire(r) PROVE ExecutionInv'
  BY <1>3, ApproveStep, ClosingAnswerStep, ExpireStep DEF Decision
<1>4. ASSUME NEW e \in Executors, BeginReply(e) \/ Cancelled(e) \/ Fails(e) \/ Sweep(e) PROVE ExecutionInv'
  BY <1>4, BeginReplyStep, CancelledStep, FailsStep, SweepStep
<1>5. ASSUME NEW e \in Executors, Audit(e) PROVE ExecutionInv'
  BY <1>5, SupersedeStep, CloseStep, CreateStep, OfferStep, AbsorbStep, OfferedStep, AuditedStep DEF Audit
<1>6. ASSUME NEW e \in Executors, Execute(e) PROVE ExecutionInv'
  BY <1>6, SourceInvalidStep, SourceValidStep, FilesChangedStep, RetireStep, ReshowStep, ClaimPassedStep,
     AllAttemptedStep, BindStep, PrecheckStep, AbortAttemptsStep, AbortRoundStep, FinishStep, HandlerStep,
     CreateAttemptsStep, StartToolStep, ToolEndsStep DEF Execute
<1>7. ASSUME NEW e \in Executors, NEW b \in ready, BeginConfirmed(e, b) PROVE ExecutionInv'
  BY <1>7, BeginConfirmedStep
<1>8. ASSUME NEW b \in sweep, SweepMark(b) PROVE ExecutionInv'
  BY <1>8, SweepMarkStep
<1> QED BY <1>1, <1>2, <1>3, <1>4, <1>5, <1>6, <1>7, <1>8 DEF Next

LEMMA ExecutionAlways == ASSUME AuditAssumption PROVE Spec => []ExecutionInv
<1>1. Init => ExecutionInv
  BY ExecutionInitially
<1>2. ExecutionInv /\ [Next]_vars => ExecutionInv'
  BY ExecutionKept
<1> QED BY <1>1, <1>2, PTL DEF Spec

\* The variables of the foreground executors keep their types.
THEOREM TypeCorrect == Spec => []TypeOK
<1>1. ExecutionInv => TypeOK
  BY DEF ExecutionInv
<1> QED BY <1>1, ExecutionAlways, AuditAssumption, PTL

\* No tool call of an audited round is started twice, whatever executors lose their
\* works, messages answer at the same time and restarts come in between.
THEOREM ToolsRunOnce == Spec => []RunsOnce
<1>1. ExecutionInv => RunsOnce
  <2> SUFFICES ASSUME ExecutionInv, NEW r \in Records, NEW t \in Tools PROVE ran[r][t] <= 1
    BY DEF RunsOnce
  <2>1. ran[r][t] \in {0, 1}
    BY DEF ExecutionInv, RecordsFit, Truth
  <2> QED BY <2>1
<1> QED BY <1>1, ExecutionAlways, AuditAssumption, PTL

\* What the rows of a round say was executed is what was started.
THEOREM RecordsAreTrue == Spec => []RecordIsTrue
<1>1. ExecutionInv => RecordIsTrue
  <2> SUFFICES ASSUME ExecutionInv, NEW r \in Records, NEW t \in Tools
               PROVE  /\ ran[r][t] > 0 =>
                            /\ round[r].status \in {"executing", "succeeded", "failed", "cancelled", "unknown"}
                            /\ round[r].attempts[t] \notin {"none", "cancelled"}
                      /\ round[r].attempts[t] \in {"succeeded", "failed"} => ran[r][t] > 0
    BY DEF RecordIsTrue
  <2>1. /\ ran[r][t] \in {0, 1}
        /\ ran[r][t] = 1 => round[r].attempts[t] \notin {"none", "cancelled"}
        /\ round[r].attempts[t] \in {"succeeded", "failed"} => ran[r][t] = 1
    BY DEF ExecutionInv, RecordsFit, Truth
  <2>2. Lawful(round[r])
    BY RoundsLawful
  <2> QED BY <2>1, <2>2 DEF Lawful
<1> QED BY <1>1, ExecutionAlways, AuditAssumption, PTL

-----------------------------------------------------------------------------
(* Every step is a step in the life of each record *)

Lives == \A r \in Records : LifeStep(round[r], round'[r])

LEMMA SetLives ==
    ASSUME ExecutionInv, NEW r, NEW y, Set(r, y), r \in Records => LifeStep(round[r], y)
    PROVE  Lives
<1>1. round \in [Records -> Round] /\ round' = [round EXCEPT ![r] = y]
  BY DEF ExecutionInv, TypeOK, Set
<1>2. ASSUME NEW s \in Records PROVE LifeStep(round[s], round'[s])
  <2>1. CASE s = r
    BY <1>1, <2>1
  <2>2. CASE s # r
    <3>1. round'[s] = round[s]
      BY <1>1, <2>2
    <3> QED BY <3>1 DEF LifeStep
  <2> QED BY <2>1, <2>2
<1> QED BY <1>2 DEF Lives

LEMMA UnchangedLives == ASSUME UNCHANGED round PROVE Lives
BY DEF Lives, LifeStep

LEMMA ClosePendingLives ==
    ASSUME ExecutionInv, NEW r, NEW s \in {"rejected", "expired", "cancelled"}, ClosePending(r, s)
    PROVE  Lives
<1>1. CASE round[r].status = "pending"
  <2>1. r \in Records => LifeStep(round[r], Closed(round[r], s))
    <3>1. <<round[r].status, s>> \in Decisions
      BY <1>1 DEF Decisions
    <3> QED BY <3>1, RoundsLawful, DecisionKeeps DEF Keeps
  <2> QED BY <1>1, <2>1, SetLives DEF ClosePending
<1>2. CASE round[r].status # "pending"
  BY <1>2, UnchangedLives DEF ClosePending
<1> QED BY <1>1, <1>2

LEMMA ClaimedLives ==
    ASSUME ExecutionInv, NEW r \in Records, round[r].status \in {"passed", "pending"},
           Set(r, Claimed(round[r], issued[r] + 1))
    PROVE  Lives
<1>1. issued[r] + 1 \in Nat \ {0}
  BY DEF ExecutionInv, TypeOK
<1>2. Keeps(round[r], Claimed(round[r], issued[r] + 1))
  BY <1>1, RoundsLawful, ClaimedKeeps
<1> QED BY <1>2, SetLives DEF Keeps

\* What an executor does to the round it is at.
LEMMA EndsLives ==
    ASSUME ExecutionInv, NEW r, NEW y, Set(r, y), r \in Records => Ends(round[r], y)
    PROVE  Lives
BY SetLives, EndsKeeps DEF Keeps

LEMMA HandledLives == ASSUME ExecutionInv, NEW b, Handled(b) PROVE Lives
<1>1. b.r \in Records => Ends(round[b.r], MarkUnknownReliably(round[b.r], b.k))
  BY RoundsLawful, MarkUnknownReliablyEnds
<1> QED BY <1>1, EndsLives, UnchangedLives DEF Handled

LEMMA UntouchedLives ==
    ASSUME ExecutionInv, NEW e \in Executors, NEW r \in Records, Holds(exec[e], r),
           exec[e].pc \in {"check"} \cup Audits, NEW k, NEW s \in {"failed", "cancelled"},
           IF Executing(round[r], k) THEN Set(r, Closed(round[r], s)) ELSE UNCHANGED round
    PROVE  Lives
<1>1. CASE Executing(round[r], k)
  <2>1. Fits(exec[e], round[r], ran[r]) /\ Lawful(round[r]) /\ round[r] \in Round
    BY RoundsLawful DEF ExecutionInv, HoldersFit
  <2>2. Untouched(round[r], ran[r])
    BY <2>1 DEF Fits
  <2>3. Attempted(round[r], "running") = {} /\ Attempted(round[r], "unknown") = {} /\ round[r].status = "executing"
    BY <1>1, <2>2 DEF Untouched, Attempted, Executing
  <2>4. Closed(round[r], s).status = s /\ Closed(round[r], s).attempts = round[r].attempts
    BY <2>1, ClosedType DEF RecordStatus
  <2>5. Says(Closed(round[r], s))
    BY <2>3, <2>4 DEF Says, Attempted
  <2>6. Ends(round[r], Closed(round[r], s))
    BY <2>1, <2>3, <2>5, ClosedEnds
  <2> QED BY <1>1, <2>6, EndsLives
<1>2. CASE ~Executing(round[r], k)
  BY <1>2, UnchangedLives
<1> QED BY <1>1, <1>2

LEMMA AuditLives ==
    ASSUME ExecutionInv, CardInv, AuditAssumption, NEW e \in Executors, Audit(e)
    PROVE  Lives
<1>1. CASE Supersede(e) \/ Offered(e)
  BY <1>1, UnchangedLives DEF Supersede, Offered
<1>2. CASE Close(e) \/ Absorb(e)
  BY <1>2, ClosePendingLives DEF Close, Absorb
<1>3. CASE Create(e)
  <2>1. PICK r \in Records : IsNext(r) /\ Set(r, [NewRound EXCEPT !.status = "preparing"])
    BY <1>3 DEF Create
  <2>2. Lawful(round[r]) /\ round[r].status = "absent"
    BY <2>1, RoundsLawful DEF IsNext, Unused
  <2> QED BY <2>1, <2>2, AbsentSettles, SetLives DEF Keeps
<1>4. CASE Offer(e)
  <2>1. claims = {}
    BY <1>4 DEF CardInv, Offer, Fenced, At
  <2>2. UNCHANGED round
    BY <1>4, <2>1 DEF Offer
  <2> QED BY <2>2, UnchangedLives
<1>5. ASSUME NEW s \in {"passed", "pending", "blocked", "audit_failed"}, Audited(e, s) PROVE Lives
  <2>1. CASE round[Here(e)].status = "preparing"
    <3>1. <<round[Here(e)].status, s>> \in Decisions
      BY <2>1 DEF Decisions
    <3>2. Here(e) \in Records => LifeStep(round[Here(e)], [round[Here(e)] EXCEPT !.status = s])
      BY <3>1, RoundsLawful, DecisionKeeps DEF Keeps
    <3>3. Set(Here(e), [round[Here(e)] EXCEPT !.status = s])
      BY <1>5, <2>1 DEF Audited
    <3> QED BY <3>2, <3>3, SetLives
  <2>2. CASE round[Here(e)].status # "preparing"
    BY <1>5, <2>2, UnchangedLives DEF Audited
  <2> QED BY <2>1, <2>2
<1> QED BY <1>1, <1>2, <1>3, <1>4, <1>5 DEF Audit

LEMMA ExecuteLives ==
    ASSUME ExecutionInv, AuditAssumption, NEW e \in Executors, Execute(e)
    PROVE  Lives
<1>1. CASE SourceValid(e) \/ FilesChanged(e) \/ Reshow(e) \/ AllAttempted(e) \/ Bind(e) \/ Precheck(e)
  BY <1>1, UnchangedLives DEF SourceValid, FilesChanged, Reshow, AllAttempted, Bind, Precheck
<1>2. CASE SourceInvalid(e)
  <2>1. /\ exec[e].pc \in Executes /\ exec[e].pc \in {"check"} \cup Audits
        /\ IF Executing(round[Here(e)], exec[e].at.k) THEN Set(Here(e), Closed(round[Here(e)], "failed"))
           ELSE UNCHANGED round
    BY <1>2 DEF SourceInvalid, At, Executes
  <2>2. Here(e) \in Records /\ Holds(exec[e], Here(e))
    BY <2>1, AtFits
  <2> QED BY <2>1, <2>2, UntouchedLives
<1>3. CASE Retire(e)
  <2> DEFINE b == exec[e].was
  <2>1. /\ exec[e].pc = "retire" /\ exec[e].pc \in {"check"} \cup Audits
        /\ IF Executing(round[b.r], b.k) THEN Set(b.r, Closed(round[b.r], "cancelled")) ELSE UNCHANGED round
    BY <1>3 DEF Retire, At, Audits
  <2>2. b.r \in Records /\ Holds(exec[e], b.r)
    BY <2>1 DEF ExecutionInv, ExecutorsFit, Remembers, Good, Holds, Audits
  <2> HIDE DEF b
  <2> QED BY <2>1, <2>2, UntouchedLives
<1>4. CASE ClaimPassed(e)
  <2>1. exec[e].pc = "claim"
    BY <1>4 DEF ClaimPassed, Fenced, At
  <2>2. Here(e) \in Records
    BY <2>1 DEF ExecutionInv, ExecutorsFit, Remembers, Here
  <2>3. UNCHANGED round \/ (round[Here(e)].status = "passed" /\ Set(Here(e), Claimed(round[Here(e)], issued[Here(e)] + 1)))
    BY <1>4 DEF ClaimPassed
  <2> QED BY <2>2, <2>3, UnchangedLives, ClaimedLives
<1>5. CASE AbortAttempts(e)
  <2>1. "cancelled" \in AttemptStatus \ {"none"}
    BY DEF AttemptStatus
  <2>2. Here(e) \in Records => Ends(round[Here(e)], FinishAttempts(round[Here(e)], Tools, "cancelled"))
    BY <2>1, RoundsLawful, FinishAttemptsEnds
  <2> QED BY <1>5, <2>2, EndsLives DEF AbortAttempts
<1>6. CASE AbortRound(e)
  <2>1. exec[e].pc = "giveup" /\ exec[e].pc \in Executes
        /\ Set(Here(e), FinishRound(round[Here(e)], exec[e].at.k, "failed"))
    BY <1>6 DEF AbortRound, At, Executes
  <2>2. Lawful(round[Here(e)]) /\ Prepared(round[Here(e)], ran[Here(e)], {"none", "cancelled"})
    BY <2>1, AtFits DEF Fits
  <2>3. Executing(round[Here(e)], exec[e].at.k) => Attempted(round[Here(e)], "unknown") = {}
    BY <2>2 DEF Prepared, Attempted, Executing
  <2>4. "failed" \in {"failed", "cancelled", "unknown"}
    OBVIOUS
  <2>5. Ends(round[Here(e)], FinishRound(round[Here(e)], exec[e].at.k, "failed"))
    BY <2>2, <2>3, <2>4, FinishRoundEnds
  <2> QED BY <2>1, <2>5, EndsLives
<1>7. CASE Finish(e)
  <2>1. Here(e) \in Records => Ends(round[Here(e)], FinishIfComplete(round[Here(e)], exec[e].at.k))
    BY RoundsLawful, FinishIfCompleteEnds
  <2> QED BY <1>7, <2>1, EndsLives DEF Finish
<1>8. CASE Handler(e)
  BY <1>8, HandledLives DEF Handler
<1>9. ASSUME NEW t \in Tools, CreateAttempts(e, t) PROVE Lives
  <2>1. CASE Executing(round[Here(e)], exec[e].at.k)
    <3>1. Here(e) \in Records => Keeps(round[Here(e)], CreateAttempt(round[Here(e)], t))
      BY <1>9, <2>1, RoundsLawful, CreateAttemptKeeps DEF CreateAttempts, Executing
    <3> QED BY <1>9, <2>1, <3>1, SetLives DEF CreateAttempts, Keeps
  <2>2. CASE ~Executing(round[Here(e)], exec[e].at.k)
    BY <1>9, <2>2, UnchangedLives DEF CreateAttempts
  <2> QED BY <2>1, <2>2
<1>10. ASSUME NEW t \in Tools, StartTool(e, t) PROVE Lives
  BY <1>10, UnchangedLives DEF StartTool
<1>11. ASSUME NEW t \in Tools, NEW s \in {"succeeded", "failed", "unknown"}, ToolEnds(e, t, s) PROVE Lives
  <2>1. s \in AttemptStatus \ {"none"}
    BY DEF AttemptStatus
  <2>2. Here(e) \in Records => Ends(round[Here(e)], FinishAttempts(round[Here(e)], {t}, s))
    BY <2>1, RoundsLawful, FinishAttemptsEnds
  <2> QED BY <1>11, <2>2, EndsLives DEF ToolEnds, FinishAttempt
<1> QED BY <1>1, <1>2, <1>3, <1>4, <1>5, <1>6, <1>7, <1>8, <1>9, <1>10, <1>11 DEF Execute

\* CancelledError and other errors.
LEMMA ErrorLives ==
    ASSUME ExecutionInv, AuditAssumption, NEW e \in Executors, Cancelled(e) \/ Fails(e)
    PROVE  Lives
<1>1. \/ Set(Here(e), CancelUnexecuted(round[Here(e)]))
      \/ Set(Here(e), MarkUnknown(round[Here(e)], exec[e].at.k))
      \/ Set(Here(e), MarkUnknownReliably(round[Here(e)], exec[e].at.k))
      \/ Set(Here(e), FinishAttempts(round[Here(e)], Tools \ exec[e].started, "cancelled"))
      \/ UNCHANGED round
  BY DEF Cancelled, Fails, OnCancel
<1>2. "cancelled" \in AttemptStatus \ {"none"}
  BY DEF AttemptStatus
<1>3. ASSUME Here(e) \in Records
      PROVE  /\ Ends(round[Here(e)], MarkUnknown(round[Here(e)], exec[e].at.k))
             /\ Ends(round[Here(e)], MarkUnknownReliably(round[Here(e)], exec[e].at.k))
             /\ Ends(round[Here(e)], FinishAttempts(round[Here(e)], Tools \ exec[e].started, "cancelled"))
             /\ Keeps(round[Here(e)], CancelUnexecuted(round[Here(e)]))
  BY <1>2, <1>3, RoundsLawful, MarkUnknownEnds, MarkUnknownReliablyEnds, FinishAttemptsEnds, CancelUnexecutedKeeps
<1> QED BY <1>1, <1>3, EndsLives, SetLives, UnchangedLives DEF Keeps

LEMMA LifeKept ==
    ASSUME AuditAssumption, ExecutionInv, CardInv, [Next]_vars
    PROVE  Lives
<1>1. CASE UNCHANGED vars
  BY <1>1, UnchangedLives DEF vars
<1>2. ASSUME NEW r \in Records, Approve(r) PROVE Lives
  <2>1. UNCHANGED round \/ (round[r].status = "pending" /\ Set(r, Claimed(round[r], issued[r] + 1)))
    BY <1>2 DEF Approve, MayExecute
  <2> QED BY <2>1, UnchangedLives, ClaimedLives
<1>3. ASSUME NEW r \in Records, Reject(r) \/ OtherText(r) \/ Expire(r) PROVE Lives
  BY <1>3, ClosePendingLives, UnchangedLives DEF Reject, OtherText, Expire
<1>4. ASSUME NEW e \in Executors,
             BeginReply(e) \/ Sweep(e) \/ (\E b \in ready : BeginConfirmed(e, b))
      PROVE  Lives
  BY <1>4, UnchangedLives DEF BeginReply, Sweep, BeginConfirmed
<1>5. CASE Submit
  <2>1. ASSUME NEW t \in Records PROVE LifeStep(round[t], round'[t])
    <3>1. round'[t] = IF Expires(t) THEN Closed(round[t], "expired") ELSE round[t]
      BY <1>5 DEF Submit
    <3>2. ASSUME Expires(t) PROVE LifeStep(round[t], Closed(round[t], "expired"))
      <4>1. <<round[t].status, "expired">> \in Decisions
        BY <3>2 DEF Decisions, Expires
      <4> QED BY <4>1, RoundsLawful, DecisionKeeps DEF Keeps
    <3> QED BY <3>1, <3>2 DEF LifeStep
  <2> QED BY <2>1 DEF Lives
<1>6. CASE Stop
  <2>1. \A t \in Records : Keeps(round[t], CancelUnexecuted(round[t]))
    BY RoundsLawful, CancelUnexecutedKeeps
  <2> QED BY <1>6, <2>1 DEF Lives, Keeps, Stop
<1>7. CASE Restart
  <2>1. ASSUME NEW t \in Records PROVE LifeStep(round[t], round'[t])
    <3>1. \/ round'[t] = Recovered(round[t])
          \/ round[t].status = "pending" /\ round'[t] = Closed(round[t], "expired")
      BY <1>7 DEF Restart
    <3>2. ASSUME round[t].status = "pending" PROVE LifeStep(round[t], Closed(round[t], "expired"))
      <4>1. <<round[t].status, "expired">> \in Decisions
        BY <3>2 DEF Decisions
      <4> QED BY <4>1, RoundsLawful, DecisionKeeps DEF Keeps
    <3>3. Keeps(round[t], Recovered(round[t]))
      BY RoundsLawful, RecoveredKeeps
    <3> QED BY <3>1, <3>2, <3>3 DEF Keeps
  <2> QED BY <2>1 DEF Lives
<1>8. ASSUME NEW b \in sweep, SweepMark(b) PROVE Lives
  BY <1>8, HandledLives DEF SweepMark
<1> QED BY <1>1, <1>2, <1>3, <1>4, <1>5, <1>6, <1>7, <1>8, AuditLives, ExecuteLives, ErrorLives DEF Next, Decision

-----------------------------------------------------------------------------
(* The one confirmation claim *)

\* A record comes to be pending from its audit only, and is not prepared again.
LEMMA LifeOnward ==
    ASSUME NEW x \in Round, NEW y, LifeStep(x, y)
    PROVE  /\ y.status = "pending" => x.status \in {"pending", "preparing"}
           /\ y.status \in {"absent", "preparing"} => x.status \in {"absent", "preparing"}
<1>1. CASE Decided(x, y)
  BY <1>1 DEF Decided, Decisions
<1>2. CASE Taken(x, y)
  BY <1>2 DEF Taken, Claimed, Round
<1>3. CASE AttemptMade(x, y)
  <2>1. y.status = x.status
    BY <1>3, AttemptsType DEF AttemptMade, CreateAttempt, AttemptStatus
  <2> QED BY <1>3, <2>1
<1>4. CASE Ending(x, y)
  <2>1. y.status = "executing" \/ Says(y)
    BY <1>4 DEF Ending
  <2>2. Says(y) => y.status \in {"succeeded", "failed", "cancelled", "unknown"}
    BY DEF Says
  <2> QED BY <2>1, <2>2
<1> QED BY <1>1, <1>2, <1>3, <1>4 DEF LifeStep

\* A pending record is written together with its claim; the live executor, if there is
\* one, was live before and does not come closer to offering a card, unless by the steps
\* of the audit itself.
LEMMA CardCalm ==
    ASSUME ExecutionInv, CardInv, Lives,
           shown' = shown, expired \subseteq expired', claims' \subseteq claims,
           \A r \in claims : round'[r].status = "pending" <=> r \in claims',
           \A e \in Executors : Live(e)' =>
               /\ Live(e)
               /\ \/ exec'[e].pc = exec[e].pc /\ exec'[e].stale = exec[e].stale
                  \/ exec'[e].pc \notin {"close", "create", "audit", "offer"}
                  \/ exec'[e].pc \in {"audit", "offer"} /\ exec[e].pc \in {"create", "audit"}
    PROVE  CardInv'
<1>1. claims \subseteq Records /\ shown \subseteq Records /\ \A r \in Records : round[r] \in Round
  BY DEF ExecutionInv, TypeOK
<1>2. \A r \in Records :
        /\ round'[r].status = "pending" => round[r].status \in {"pending", "preparing"}
        /\ round'[r].status \in {"absent", "preparing"} => round[r].status \in {"absent", "preparing"}
  BY <1>1, LifeOnward DEF Lives
<1>3. \A e, f \in Executors : Live(e)' /\ Live(f)' => e = f
  BY DEF CardInv
<1>4. \A r \in claims' : round'[r].status = "pending"
  OBVIOUS
<1>5. \A r, s \in claims' : r = s
  BY DEF CardInv
<1>6. \A r \in shown : round'[r].status \notin {"absent", "preparing"}
  BY <1>1, <1>2 DEF CardInv
<1>7. ASSUME NEW r \in shown \ expired', round'[r].status = "pending" PROVE r \in claims'
  <2>1. round[r].status = "pending"
    BY <1>1, <1>2, <1>7 DEF CardInv
  <2>2. r \in claims
    BY <1>7, <2>1 DEF CardInv
  <2> QED BY <1>7, <2>2
<1>8. ASSUME NEW e \in Executors \ lost'
      PROVE  /\ exec'[e].pc = "close" => claims' \subseteq {exec'[e].stale}
             /\ exec'[e].pc \in {"create", "audit", "offer"} => claims' = {}
  <2>1. CASE exec'[e].pc \notin {"close", "create", "audit", "offer"}
    BY <2>1
  <2>2. CASE exec'[e].pc \in {"close", "create", "audit", "offer"}
    <3>1. Live(e)'
      BY <2>2 DEF Live
    <3>2. /\ Live(e)
          /\ \/ exec'[e].pc = exec[e].pc /\ exec'[e].stale = exec[e].stale
             \/ exec'[e].pc \in {"audit", "offer"} /\ exec[e].pc \in {"create", "audit"}
      BY <2>2, <3>1
    <3>3. /\ exec[e].pc = "close" => claims \subseteq {exec[e].stale}
          /\ exec[e].pc \in {"create", "audit", "offer"} => claims = {}
      BY <3>2 DEF CardInv, Live, At
    <3> QED BY <3>2, <3>3
  <2> QED BY <2>1, <2>2
<1> QED BY <1>3, <1>4, <1>5, <1>6, <1>7, <1>8 DEF CardInv, At

\* No pending record is written.
Spared == \A r \in Records : round[r].status = "pending" => round'[r] = round[r]

LEMMA EndsSpares ==
    ASSUME ExecutionInv, NEW r, NEW y, Set(r, y), r \in Records => Ends(round[r], y)
    PROVE  Spared
<1>1. round \in [Records -> Round] /\ round' = [round EXCEPT ![r] = y]
  BY DEF ExecutionInv, TypeOK, Set
<1>2. r \in Records /\ round[r].status = "pending" => y = round[r]
  BY DEF Ends, Ending
<1> QED BY <1>1, <1>2 DEF Spared

LEMMA SetSpares ==
    ASSUME ExecutionInv, NEW r, NEW y, Set(r, y), r \in Records => round[r].status # "pending"
    PROVE  Spared
BY DEF Spared, ExecutionInv, TypeOK, Set

\* A step of a working executor that has nothing to do with cards.
LEMMA CardMove ==
    ASSUME ExecutionInv, CardInv, Lives, NEW e \in Executors, exec[e].pc # "idle",
           \/ Exit(e)
           \/ /\ lost' = lost
              /\ \A f \in Executors \ {e} : exec'[f] = exec[f]
              /\ \/ exec'[e].pc \notin {"close", "create", "audit", "offer"}
                 \/ exec'[e].pc \in {"audit", "offer"} /\ exec[e].pc \in {"create", "audit"},
           UNCHANGED <<shown, expired>>, claims' \subseteq claims,
           (Spared /\ claims' = claims) \/ (\A r \in claims : round'[r].status = "pending" <=> r \in claims')
    PROVE  CardInv'
<1>1. \A r \in claims : round'[r].status = "pending" <=> r \in claims'
  <2>1. claims \subseteq Records /\ \A r \in claims : round[r].status = "pending"
    BY DEF ExecutionInv, TypeOK, CardInv
  <2> QED BY <2>1 DEF Spared
<1>2. ASSUME NEW f \in Executors, Live(f)'
      PROVE  /\ Live(f)
             /\ \/ exec'[f].pc = exec[f].pc /\ exec'[f].stale = exec[f].stale
                \/ exec'[f].pc \notin {"close", "create", "audit", "offer"}
                \/ exec'[f].pc \in {"audit", "offer"} /\ exec[f].pc \in {"create", "audit"}
  <2>1. CASE Exit(e)
    <3>1. exec'[e] = Idle /\ \A g \in Executors \ {e} : exec'[g] = exec[g]
      BY <2>1, ExitType DEF ExecutionInv
    <3>2. f # e
      BY <1>2, <3>1 DEF Live, Idle
    <3> QED BY <1>2, <2>1, <3>1, <3>2 DEF Live, Exit
  <2>2. CASE /\ lost' = lost
             /\ \A g \in Executors \ {e} : exec'[g] = exec[g]
             /\ \/ exec'[e].pc \notin {"close", "create", "audit", "offer"}
                \/ exec'[e].pc \in {"audit", "offer"} /\ exec[e].pc \in {"create", "audit"}
    <3>1. CASE f = e
      BY <1>2, <2>2, <3>1 DEF Live
    <3>2. CASE f # e
      BY <1>2, <2>2, <3>2 DEF Live
    <3> QED BY <3>1, <3>2
  <2> QED BY <2>1, <2>2
<1> QED BY <1>1, <1>2, CardCalm

LEMMA CardGoto ==
    ASSUME ExecutionInv, CardInv, Lives, NEW e \in Executors, exec[e].pc # "idle",
           Exit(e) \/ (\E pc \in {"shown", "reshow", "claim", "attempt", "bind", "run", "abort", "giveup", "handler"} :
                            Goto(e, pc)),
           UNCHANGED <<shown, expired>>, claims' \subseteq claims,
           (Spared /\ claims' = claims) \/ (\A r \in claims : round'[r].status = "pending" <=> r \in claims')
    PROVE  CardInv'
<1>1. ASSUME NEW pc \in {"shown", "reshow", "claim", "attempt", "bind", "run", "abort", "giveup", "handler"},
             Goto(e, pc)
      PROVE  /\ lost' = lost /\ (\A f \in Executors \ {e} : exec'[f] = exec[f])
             /\ exec'[e].pc \notin {"close", "create", "audit", "offer"}
  <2>1. /\ lost' = lost /\ (\A f \in Executors \ {e} : exec'[f] = exec[f])
        /\ exec[e] \in Executor /\ exec'[e] = [exec[e] EXCEPT !.pc = pc]
    BY <1>1, GotoType DEF ExecutionInv
  <2>2. exec'[e].pc = pc
    BY <2>1 DEF Executor
  <2> QED BY <2>1, <2>2
<1> QED BY <1>1, CardMove

\* Closing a pending record takes its claim along.
LEMMA ClosePendingCard ==
    ASSUME ExecutionInv, CardInv, NEW r,
           NEW s \in {"rejected", "expired", "cancelled"}, ClosePending(r, s)
    PROVE  /\ claims' \subseteq claims
           /\ \A t \in claims : round'[t].status = "pending" <=> t \in claims'
           /\ claims \subseteq {r} => claims' = {}
<1>1. /\ claims \subseteq Records /\ round \in [Records -> Round]
      /\ \A t \in claims : round[t].status = "pending"
  BY DEF ExecutionInv, TypeOK, CardInv
<1>2. CASE round[r].status = "pending"
  <2>1. round' = [round EXCEPT ![r] = Closed(round[r], s)] /\ claims' = claims \ {r}
    BY <1>2 DEF ClosePending, Set
  <2>2. r \in Records => Closed(round[r], s).status # "pending"
    BY <1>1, ClosedType DEF RecordStatus
  <2> QED BY <1>1, <2>1, <2>2
<1>3. CASE round[r].status # "pending"
  <2>1. claims' = claims /\ round' = round /\ r \notin claims
    BY <1>1, <1>3 DEF ClosePending
  <2> QED BY <1>1, <2>1
<1> QED BY <1>2, <1>3

LEMMA AuditCard ==
    ASSUME ExecutionInv, CardInv, Lives, AuditAssumption, NEW e \in Executors, Audit(e)
    PROVE  CardInv'
<1>1. TypeOK /\ exec[e] \in Executor /\ claims \subseteq Records
  BY DEF ExecutionInv, TypeOK
<1>2. CASE Supersede(e)
  <2>1. exec[e].pc = "supersede" /\ UNCHANGED <<round, claims, lost, rest>>
    BY <1>2 DEF Supersede, At
  <2>2. PICK r \in IF claims = {} THEN {NoRecord} ELSE claims :
             exec' = [exec EXCEPT ![e].pc = IF r = NoRecord THEN "create" ELSE "close", ![e].stale = r]
    BY <1>2 DEF Supersede
  <2>3. /\ exec'[e].pc = "close" => exec'[e].stale = r /\ r \in claims
        /\ exec'[e].pc = "close" \/ (exec'[e].pc = "create" /\ claims = {})
        /\ \A f \in Executors \ {e} : exec'[f] = exec[f]
    BY <1>1, <2>2 DEF TypeOK, Executor, AuditAssumption
  <2>4. \A f \in Executors : Live(f)' <=> Live(f)
    BY <2>1, <2>3 DEF Live
  <2>5. UNCHANGED <<round, claims, shown, expired, lost>>
    BY <2>1 DEF rest, cards
  <2>6. \A f, g \in Executors : Live(f)' /\ Live(g)' => f = g
    BY <2>4 DEF CardInv
  <2>7. ASSUME NEW f \in Executors \ lost
        PROVE  /\ exec'[f].pc = "close" => claims \subseteq {exec'[f].stale}
               /\ exec'[f].pc \in {"create", "audit", "offer"} => claims = {}
    BY <2>3 DEF CardInv, At
  <2> QED BY <2>5, <2>6, <2>7 DEF CardInv, At
<1>3. CASE Close(e)
  <2>1. /\ exec[e].pc = "close" /\ ClosePending(exec[e].stale, "cancelled") /\ UNCHANGED rest
        /\ Goto(e, "create") \/ Goto(e, "handler")
    BY <1>3 DEF Close, At
  <2>2. /\ claims' \subseteq claims
        /\ \A t \in claims : round'[t].status = "pending" <=> t \in claims'
        /\ claims \subseteq {exec[e].stale} => claims' = {}
    BY <2>1, ClosePendingCard
  <2>3. UNCHANGED <<shown, expired>>
    BY <2>1 DEF rest, cards
  <2>4. CASE Goto(e, "handler")
    BY <2>1, <2>2, <2>3, <2>4, CardGoto
  <2>5. CASE Goto(e, "create") /\ e \in lost
    <3>1. /\ lost' = lost /\ (\A f \in Executors \ {e} : exec'[f] = exec[f])
      BY <1>1, <2>5, GotoType
    <3>2. \A f \in Executors : Live(f)' => Live(f) /\ exec'[f] = exec[f]
      BY <2>5, <3>1 DEF Live
    <3> QED BY <2>2, <2>3, <3>2, CardCalm
  <2>6. CASE Goto(e, "create") /\ e \notin lost
    <3>1. /\ lost' = lost /\ (\A f \in Executors \ {e} : exec'[f] = exec[f])
      BY <1>1, <2>6, GotoType
    <3>2. \A f \in Executors : Live(f) => f = e
      BY <2>1, <2>6 DEF CardInv, Live
    <3>3. claims' = {}
      BY <2>1, <2>2, <2>6 DEF CardInv, At
    <3>4. \A f, g \in Executors : Live(f)' /\ Live(g)' => f = g
      BY <3>1, <3>2 DEF Live
    <3>5. /\ shown \subseteq Records /\ \A r \in Records : round[r] \in Round
      BY <1>1 DEF TypeOK
    <3>6. \A r \in Records :
            /\ round'[r].status = "pending" => round[r].status \in {"pending", "preparing"}
            /\ round'[r].status \in {"absent", "preparing"} => round[r].status \in {"absent", "preparing"}
      BY <3>5, LifeOnward DEF Lives
    <3>7. \A r \in shown : round'[r].status \notin {"absent", "preparing"}
      BY <3>5, <3>6 DEF CardInv
    <3>8. \A r \in shown \ expired : round'[r].status # "pending"
      <4> SUFFICES ASSUME NEW r \in shown \ expired, round'[r].status = "pending" PROVE FALSE
        OBVIOUS
      <4>1. round[r].status = "pending"
        BY <3>5, <3>6 DEF CardInv
      <4>2. r \in claims
        BY <4>1 DEF CardInv
      <4> QED BY <2>2, <3>3, <4>2
    <3> QED BY <2>3, <3>3, <3>4, <3>7, <3>8 DEF CardInv, At
  <2> QED BY <2>1, <2>4, <2>5, <2>6
<1>4. CASE Create(e)
  <2>1. PICK r \in Records :
             /\ exec[e].pc = "create" /\ IsNext(r) /\ Set(r, [NewRound EXCEPT !.status = "preparing"])
             /\ exec' = [exec EXCEPT ![e].pc = "audit", ![e].at = [r |-> r, k |-> 0]]
             /\ UNCHANGED <<claims, lost, rest>>
    BY <1>4 DEF Create, Fenced, At
  <2>2. Spared
    BY <2>1, SetSpares DEF IsNext, Unused
  <2>3. exec'[e].pc = "audit" /\ \A f \in Executors \ {e} : exec'[f] = exec[f]
    BY <1>1, <2>1 DEF TypeOK, Executor
  <2> QED BY <2>1, <2>2, <2>3, CardMove DEF rest, cards
<1>5. CASE Offer(e)
  <2> DEFINE r == Here(e)
  <2>1. exec[e].pc = "offer" /\ claims = {} /\ e \notin lost /\ UNCHANGED <<round, expired>>
    BY <1>5 DEF CardInv, Offer, Fenced, At
  <2>2. CASE round[r].status # "pending"
    <3>1. Goto(e, "handler") /\ UNCHANGED <<claims, shown>>
      BY <1>5, <2>2 DEF Offer
    <3> QED BY <2>1, <3>1, CardGoto DEF Spared
  <2>3. CASE round[r].status = "pending"
    <3>1. Goto(e, "shown") /\ claims' = {r} /\ shown' = shown \cup {r}
      BY <1>5, <2>1, <2>3 DEF Offer
    <3>2. /\ lost' = lost /\ (\A f \in Executors \ {e} : exec'[f] = exec[f])
          /\ exec'[e] = [exec[e] EXCEPT !.pc = "shown"]
      BY <1>1, <3>1, GotoType
    <3>3. exec'[e].pc = "shown"
      BY <1>1, <3>2 DEF Executor
    <3>4. \A f \in Executors : Live(f)' => f = e
      BY <2>1, <3>2 DEF CardInv, Live
    <3> HIDE DEF r
    <3>5. \A f, g \in Executors : Live(f)' /\ Live(g)' => f = g
      BY <3>4
    <3>6. \A f \in Executors \ lost' : exec'[f].pc \notin {"close", "create", "audit", "offer"}
      BY <3>3, <3>4 DEF Live
    <3> QED BY <2>1, <2>3, <3>1, <3>5, <3>6 DEF CardInv, At
  <2> QED BY <2>2, <2>3
<1>6. CASE Absorb(e)
  <2>1. /\ exec[e].pc # "idle" /\ ClosePending(Here(e), "cancelled") /\ UNCHANGED rest
        /\ Exit(e) \/ Goto(e, "handler")
    BY <1>6 DEF Absorb, At
  <2>2. /\ claims' \subseteq claims
        /\ \A t \in claims : round'[t].status = "pending" <=> t \in claims'
    BY <2>1, ClosePendingCard
  <2> QED BY <2>1, <2>2, CardGoto DEF rest, cards
<1>7. CASE Offered(e)
  <2>1. exec[e].pc # "idle" /\ Exit(e) /\ UNCHANGED <<round, claims, rest>>
    BY <1>7 DEF Offered, At
  <2> QED BY <2>1, CardGoto DEF rest, cards, Spared
<1>8. ASSUME NEW s \in {"passed", "pending", "blocked", "audit_failed"}, Audited(e, s) PROVE CardInv'
  <2>1. exec[e].pc = "audit" /\ UNCHANGED <<claims, rest>>
    BY <1>8 DEF Audited, Fenced, At
  <2>2. Spared
    <3>1. UNCHANGED round \/
          (round[Here(e)].status = "preparing" /\ Set(Here(e), [round[Here(e)] EXCEPT !.status = s]))
      BY <1>8 DEF Audited
    <3>2. UNCHANGED round => Spared
      BY DEF Spared
    <3> QED BY <3>1, <3>2, SetSpares
  <2>3. \/ Exit(e)
        \/ /\ lost' = lost
           /\ \E pc \in {"retire", "offer", "claim"}, said \in RecordStatus :
                exec' = [exec EXCEPT ![e].pc = pc, ![e].said = said]
    BY <1>8 DEF Audited, AfterAudit, RecordStatus
  <2>4. ASSUME NEW pc \in {"retire", "offer", "claim"}, NEW said \in RecordStatus,
               exec' = [exec EXCEPT ![e].pc = pc, ![e].said = said]
        PROVE  exec'[e].pc = pc /\ \A f \in Executors \ {e} : exec'[f] = exec[f]
    BY <1>1, <2>4 DEF TypeOK, Executor
  <2>5. UNCHANGED <<shown, expired>>
    BY <2>1 DEF rest, cards
  <2>6. \/ Exit(e)
        \/ /\ lost' = lost
           /\ \A f \in Executors \ {e} : exec'[f] = exec[f]
           /\ \/ exec'[e].pc \notin {"close", "create", "audit", "offer"}
              \/ exec'[e].pc \in {"audit", "offer"} /\ exec[e].pc \in {"create", "audit"}
    BY <2>1, <2>3, <2>4
  <2> QED BY <2>1, <2>2, <2>5, <2>6, CardMove
<1> QED BY <1>2, <1>3, <1>4, <1>5, <1>6, <1>7, <1>8 DEF Audit

LEMMA ExecuteCard ==
    ASSUME ExecutionInv, CardInv, Lives, AuditAssumption, NEW e \in Executors, Execute(e)
    PROVE  CardInv'
<1>1. /\ TypeOK /\ exec[e] \in Executor
      /\ UNCHANGED round => Spared
  BY DEF ExecutionInv, TypeOK, Spared
<1>2. CASE SourceValid(e) \/ AllAttempted(e) \/ Precheck(e)
  <2>1. /\ exec[e].pc # "idle" /\ UNCHANGED <<round, claims, rest>>
        /\ \E pc \in {"attempt", "bind", "run", "abort"} : Goto(e, pc)
    BY <1>2 DEF SourceValid, AllAttempted, Precheck, Fenced, At
  <2>2. UNCHANGED <<shown, expired>>
    BY <2>1 DEF rest, cards
  <2> QED BY <1>1, <2>1, <2>2, CardGoto
<1>3. CASE SourceInvalid(e)
  <2>1. exec[e].pc = "check" /\ Exit(e) /\ UNCHANGED <<claims, rest>>
    BY <1>3 DEF SourceInvalid, At
  <2>2. Spared
    <3>1. \/ UNCHANGED round
          \/ round[Here(e)].status = "executing" /\ Set(Here(e), Closed(round[Here(e)], "failed"))
      BY <1>3 DEF SourceInvalid, Executing
    <3> QED BY <1>1, <3>1, SetSpares
  <2> QED BY <2>1, <2>2, CardGoto DEF rest, cards
<1>4. CASE FilesChanged(e)
  <2>1. /\ exec[e].pc = "check" /\ UNCHANGED <<round, claims, lost, rest>>
        /\ exec' = [exec EXCEPT ![e].pc = "supersede", ![e].was = exec[e].at]
    BY <1>4 DEF FilesChanged, At
  <2>2. exec'[e].pc = "supersede" /\ \A f \in Executors \ {e} : exec'[f] = exec[f]
    BY <1>1, <2>1 DEF TypeOK, Executor
  <2> QED BY <1>1, <2>1, <2>2, CardMove DEF rest, cards
<1>5. CASE Retire(e)
  <2> DEFINE b == exec[e].was
  <2>1. /\ exec[e].pc = "retire" /\ UNCHANGED <<claims, rest>>
        /\ Goto(e, "reshow") \/ Goto(e, "claim") \/ Exit(e)
    BY <1>5 DEF Retire, At
  <2>2. Spared
    <3>1. \/ UNCHANGED round
          \/ round[b.r].status = "executing" /\ Set(b.r, Closed(round[b.r], "cancelled"))
      BY <1>5 DEF Retire, Executing
    <3> HIDE DEF b
    <3> QED BY <1>1, <3>1, SetSpares
  <2> QED BY <2>1, <2>2, CardGoto DEF rest, cards
<1>6. CASE Reshow(e)
  <2>1. exec[e].pc = "reshow" /\ Exit(e) /\ UNCHANGED <<round, claims, shown, expired>>
    BY <1>6 DEF Reshow, Fenced, At
  <2> QED BY <1>1, <2>1, CardGoto
<1>7. CASE ClaimPassed(e)
  <2>1. exec[e].pc = "claim" /\ UNCHANGED <<claims, shown, expired, lost>>
    BY <1>7 DEF ClaimPassed, Fenced, At, cards
  <2>2. Spared
    <3>1. \/ UNCHANGED round
          \/ round[Here(e)].status = "passed" /\ Set(Here(e), Claimed(round[Here(e)], issued[Here(e)] + 1))
      BY <1>7 DEF ClaimPassed
    <3> QED BY <1>1, <3>1, SetSpares
  <2>3. \E pc \in {"bind", "attempt", "handler"}, k \in {exec[e].at.k, issued[Here(e)] + 1} :
            exec' = [exec EXCEPT ![e].at.k = k, ![e].pc = pc] \/ exec' = [exec EXCEPT ![e].pc = pc]
    BY <1>7 DEF ClaimPassed
  <2>4. exec'[e].pc \in {"bind", "attempt", "handler"} /\ \A f \in Executors \ {e} : exec'[f] = exec[f]
    BY <1>1, <2>3 DEF TypeOK, Executor
  <2> QED BY <2>1, <2>2, <2>4, CardMove
<1>8. CASE Bind(e)
  <2>1. /\ exec[e].pc = "bind" /\ UNCHANGED <<round, claims, lost, rest>>
        /\ \E pc \in {"run", "attempt"} : exec' = [exec EXCEPT ![e].bind = exec[e].at, ![e].pc = pc]
    BY <1>8 DEF Bind, Fenced, At
  <2>2. exec'[e].pc \in {"run", "attempt"} /\ \A f \in Executors \ {e} : exec'[f] = exec[f]
    BY <1>1, <2>1 DEF TypeOK, Executor
  <2> QED BY <1>1, <2>1, <2>2, CardMove DEF rest, cards
<1>9. CASE AbortAttempts(e)
  <2>1. /\ exec[e].pc = "abort" /\ UNCHANGED <<claims, rest>> /\ Goto(e, "giveup")
        /\ Set(Here(e), FinishAttempts(round[Here(e)], Tools, "cancelled"))
    BY <1>9 DEF AbortAttempts, At
  <2>2. "cancelled" \in AttemptStatus \ {"none"}
    BY DEF AttemptStatus
  <2>3. Here(e) \in Records => Ends(round[Here(e)], FinishAttempts(round[Here(e)], Tools, "cancelled"))
    BY <2>2, RoundsLawful, FinishAttemptsEnds
  <2>4. Spared
    BY <2>1, <2>3, EndsSpares
  <2> QED BY <2>1, <2>4, CardGoto DEF rest, cards
<1>10. CASE AbortRound(e)
  <2>1. /\ exec[e].pc = "giveup" /\ UNCHANGED <<claims, rest>>
        /\ Set(Here(e), FinishRound(round[Here(e)], exec[e].at.k, "failed"))
        /\ Exit(e) \/ Goto(e, "handler")
    BY <1>10 DEF AbortRound, At
  <2>2. Spared
    <3>1. UNCHANGED round \/ round[Here(e)].status # "pending"
      <4>1. CASE round[Here(e)].status = "pending"
        <5>1. round' = [round EXCEPT ![Here(e)] = round[Here(e)]]
          BY <2>1, <4>1 DEF FinishRound, Executing, Set
        <5> QED BY <1>1, <5>1 DEF TypeOK
      <4> QED BY <4>1
    <3> QED BY <1>1, <2>1, <3>1, SetSpares
  <2> QED BY <2>1, <2>2, CardGoto DEF rest, cards
<1>11. CASE Finish(e)
  <2>1. /\ exec[e].pc = "run" /\ UNCHANGED <<claims, rest>> /\ Exit(e)
        /\ Set(Here(e), FinishIfComplete(round[Here(e)], exec[e].at.k))
    BY <1>11 DEF Finish, At
  <2>2. Here(e) \in Records => Ends(round[Here(e)], FinishIfComplete(round[Here(e)], exec[e].at.k))
    BY RoundsLawful, FinishIfCompleteEnds
  <2> QED BY <2>1, <2>2, EndsSpares, CardGoto DEF rest, cards
<1>12. CASE Handler(e)
  <2> DEFINE b == exec[e].bind
  <2>1. exec[e].pc = "handler" /\ Handled(b) /\ Exit(e) /\ UNCHANGED <<claims, rest>>
    BY <1>12 DEF Handler, At
  <2> HIDE DEF b
  <2>2. b.r \in Records => Ends(round[b.r], MarkUnknownReliably(round[b.r], b.k))
    BY RoundsLawful, MarkUnknownReliablyEnds
  <2>3. Spared
    BY <1>1, <2>1, <2>2, EndsSpares DEF Handled
  <2> QED BY <2>1, <2>3, CardGoto DEF rest, cards
<1>13. ASSUME NEW t \in Tools, CreateAttempts(e, t) PROVE CardInv'
  <2>1. /\ exec[e].pc = "attempt" /\ UNCHANGED <<claims, rest>>
        /\ \/ UNCHANGED <<exec, lost>>
           \/ Goto(e, "abort")
    BY <1>13 DEF CreateAttempts, Fenced, At
  <2>2. Spared
    <3>1. \/ UNCHANGED round
          \/ round[Here(e)].status = "executing" /\ Set(Here(e), CreateAttempt(round[Here(e)], t))
      BY <1>13 DEF CreateAttempts, Executing
    <3> QED BY <1>1, <3>1, SetSpares
  <2>3. CASE Goto(e, "abort")
    BY <2>1, <2>2, <2>3, CardGoto DEF rest, cards
  <2>4. CASE UNCHANGED <<exec, lost>>
    BY <2>1, <2>2, <2>4, CardMove DEF rest, cards
  <2> QED BY <2>1, <2>3, <2>4
<1>14. ASSUME NEW t \in Tools, StartTool(e, t) PROVE CardInv'
  <2>1. /\ exec[e].pc = "run" /\ UNCHANGED <<round, claims, shown, expired, lost>>
        /\ exec' = [exec EXCEPT ![e].started = @ \cup {t}]
    BY <1>14 DEF StartTool, Fenced, At, cards
  <2>2. exec'[e].pc = "run" /\ \A f \in Executors \ {e} : exec'[f] = exec[f]
    BY <1>1, <2>1 DEF TypeOK, Executor
  <2> QED BY <1>1, <2>1, <2>2, CardMove
<1>15. ASSUME NEW t \in Tools, NEW s \in {"succeeded", "failed", "unknown"}, ToolEnds(e, t, s) PROVE CardInv'
  <2>1. /\ exec[e].pc = "run" /\ UNCHANGED <<claims, lost, rest>>
        /\ exec' = [exec EXCEPT ![e].ended = @ \cup {t}]
        /\ Set(Here(e), FinishAttempts(round[Here(e)], {t}, s))
    BY <1>15 DEF ToolEnds, At, FinishAttempt
  <2>2. exec'[e].pc = "run" /\ \A f \in Executors \ {e} : exec'[f] = exec[f]
    BY <1>1, <2>1 DEF TypeOK, Executor
  <2>3. s \in AttemptStatus \ {"none"}
    BY DEF AttemptStatus
  <2>4. Here(e) \in Records => Ends(round[Here(e)], FinishAttempts(round[Here(e)], {t}, s))
    BY <2>3, RoundsLawful, FinishAttemptsEnds
  <2>5. Spared
    BY <2>1, <2>4, EndsSpares
  <2> QED BY <2>1, <2>2, <2>5, CardMove DEF rest, cards
<1> QED BY <1>2, <1>3, <1>4, <1>5, <1>6, <1>7, <1>8, <1>9, <1>10, <1>11, <1>12, <1>13, <1>14, <1>15 DEF Execute

LEMMA ErrorCard ==
    ASSUME ExecutionInv, CardInv, Lives, AuditAssumption, NEW e \in Executors, Cancelled(e) \/ Fails(e)
    PROVE  CardInv'
<1>1. /\ exec[e].pc # "idle" /\ Goto(e, "handler") /\ UNCHANGED <<shown, expired>>
      /\ \/ Set(Here(e), CancelUnexecuted(round[Here(e)])) /\ claims' = claims \ {Here(e)}
         \/ /\ UNCHANGED claims
            /\ \/ Set(Here(e), MarkUnknown(round[Here(e)], exec[e].at.k))
               \/ Set(Here(e), MarkUnknownReliably(round[Here(e)], exec[e].at.k))
               \/ Set(Here(e), FinishAttempts(round[Here(e)], Tools \ exec[e].started, "cancelled"))
               \/ UNCHANGED round
  BY DEF Cancelled, Fails, OnCancel, cards
<1>2. "cancelled" \in AttemptStatus \ {"none"}
  BY DEF AttemptStatus
<1>3. ASSUME Here(e) \in Records
      PROVE  /\ Ends(round[Here(e)], MarkUnknown(round[Here(e)], exec[e].at.k))
             /\ Ends(round[Here(e)], MarkUnknownReliably(round[Here(e)], exec[e].at.k))
             /\ Ends(round[Here(e)], FinishAttempts(round[Here(e)], Tools \ exec[e].started, "cancelled"))
  BY <1>2, <1>3, RoundsLawful, MarkUnknownEnds, MarkUnknownReliablyEnds, FinishAttemptsEnds
<1>4. CASE Set(Here(e), CancelUnexecuted(round[Here(e)])) /\ claims' = claims \ {Here(e)}
  <2>1. /\ claims \subseteq Records /\ round \in [Records -> Round]
        /\ \A t \in claims : round[t].status = "pending"
    BY DEF ExecutionInv, TypeOK, CardInv
  <2>2. \A t \in claims : CancelUnexecuted(round[t]).status = "cancelled"
    BY <2>1, ClosedType DEF CancelUnexecuted, RecordStatus
  <2>3. \A t \in claims : round'[t].status = "pending" <=> t \in claims'
    BY <1>4, <2>1, <2>2 DEF Set
  <2> QED BY <1>1, <1>4, <2>3, CardGoto
<1>5. CASE /\ UNCHANGED claims
           /\ \/ Set(Here(e), MarkUnknown(round[Here(e)], exec[e].at.k))
              \/ Set(Here(e), MarkUnknownReliably(round[Here(e)], exec[e].at.k))
              \/ Set(Here(e), FinishAttempts(round[Here(e)], Tools \ exec[e].started, "cancelled"))
              \/ UNCHANGED round
  <2>1. Spared
    <3>1. UNCHANGED round => Spared
      BY DEF Spared
    <3> QED BY <1>3, <1>5, <3>1, EndsSpares
  <2> QED BY <1>1, <1>5, <2>1, CardGoto
<1> QED BY <1>1, <1>4, <1>5

\* No executor is live, and one begins.
LEMMA BeginCard ==
    ASSUME ExecutionInv, CardInv, AuditAssumption, NEW e \in Executors,
           BeginReply(e) \/ (\E b \in ready : BeginConfirmed(e, b))
    PROVE  CardInv'
<1>1. /\ \A f \in Executors : ~Live(f)
      /\ UNCHANGED <<round, claims, shown, expired, lost>>
      /\ \E y \in Executor : exec' = [exec EXCEPT ![e] = y] /\ y.pc \in {"supersede", "check"}
  <2>1. exec \in [Executors -> Executor] /\ ready \subseteq Binding
    BY DEF ExecutionInv, TypeOK
  <2>2. CASE BeginReply(e)
    <3>1. /\ exec' = [exec EXCEPT ![e] = [exec[e] EXCEPT !.pc = "supersede"]]
          /\ [exec[e] EXCEPT !.pc = "supersede"] \in Executor
          /\ [exec[e] EXCEPT !.pc = "supersede"].pc = "supersede"
      BY <2>1, <2>2 DEF BeginReply, Goto, Executor
    <3> QED BY <2>2, <3>1 DEF BeginReply, MayBegin, Goto, rest, cards
  <2>3. ASSUME NEW b \in ready, BeginConfirmed(e, b)
        PROVE  /\ \A f \in Executors : ~Live(f)
               /\ UNCHANGED <<round, claims, shown, expired, lost>>
               /\ \E y \in Executor : exec' = [exec EXCEPT ![e] = y] /\ y.pc \in {"supersede", "check"}
    <3> DEFINE y == [Idle EXCEPT !.pc = "check", !.kind = "confirmed", !.at = b, !.bind = b]
    <3>1. y \in Executor /\ y.pc = "check"
      BY <2>1, IdleType DEF Idle, Executor
    <3>2. exec' = [exec EXCEPT ![e] = y]
      BY <2>3 DEF BeginConfirmed
    <3> HIDE DEF y
    <3> QED BY <2>3, <3>1, <3>2 DEF BeginConfirmed, MayBegin, cards
  <2> QED BY <2>2, <2>3
<1>2. exec'[e].pc \in {"supersede", "check"} /\ \A f \in Executors \ {e} : exec'[f] = exec[f]
  BY <1>1 DEF ExecutionInv, TypeOK
<1>3. \A f \in Executors : Live(f)' => f = e
  BY <1>1, <1>2 DEF Live
<1>4. \A f, g \in Executors : Live(f)' /\ Live(g)' => f = g
  BY <1>3
<1>5. \A f \in Executors \ lost' : exec'[f].pc \notin {"close", "create", "audit", "offer"}
  BY <1>2, <1>3 DEF Live
<1> QED BY <1>1, <1>4, <1>5 DEF CardInv, At

\* What happens aside from the executors, or to all of them.
LEMMA AsideCard ==
    ASSUME ExecutionInv, CardInv, Lives,
           UNCHANGED shown, expired \subseteq expired', claims' \subseteq claims,
           \A r \in claims : round'[r].status = "pending" <=> r \in claims',
           (exec' = exec /\ lost \subseteq lost') \/ exec' = [e \in Executors |-> Idle]
    PROVE  CardInv'
<1>1. ASSUME NEW e \in Executors, Live(e)' PROVE Live(e) /\ exec'[e] = exec[e]
  BY <1>1 DEF Live, Idle
<1> QED BY <1>1, CardCalm

LEMMA CardKept ==
    ASSUME AuditAssumption, ExecutionInv, CardInv, [Next]_vars
    PROVE  CardInv'
<1>1. Lives
  BY LifeKept
<1>2. /\ claims \subseteq Records /\ round \in [Records -> Round]
      /\ \A r \in claims : round[r].status = "pending"
  BY DEF ExecutionInv, TypeOK, CardInv
<1>3. CASE UNCHANGED vars
  BY <1>1, <1>2, <1>3, AsideCard DEF vars, cards
<1>4. ASSUME NEW r \in Records, Approve(r) PROVE CardInv'
  <2>1. UNCHANGED <<shown, expired, exec, lost>>
    BY <1>4 DEF Approve, cards
  <2>2. CASE MayExecute(r)
    <3>1. /\ round' = [round EXCEPT ![r] = Claimed(round[r], issued[r] + 1)] /\ claims' = claims \ {r}
      BY <1>4, <2>2 DEF Approve, Set
    <3>2. Claimed(round[r], issued[r] + 1).status = "executing"
      BY <1>2 DEF Claimed, Round
    <3>3. \A t \in claims : round'[t].status = "pending" <=> t \in claims'
      BY <1>2, <3>1, <3>2
    <3> QED BY <1>1, <2>1, <3>1, <3>3, AsideCard
  <2>3. CASE ~MayExecute(r)
    <3>1. UNCHANGED <<round, claims>>
      BY <1>4, <2>3 DEF Approve
    <3> QED BY <1>1, <1>2, <2>1, <3>1, AsideCard
  <2> QED BY <2>2, <2>3
<1>5. ASSUME NEW r \in Records, Reject(r) \/ OtherText(r) PROVE CardInv'
  <2>1. /\ UNCHANGED <<shown, expired, exec, lost>>
        /\ ClosePending(r, "rejected") \/ ClosePending(r, "cancelled")
    BY <1>5 DEF Reject, OtherText, cards
  <2>2. /\ claims' \subseteq claims
        /\ \A t \in claims : round'[t].status = "pending" <=> t \in claims'
    BY <2>1, ClosePendingCard
  <2> QED BY <1>1, <2>1, <2>2, AsideCard
<1>6. ASSUME NEW r \in Records, Expire(r) PROVE CardInv'
  BY <1>1, <1>2, <1>6, AsideCard DEF Expire, cards
<1>7. ASSUME NEW e \in Executors, Sweep(e) PROVE CardInv'
  BY <1>1, <1>2, <1>7, AsideCard DEF Sweep, cards
<1>8. ASSUME NEW b \in sweep, SweepMark(b) PROVE CardInv'
  <2>1. Handled(b) /\ UNCHANGED <<claims, shown, expired, exec, lost>>
    BY <1>8 DEF SweepMark, cards
  <2>2. b.r \in Records => Ends(round[b.r], MarkUnknownReliably(round[b.r], b.k))
    BY RoundsLawful, MarkUnknownReliablyEnds
  <2>3. UNCHANGED round => Spared
    BY DEF Spared
  <2>4. Spared
    BY <2>1, <2>2, <2>3, EndsSpares DEF Handled
  <2>5. \A t \in claims : round'[t].status = "pending" <=> t \in claims'
    BY <1>2, <2>1, <2>4 DEF Spared
  <2> QED BY <1>1, <2>1, <2>5, AsideCard
<1>9. CASE Submit
  <2>1. /\ UNCHANGED <<shown, expired, exec, lost>> /\ claims' = {r \in claims : ~Expires(r)}
        /\ round' = [r \in Records |-> IF Expires(r) THEN Closed(round[r], "expired") ELSE round[r]]
    BY <1>9 DEF Submit, cards
  <2>2. \A t \in claims : Closed(round[t], "expired").status = "expired"
    BY <1>2, ClosedType DEF RecordStatus
  <2>3. \A t \in claims : round'[t].status = "pending" <=> t \in claims'
    BY <1>2, <2>1, <2>2
  <2> QED BY <1>1, <2>1, <2>3, AsideCard
<1>10. CASE Stop
  <2>1. /\ UNCHANGED <<shown, expired, exec>> /\ claims' = {r \in claims : CancelUnexecuted(round[r]) = round[r]}
        /\ round' = [r \in Records |-> CancelUnexecuted(round[r])]
        /\ lost' = {e \in Executors : ~At(e, "idle")}
    BY <1>10 DEF Stop, cards
  <2>2. \A t \in claims : CancelUnexecuted(round[t]).status = "cancelled"
    BY <1>2, ClosedType DEF CancelUnexecuted, RecordStatus
  <2>3. \A t \in claims : round'[t].status = "pending" <=> t \in claims'
    BY <1>2, <2>1, <2>2
  <2>4. \A e \in Executors : ~Live(e)'
    BY <2>1 DEF Live, At
  <2> QED BY <1>1, <2>1, <2>3, <2>4, CardCalm
<1>11. CASE Restart
  <2> DEFINE over == {r \in expired : round[r].status = "pending"}
  <2>1. /\ UNCHANGED <<shown, expired>> /\ claims' = claims \ over /\ exec' = [e \in Executors |-> Idle]
        /\ round' = [r \in Records |-> IF r \in over THEN Closed(round[r], "expired") ELSE Recovered(round[r])]
    BY <1>11 DEF Restart, cards
  <2>2. \A t \in claims : Closed(round[t], "expired").status = "expired"
    BY <1>2, ClosedType DEF RecordStatus
  <2>3. \A t \in claims : Recovered(round[t]).status = "pending"
    BY <1>2, AttemptsType DEF Recovered, AttemptStatus
  <2> HIDE DEF over
  <2>4. \A t \in claims : round'[t].status = "pending" <=> t \in claims'
    BY <1>2, <2>1, <2>2, <2>3
  <2> QED BY <1>1, <2>1, <2>4, AsideCard
<1> QED BY <1>1, <1>3, <1>4, <1>5, <1>6, <1>7, <1>8, <1>9, <1>10, <1>11,
           BeginCard, AuditCard, ExecuteCard, ErrorCard DEF Next, Decision

LEMMA CardAlways == ASSUME AuditAssumption PROVE Spec => [](ExecutionInv /\ CardInv)
<1>1. Init => ExecutionInv /\ CardInv
  <2>1. Init => ExecutionInv
    BY ExecutionInitially
  <2>2. Init => CardInv
    BY DEF Init, CardInv, Live, At, Idle
  <2> QED BY <2>1, <2>2
<1>2. ExecutionInv /\ CardInv /\ [Next]_vars => (ExecutionInv /\ CardInv)'
  <2>1. ExecutionInv /\ CardInv /\ [Next]_vars => ExecutionInv'
    BY ExecutionKept
  <2>2. ExecutionInv /\ CardInv /\ [Next]_vars => CardInv'
    BY CardKept
  <2> QED BY <2>1, <2>2
<1> QED BY <1>1, <1>2, PTL DEF Spec

\* A card that was shown can be answered until it expires: the session has no other
\* confirmation claim, and this one is there.
THEOREM CardsCanBeAnswered == Spec => []CardCanBeAnswered
<1>1. ExecutionInv /\ CardInv => CardCanBeAnswered
  <2> SUFFICES ASSUME ExecutionInv, CardInv PROVE CardCanBeAnswered
    OBVIOUS
  <2>1. Cardinality(claims) <= 1
    <3>1. CASE claims = {}
      BY <3>1, FS_EmptySet
    <3>2. CASE claims # {}
      <4>1. PICK r \in claims : claims = {r}
        BY <3>2 DEF CardInv
      <4>2. Cardinality(claims) = 1
        BY <4>1, FS_Singleton
      <4> QED BY <4>2
    <3> QED BY <3>1, <3>2
  <2> QED BY <2>1 DEF CardInv, CardCanBeAnswered
<1> QED BY <1>1, CardAlways, AuditAssumption, PTL

-----------------------------------------------------------------------------
(* The life of the audit records *)

\* What the records show of a step is a step of AuditLifecycle: no executor, message,
\* sweep or restart reopens or rewrites a record that has ended or an attempt that has.
THEOREM KeepsLifecycle == Spec => ImplementsAuditLifecycle
<1>1. Init => Life!Init
  BY DEF Init, Life!Init, Life!NewRound, NewRound
<1>2. ExecutionInv /\ CardInv /\ [Next]_vars => [Life!Next]_round
  <2>1. ASSUME Lives PROVE Life!Next
    BY <2>1 DEF Lives, Life!Next, LifeStep, Life!LifeStep, Decided, Life!Decided, Decisions, Life!Decisions,
       Taken, Life!Taken, AttemptMade, Life!AttemptMade, Ending, Life!Ending, Says, Life!Says,
       Attempted, Life!Attempted, Claimed, Life!Claimed, CreateAttempt, Life!CreateAttempt, Attempts, Life!Attempts
  <2> QED BY <2>1, LifeKept, AuditAssumption
<1> QED BY <1>1, <1>2, CardAlways, AuditAssumption, PTL DEF Spec, ImplementsAuditLifecycle, Life!Spec

-----------------------------------------------------------------------------
(* A round that has begun is somebody's *)

\* No step but the making of an attempt begins a round.
NoneBegun == \A r \in Records : Begun(round'[r]) => Begun(round[r])

LEMMA EndsBegun ==
    ASSUME NEW x, NEW y, Ends(x, y), Begun(y)
    PROVE  Begun(x)
<1>1. CASE y = x
  BY <1>1
<1>2. CASE Ending(x, y)
  <2>1. PICK t \in Tools : y.attempts[t] # "none"
    BY DEF Begun
  <2>2. x.status = "executing" /\ x.attempts[t] # "none"
    BY <1>2, <2>1 DEF Ending
  <2> QED BY <2>2 DEF Begun
<1> QED BY <1>1, <1>2 DEF Ends

LEMMA SetBegun ==
    ASSUME ExecutionInv, NEW r, NEW y, Set(r, y), r \in Records => Ends(round[r], y) \/ ~Begun(y)
    PROVE  NoneBegun
<1>1. round \in [Records -> Round] /\ round' = [round EXCEPT ![r] = y]
  BY DEF ExecutionInv, TypeOK, Set
<1>2. ASSUME NEW s \in Records, Begun(round'[s]) PROVE Begun(round[s])
  <2>1. CASE s = r
    <3>1. round'[s] = y
      BY <1>1, <2>1
    <3> QED BY <1>2, <2>1, <3>1, EndsBegun
  <2>2. CASE s # r
    <3>1. round'[s] = round[s]
      BY <1>1, <2>2
    <3> QED BY <1>2, <3>1
  <2> QED BY <2>1, <2>2
<1> QED BY <1>2 DEF NoneBegun

LEMMA UnchangedBegun == ASSUME UNCHANGED round PROVE NoneBegun
BY DEF NoneBegun

\* A final status is not EXECUTING.
LEMMA ClosedNotBegun ==
    ASSUME NEW x \in Round, NEW s \in RecordEnds
    PROVE  ~Begun(Closed(x, s))
BY ClosedType DEF Begun, RecordEnds

LEMMA ClosePendingBegun ==
    ASSUME ExecutionInv, NEW r, NEW s \in {"rejected", "expired", "cancelled"}, ClosePending(r, s)
    PROVE  NoneBegun
<1>1. s \in RecordEnds
  BY DEF RecordEnds, RecordStatus
<1>2. r \in Records => ~Begun(Closed(round[r], s))
  BY <1>1, RoundsLawful, ClosedNotBegun DEF Lawful
<1> QED BY <1>2, SetBegun, UnchangedBegun DEF ClosePending

LEMMA HandledBegun == ASSUME ExecutionInv, NEW b, Handled(b) PROVE NoneBegun
<1>1. b.r \in Records => Ends(round[b.r], MarkUnknownReliably(round[b.r], b.k))
  BY RoundsLawful, MarkUnknownReliablyEnds
<1> QED BY <1>1, SetBegun, UnchangedBegun DEF Handled

LEMMA CancelUnexecutedBegun ==
    ASSUME NEW x, Lawful(x)
    PROVE  Ends(x, CancelUnexecuted(x)) \/ ~Begun(CancelUnexecuted(x))
<1>1. CASE x.status \in {"preparing", "passed", "pending"}
  <2>1. CancelUnexecuted(x) = Closed(x, "cancelled") /\ x \in Round /\ "cancelled" \in RecordEnds
    BY <1>1 DEF CancelUnexecuted, Lawful, RecordEnds, RecordStatus
  <2> QED BY <2>1, ClosedNotBegun
<1>2. CASE x.status \notin {"preparing", "passed", "pending"}
  BY <1>2, CancelUnexecutedEnds
<1> QED BY <1>1, <1>2

LEMMA ClaimedNotBegun ==
    ASSUME ExecutionInv, NEW r \in Records, round[r].status \in {"passed", "pending"}, NEW k \in Nat
    PROVE  ~Begun(Claimed(round[r], k))
<1>1. Lawful(round[r])
  BY RoundsLawful
<1> QED BY <1>1, ClaimedType DEF Begun, Lawful

\* mark_work_audit_execution_unknown of the binding under which the round executes, or of
\* one that is no longer executed, leaves no round to be executed.
LEMMA MarkUnknownReliablyStops ==
    ASSUME NEW x, Lawful(x), NEW k, x.status = "executing" => x.token = k
    PROVE  MarkUnknownReliably(x, k).status # "executing"
<1> DEFINE y == Attempts(x, Attempted(x, "running"), "unknown")
<1>1. x \in Round /\ y \in Round /\ y.status = x.status
  BY AttemptsType DEF Lawful, AttemptStatus
<1>2. Outcome(x) \in {"succeeded", "failed", "cancelled", "unknown"}
  BY DEF Outcome
<1>3. /\ Closed(x, Outcome(x)).status = Outcome(x)
      /\ Closed(x, "unknown").status = "unknown"
      /\ Closed(y, "unknown").status = "unknown"
  <2> HIDE DEF y
  <2> QED BY <1>1, <1>2, ClosedType DEF RecordStatus
<1> HIDE DEF y
<1>4. CASE x.status = "executing"
  <2>1. Executing(x, k)
    BY <1>4 DEF Executing
  <2>2. CASE IsComplete(x, k)
    BY <1>2, <1>3, <2>2 DEF MarkUnknownReliably, FinishIfComplete
  <2>3. CASE ~IsComplete(x, k) /\ Attempted(x, "running") # {}
    <3>1. MarkUnknownReliably(x, k) = Closed(y, "unknown")
      BY <2>1, <2>3 DEF MarkUnknownReliably, MarkUnknown, y
    <3> QED BY <1>3, <3>1
  <2>4. CASE ~IsComplete(x, k) /\ Attempted(x, "running") = {}
    <3>1. MarkUnknownReliably(x, k) = Closed(x, "unknown")
      BY <2>1, <2>4 DEF MarkUnknownReliably, FinishRound
    <3> QED BY <1>3, <3>1
  <2> QED BY <2>2, <2>3, <2>4
<1>5. CASE x.status # "executing"
  <2>1. Ends(x, MarkUnknownReliably(x, k))
    BY MarkUnknownReliablyEnds
  <2> QED BY <1>5, <2>1 DEF Ends, Ending
<1> QED BY <1>4, <1>5

\* No round is begun but by an executor that has it in hand, no owner gives up a round
\* that goes on, and nobody is told to give up a round that he forgot to bind.
LEMMA OwnedStep ==
    ASSUME OwnedInv,
           \A r \in Records : Begun(round'[r]) =>
               Begun(round[r]) \/ \E e \in Executors : Owner(e, r)',
           \A b \in sweep : b.r \in Records /\ Begun(round'[b.r]) => b \in sweep',
           \A e \in Executors, r \in Records : Begun(round'[r]) /\ Owner(e, r) => Owner(e, r)',
           \A e \in Executors : exec'[e].pc \in {"abort", "giveup"} =>
               exec'[e].bind = exec'[e].at \/ round'[exec'[e].at.r].status # "executing"
    PROVE  OwnedInv'
<1>1. ASSUME NEW r \in Records, Begun(round'[r])
      PROVE  (\E e \in Executors : Owner(e, r)') \/ (\E b \in sweep' : b.r = r)
  <2>1. CASE Begun(round[r])
    <3>1. (\E e \in Executors : Owner(e, r)) \/ (\E b \in sweep : b.r = r)
      BY <2>1 DEF OwnedInv
    <3> QED BY <1>1, <3>1
  <2>2. CASE ~Begun(round[r])
    BY <1>1, <2>2
  <2> QED BY <2>1, <2>2
<1>2. \A r \in Records : Begun(round[r])' <=> Begun(round'[r])
  BY DEF Begun
<1> QED BY <1>1, <1>2 DEF OwnedInv, Here

\* A record that has been handed out to execute and does not will not again.
LEMMA StillEnded ==
    ASSUME ExecutionInv, Lives, NEW r \in Records, issued[r] = 1, round[r].status # "executing"
    PROVE  round'[r].status # "executing"
<1>1. Lawful(round[r]) /\ Issue(r) /\ LifeStep(round[r], round'[r])
  BY DEF ExecutionInv, RecordsFit, Lives
<1>2. round[r].status \notin {"absent", "preparing", "passed", "pending"}
  BY <1>1 DEF Issue
<1>3. ~Decided(round[r], round'[r]) /\ ~Taken(round[r], round'[r])
  BY <1>2 DEF Decided, Decisions, Taken
<1>4. ~AttemptMade(round[r], round'[r]) /\ ~Ending(round[r], round'[r])
  BY DEF AttemptMade, Ending
<1> QED BY <1>1, <1>3, <1>4 DEF LifeStep

\* Executors other than e, where they are, and the sweep have their rounds as before.
LEMMA OwnedMove ==
    ASSUME ExecutionInv, OwnedInv, Lives, NEW e \in Executors,
           \A f \in Executors \ {e} : exec'[f] = exec[f], sweep \subseteq sweep',
           \A r \in Records : Begun(round'[r]) => Begun(round[r]) \/ Owner(e, r)',
           \A r \in Records : Begun(round'[r]) /\ Owner(e, r) => Owner(e, r)',
           exec'[e].pc \in {"abort", "giveup"} =>
               exec'[e].bind = exec'[e].at \/ round'[exec'[e].at.r].status # "executing"
    PROVE  OwnedInv'
<1>1. ASSUME NEW f \in Executors \ {e}
      PROVE  /\ \A r \in Records : Owner(f, r) => Owner(f, r)'
             /\ exec'[f].pc \in {"abort", "giveup"} =>
                    exec'[f].bind = exec'[f].at \/ round'[exec'[f].at.r].status # "executing"
  <2>1. exec'[f] = exec[f]
    OBVIOUS
  <2>2. ASSUME exec[f].pc \in {"abort", "giveup"}
        PROVE  exec[f].bind = exec[f].at \/ round'[exec[f].at.r].status # "executing"
    <3>1. Good(exec[f].at)
      BY <2>2 DEF ExecutionInv, ExecutorsFit, Remembers, Executes
    <3>2. exec[f].bind = exec[f].at \/ round[exec[f].at.r].status # "executing"
      BY <2>2 DEF OwnedInv, Here
    <3> QED BY <3>1, <3>2, StillEnded DEF Good
  <2> QED BY <2>1, <2>2 DEF Owner, At
<1>2. \A f \in Executors, r \in Records : Begun(round'[r]) /\ Owner(f, r) => Owner(f, r)'
  BY <1>1
<1>3. \A f \in Executors : exec'[f].pc \in {"abort", "giveup"} =>
          exec'[f].bind = exec'[f].at \/ round'[exec'[f].at.r].status # "executing"
  BY <1>1
<1> QED BY <1>2, <1>3, OwnedStep

\* An executor lets go of everything, or its work's handlers are left with what is bound.
LEMMA OwnedLeave ==
    ASSUME ExecutionInv, AuditAssumption, OwnedInv, Lives, NEW e \in Executors, sweep' = sweep, NoneBegun,
           \/ Exit(e) /\ \A r \in Records : Owner(e, r) => ~Begun(round'[r])
           \/ Goto(e, "handler") /\ \A r \in Records :
                Owner(e, r) => ~Begun(round'[r]) \/ exec[e].bind.r = r
    PROVE  OwnedInv'
<1>1. CASE Exit(e) /\ \A r \in Records : Owner(e, r) => ~Begun(round'[r])
  <2>1. exec'[e] = Idle /\ \A f \in Executors \ {e} : exec'[f] = exec[f]
    BY <1>1, ExitType DEF ExecutionInv
  <2> QED BY <1>1, <2>1, OwnedMove DEF NoneBegun, Idle
<1>2. CASE Goto(e, "handler") /\ \A r \in Records : Owner(e, r) => ~Begun(round'[r]) \/ exec[e].bind.r = r
  <2>1. /\ exec[e] \in Executor /\ exec'[e] = [exec[e] EXCEPT !.pc = "handler"]
        /\ \A f \in Executors \ {e} : exec'[f] = exec[f]
    BY <1>2, GotoType DEF ExecutionInv, TypeOK
  <2>2. exec'[e].pc = "handler" /\ exec'[e].bind = exec[e].bind
    BY <2>1 DEF Executor
  <2>3. \A r \in Records : exec[e].bind.r = r => Owner(e, r)'
    BY <2>2 DEF Owner, At
  <2>4. \A r \in Records : Begun(round'[r]) /\ Owner(e, r) => Owner(e, r)'
    BY <1>2, <2>3
  <2> QED BY <2>1, <2>2, <2>4, OwnedMove DEF NoneBegun
<1> QED BY <1>1, <1>2

\* An executor that owns no round.
LEMMA NotOwner ==
    ASSUME NEW e \in Executors, exec[e].pc \notin Executes \cup {"handler"}
    PROVE  \A r \in Records : ~Owner(e, r)
BY DEF Owner, At

LEMMA OwnerHere ==
    ASSUME NEW e \in Executors, exec[e].pc \in Executes
    PROVE  \A r \in Records : Owner(e, r) <=> r = Here(e)
BY DEF Owner, At, Here, Executes

LEMMA AuditOwned ==
    ASSUME ExecutionInv, AuditAssumption, OwnedInv, Lives, NEW e \in Executors, Audit(e)
    PROVE  OwnedInv'
<1>1. exec[e].pc \notin Executes \cup {"handler"}
  BY DEF Audit, Supersede, Close, Create, Offer, Absorb, Offered, Audited, Fenced, At, Executes
<1>2. \A r \in Records : ~Owner(e, r)
  BY <1>1, NotOwner
<1>3. NoneBegun /\ sweep' = sweep
  <2>1. CASE Supersede(e) \/ Offered(e)
    BY <2>1, UnchangedBegun DEF Supersede, Offered, rest
  <2>2. CASE Close(e) \/ Absorb(e)
    BY <2>2, ClosePendingBegun DEF Close, Absorb, rest
  <2>3. CASE Create(e)
    <3>1. PICK r \in Records : Set(r, [NewRound EXCEPT !.status = "preparing"]) /\ UNCHANGED rest
      BY <2>3 DEF Create
    <3>2. ~Begun([NewRound EXCEPT !.status = "preparing"])
      BY DEF Begun, NewRound
    <3> QED BY <3>1, <3>2, SetBegun DEF rest
  <2>4. CASE Offer(e)
    <3>1. Here(e) \in Records => ~Begun(Closed(round[Here(e)], "audit_failed"))
      BY RoundsLawful, ClosedNotBegun DEF Lawful, RecordEnds, RecordStatus
    <3> QED BY <2>4, <3>1, SetBegun, UnchangedBegun DEF Offer
  <2>5. ASSUME NEW s \in {"passed", "pending", "blocked", "audit_failed"}, Audited(e, s)
        PROVE  NoneBegun /\ sweep' = sweep
    <3>1. Here(e) \in Records => ~Begun([round[Here(e)] EXCEPT !.status = s])
      <4>1. Here(e) \in Records => round[Here(e)] \in Round
        BY DEF ExecutionInv, TypeOK
      <4> QED BY <4>1 DEF Begun, Round
    <3> QED BY <2>5, <3>1, SetBegun, UnchangedBegun DEF Audited, rest
  <2> QED BY <2>1, <2>2, <2>3, <2>4, <2>5 DEF Audit
<1>4. CASE Exit(e) \/ Goto(e, "handler")
  BY <1>2, <1>3, <1>4, OwnedLeave
<1>5. ASSUME NEW x \in {"create", "close", "audit", "offer", "shown", "retire", "claim"},
             exec'[e].pc = x, \A f \in Executors \ {e} : exec'[f] = exec[f]
      PROVE  OwnedInv'
  BY <1>2, <1>3, <1>5, OwnedMove DEF NoneBegun
<1>6. exec \in [Executors -> Executor] /\ exec[e] \in Executor
  BY DEF ExecutionInv, TypeOK
<1>7. \/ Exit(e) \/ Goto(e, "handler")
      \/ /\ exec'[e].pc \in {"create", "close", "audit", "offer", "shown", "retire", "claim"}
         /\ \A f \in Executors \ {e} : exec'[f] = exec[f]
  <2>1. CASE Supersede(e)
    BY <1>6, <2>1 DEF Supersede, Executor
  <2>2. CASE Close(e)
    BY <1>6, <2>2 DEF Close, Goto, Executor
  <2>3. CASE Create(e)
    BY <1>6, <2>3 DEF Create, Executor
  <2>4. CASE Offer(e)
    BY <1>6, <2>4 DEF Offer, Goto, Executor
  <2>5. CASE Absorb(e) \/ Offered(e)
    BY <2>5 DEF Absorb, Offered
  <2>6. ASSUME NEW s \in {"passed", "pending", "blocked", "audit_failed"}, Audited(e, s)
        PROVE  \/ Exit(e)
               \/ /\ exec'[e].pc \in {"offer", "retire", "claim"}
                  /\ \A f \in Executors \ {e} : exec'[f] = exec[f]
    <3> DEFINE said == IF round[Here(e)].status = "preparing" THEN s ELSE "audit_failed"
    <3>1. Exit(e) \/ (AfterAudit(e, said) # "idle" /\ exec' = [exec EXCEPT ![e].pc = AfterAudit(e, said), ![e].said = said])
      BY <2>6 DEF Audited
    <3>2. AfterAudit(e, said) \in {"offer", "retire", "claim", "idle"}
      BY DEF AfterAudit
    <3> HIDE DEF said
    <3> QED BY <1>6, <3>1, <3>2 DEF Executor
  <2> QED BY <2>1, <2>2, <2>3, <2>4, <2>5, <2>6 DEF Audit
<1> QED BY <1>4, <1>5, <1>7

\* An executor goes on, at another place of the same round.
LEMMA OwnedStay ==
    ASSUME ExecutionInv, OwnedInv, Lives, NEW e \in Executors, exec[e].pc \in Executes,
           \A f \in Executors \ {e} : exec'[f] = exec[f], sweep' = sweep,
           exec'[e].pc \in Executes, exec'[e].at = exec[e].at,
           NoneBegun \/ \A r \in Records \ {Here(e)} : round'[r] = round[r],
           exec'[e].pc \in {"abort", "giveup"} =>
               exec'[e].bind = exec'[e].at \/ round'[exec'[e].at.r].status # "executing"
    PROVE  OwnedInv'
<1>1. \A r \in Records : r = Here(e) => Owner(e, r)'
  BY DEF Owner, At, Here, Executes
<1>2. \A r \in Records : Owner(e, r) => Owner(e, r)'
  BY <1>1, OwnerHere
<1>3. \A r \in Records : Begun(round'[r]) => Begun(round[r]) \/ Owner(e, r)'
  BY <1>1 DEF NoneBegun
<1> QED BY <1>2, <1>3, OwnedMove

\* The round an executor is at, while it executes, does so under the executor's token.
LEMMA HereExecuting ==
    ASSUME ExecutionInv, NEW e \in Executors, exec[e].pc \in Executes, round[Here(e)].status = "executing"
    PROVE  Executing(round[Here(e)], exec[e].at.k)
BY AtFits DEF Issue, Executing

LEMMA CheckOwned ==
    ASSUME ExecutionInv, AuditAssumption, OwnedInv, Lives, NEW e \in Executors,
           SourceInvalid(e) \/ SourceValid(e) \/ FilesChanged(e)
    PROVE  OwnedInv'
<1>1. exec[e].pc = "check" /\ exec[e].pc \in Executes /\ exec[e] \in Executor /\ exec \in [Executors -> Executor]
  BY DEF SourceInvalid, SourceValid, FilesChanged, At, Executes, ExecutionInv, TypeOK
<1>2. Here(e) \in Records /\ round[Here(e)] \in Round /\ ~Begun(round[Here(e)])
  <2>1. Here(e) \in Records /\ round[Here(e)] \in Round /\ Untouched(round[Here(e)], ran[Here(e)])
    BY <1>1, AtFits DEF Fits
  <2> QED BY <2>1 DEF Untouched, Begun
<1>3. NoneBegun /\ sweep' = sweep
  <2>1. ~Begun(Closed(round[Here(e)], "failed"))
    BY <1>2, ClosedNotBegun DEF RecordEnds, RecordStatus
  <2> QED BY <2>1, SetBegun, UnchangedBegun DEF SourceInvalid, SourceValid, FilesChanged, rest
<1>4. \A r \in Records : Owner(e, r) => ~Begun(round'[r])
  BY <1>1, <1>2, <1>3, OwnerHere DEF NoneBegun
<1>5. CASE SourceInvalid(e)
  BY <1>3, <1>4, <1>5, OwnedLeave DEF SourceInvalid
<1>6. CASE SourceValid(e) \/ FilesChanged(e)
  <2>1. exec'[e].pc \in {"attempt", "supersede"} /\ \A f \in Executors \ {e} : exec'[f] = exec[f]
    BY <1>1, <1>6 DEF SourceValid, FilesChanged, Goto, Executor
  <2> QED BY <1>3, <1>4, <2>1, OwnedMove DEF NoneBegun
<1> QED BY <1>5, <1>6

LEMMA ReauditOwned ==
    ASSUME ExecutionInv, AuditAssumption, OwnedInv, Lives, NEW e \in Executors,
           Retire(e) \/ Reshow(e) \/ ClaimPassed(e)
    PROVE  OwnedInv'
<1>1. /\ exec[e].pc \in {"retire", "reshow", "claim"} /\ exec[e].pc \notin Executes \cup {"handler"}
      /\ exec[e] \in Executor /\ exec \in [Executors -> Executor]
  BY DEF Retire, Reshow, ClaimPassed, Fenced, At, Executes, ExecutionInv, TypeOK
<1>2. \A r \in Records : ~Owner(e, r)
  BY <1>1, NotOwner
<1>3. NoneBegun
  <2>1. CASE Retire(e)
    <3> DEFINE b == exec[e].was
    <3>1. b.r \in Records => ~Begun(Closed(round[b.r], "cancelled"))
      BY RoundsLawful, ClosedNotBegun DEF Lawful, RecordEnds, RecordStatus
    <3>2. UNCHANGED round \/ Set(b.r, Closed(round[b.r], "cancelled"))
      BY <2>1 DEF Retire
    <3> HIDE DEF b
    <3> QED BY <3>1, <3>2, SetBegun, UnchangedBegun
  <2>2. CASE Reshow(e)
    BY <2>2, UnchangedBegun DEF Reshow
  <2>3. CASE ClaimPassed(e)
    <3>1. \/ UNCHANGED round
          \/ round[Here(e)].status = "passed" /\ Set(Here(e), Claimed(round[Here(e)], issued[Here(e)] + 1))
      BY <2>3 DEF ClaimPassed
    <3>2. \A r \in Records : issued[r] + 1 \in Nat
      <4>1. issued \in [Records -> Nat]
        BY DEF ExecutionInv, TypeOK
      <4> QED BY <4>1
    <3>3. round[Here(e)].status = "passed" /\ Here(e) \in Records =>
              ~Begun(Claimed(round[Here(e)], issued[Here(e)] + 1))
      BY <3>2, ClaimedNotBegun
    <3> QED BY <3>1, <3>3, SetBegun, UnchangedBegun
  <2> QED BY <2>1, <2>2, <2>3
<1>4. /\ sweep' = sweep
      /\ \/ Exit(e)
         \/ /\ exec'[e].pc \in {"reshow", "claim", "bind", "attempt", "handler"}
            /\ \A f \in Executors \ {e} : exec'[f] = exec[f]
  <2>1. CASE Retire(e)
    BY <1>1, <2>1 DEF Retire, Goto, Executor, rest
  <2>2. CASE Reshow(e)
    BY <2>2 DEF Reshow
  <2>3. CASE ClaimPassed(e)
    BY <1>1, <2>3 DEF ClaimPassed, Executor
  <2> QED BY <2>1, <2>2, <2>3
<1>5. CASE Exit(e)
  BY <1>2, <1>3, <1>4, <1>5, OwnedLeave
<1>6. CASE /\ exec'[e].pc \in {"reshow", "claim", "bind", "attempt", "handler"}
           /\ \A f \in Executors \ {e} : exec'[f] = exec[f]
  BY <1>2, <1>3, <1>4, <1>6, OwnedMove DEF NoneBegun
<1> QED BY <1>4, <1>5, <1>6

LEMMA PreparesOwned ==
    ASSUME ExecutionInv, AuditAssumption, OwnedInv, Lives, NEW e \in Executors,
           AllAttempted(e) \/ Bind(e) \/ Precheck(e) \/ AbortAttempts(e) \/ \E t \in Tools : CreateAttempts(e, t)
    PROVE  OwnedInv'
<1>1. /\ exec[e].pc \in Executes /\ exec[e] \in Executor /\ exec \in [Executors -> Executor] /\ sweep' = sweep
  BY DEF AllAttempted, Bind, Precheck, AbortAttempts, CreateAttempts, Fenced, At, Executes,
         ExecutionInv, TypeOK, rest
<1>2. Remembers(exec[e]) /\ Here(e) \in Records /\ round[Here(e)] \in Round /\ round \in [Records -> Round]
  BY <1>1, AtFits DEF TypeOK
<1>3. CASE AllAttempted(e)
  <2>1. /\ exec'[e].pc \in Executes \ {"abort", "giveup"} /\ exec'[e].at = exec[e].at
        /\ \A f \in Executors \ {e} : exec'[f] = exec[f]
    BY <1>1, <1>3 DEF AllAttempted, Goto, Executor, Executes
  <2> QED BY <1>1, <1>3, <2>1, UnchangedBegun, OwnedStay DEF AllAttempted
<1>4. CASE Bind(e)
  <2>1. /\ exec'[e].pc \in Executes \ {"abort", "giveup"} /\ exec'[e].at = exec[e].at
        /\ \A f \in Executors \ {e} : exec'[f] = exec[f]
    BY <1>1, <1>4 DEF Bind, Executor, Executes
  <2> QED BY <1>1, <1>4, <2>1, UnchangedBegun, OwnedStay DEF Bind
<1>5. CASE Precheck(e)
  <2>1. exec[e].bind = exec[e].at
    BY <1>2, <1>5 DEF Precheck, At, Remembers
  <2>2. /\ exec'[e].pc \in Executes /\ exec'[e].at = exec[e].at /\ exec'[e].bind = exec[e].bind
        /\ \A f \in Executors \ {e} : exec'[f] = exec[f]
    BY <1>1, <1>5 DEF Precheck, Goto, Executor, Executes
  <2> QED BY <1>1, <1>5, <2>1, <2>2, UnchangedBegun, OwnedStay DEF Precheck
<1>6. CASE AbortAttempts(e)
  <2> DEFINE y == FinishAttempts(round[Here(e)], Tools, "cancelled")
  <2>1. "cancelled" \in AttemptStatus /\ "cancelled" \in AttemptStatus \ {"none"}
    BY DEF AttemptStatus
  <2>2. y.status = round[Here(e)].status
    BY <1>2, <2>1, FinishAttemptsType
  <2>3. Ends(round[Here(e)], y) /\ Set(Here(e), y)
    BY <1>2, <1>6, <2>1, RoundsLawful, FinishAttemptsEnds DEF AbortAttempts
  <2> HIDE DEF y
  <2>4. NoneBegun
    BY <2>3, SetBegun
  <2>5. exec[e].bind = exec[e].at \/ round[Here(e)].status # "executing"
    BY <1>6 DEF OwnedInv, AbortAttempts, At
  <2>6. round'[Here(e)].status = round[Here(e)].status
    BY <1>2, <2>2, <2>3 DEF Set
  <2>7. /\ exec'[e].pc \in Executes /\ exec'[e].at = exec[e].at /\ exec'[e].bind = exec[e].bind
        /\ \A f \in Executors \ {e} : exec'[f] = exec[f]
    BY <1>1, <1>6 DEF AbortAttempts, Goto, Executor, Executes
  <2> QED BY <1>1, <2>4, <2>5, <2>6, <2>7, OwnedStay DEF Here
<1>7. ASSUME NEW t \in Tools, CreateAttempts(e, t) PROVE OwnedInv'
  <2>1. CASE Executing(round[Here(e)], exec[e].at.k)
    <3>1. \A r \in Records \ {Here(e)} : round'[r] = round[r]
      BY <1>2, <1>7, <2>1 DEF CreateAttempts, Set
    <3>2. exec[e].pc = "attempt" /\ exec' = exec
      BY <1>7, <2>1 DEF CreateAttempts, Fenced, At
    <3> QED BY <1>1, <3>1, <3>2, OwnedStay
  <2>2. CASE ~Executing(round[Here(e)], exec[e].at.k)
    <3>1. round[Here(e)].status # "executing"
      BY <1>1, <2>2, HereExecuting
    <3>2. UNCHANGED round /\ Goto(e, "abort")
      BY <1>7, <2>2 DEF CreateAttempts
    <3>3. /\ exec'[e].pc \in Executes /\ exec'[e].at = exec[e].at
          /\ \A f \in Executors \ {e} : exec'[f] = exec[f]
      BY <1>1, <3>2 DEF Goto, Executor, Executes
    <3> QED BY <1>1, <3>1, <3>2, <3>3, UnchangedBegun, OwnedStay DEF Here
  <2> QED BY <2>1, <2>2
<1> QED BY <1>3, <1>4, <1>5, <1>6, <1>7

LEMMA ExecuteOwned ==
    ASSUME ExecutionInv, AuditAssumption, OwnedInv, Lives, NEW e \in Executors, Execute(e)
    PROVE  OwnedInv'
<1>1. exec \in [Executors -> Executor] /\ exec[e] \in Executor
  BY DEF ExecutionInv, TypeOK
<1>2. CASE SourceInvalid(e) \/ SourceValid(e) \/ FilesChanged(e)
  BY <1>2, CheckOwned
<1>3. CASE Retire(e) \/ Reshow(e) \/ ClaimPassed(e)
  BY <1>3, ReauditOwned
<1>4. CASE AllAttempted(e) \/ Bind(e) \/ Precheck(e) \/ AbortAttempts(e) \/ \E t \in Tools : CreateAttempts(e, t)
  BY <1>4, PreparesOwned
<1>5. CASE AbortRound(e)
  <2> DEFINE x == round[Here(e)]
             y == FinishRound(x, exec[e].at.k, "failed")
  <2>1. exec[e].pc = "giveup" /\ exec[e].pc \in Executes /\ Set(Here(e), y) /\ sweep' = sweep
    BY <1>5 DEF AbortRound, At, Executes, rest
  <2>2. /\ Here(e) \in Records /\ Lawful(x) /\ x \in Round /\ Prepared(x, ran[Here(e)], {"none", "cancelled"})
        /\ x = round[Here(e)] /\ round \in [Records -> Round]
    BY <2>1, AtFits DEF Fits, TypeOK
  <2>3. ASSUME x.status = "executing" PROVE ~Begun(y)
    <3>1. Executing(x, exec[e].at.k)
      BY <2>1, <2>3, HereExecuting
    <3>2. Attempted(x, "running") = {}
      BY <2>2, <2>3 DEF Prepared, Attempted
    <3>3. y = Closed(x, "failed")
      BY <3>1, <3>2 DEF FinishRound
    <3> QED BY <2>2, <3>3, ClosedNotBegun DEF RecordEnds, RecordStatus
  <2>4. ASSUME x.status # "executing" PROVE ~Begun(y)
    <3>1. y = x
      BY <2>4 DEF FinishRound, Executing
    <3> QED BY <2>4, <3>1 DEF Begun
  <2> HIDE DEF x, y
  <2>5. NoneBegun /\ ~Begun(round'[Here(e)])
    BY <2>1, <2>2, <2>3, <2>4, SetBegun DEF Set
  <2>6. \A r \in Records : Owner(e, r) => ~Begun(round'[r])
    BY <2>1, <2>5, OwnerHere
  <2>7. Exit(e) \/ Goto(e, "handler")
    BY <1>5 DEF AbortRound
  <2> QED BY <2>1, <2>5, <2>6, <2>7, OwnedLeave
<1>6. CASE Finish(e)
  <2> DEFINE x == round[Here(e)]
             y == FinishIfComplete(x, exec[e].at.k)
  <2>1. exec[e].pc = "run" /\ exec[e].pc \in Executes /\ Set(Here(e), y) /\ sweep' = sweep /\ exec[e].ended = Tools
    BY <1>6 DEF Finish, At, Executes, rest
  <2>2. /\ Here(e) \in Records /\ x \in Round /\ InRun(exec[e], x, ran[Here(e)])
        /\ x = round[Here(e)] /\ round \in [Records -> Round]
    BY <2>1, AtFits DEF Fits, TypeOK
  <2>3. ASSUME x.status = "executing" PROVE ~Begun(y)
    <3>1. Executing(x, exec[e].at.k)
      BY <2>1, <2>3, HereExecuting
    <3>2. Attempted(x, "running") \cup Attempted(x, "none") = {}
      BY <2>1, <2>2 DEF InRun, Attempted
    <3>3. y = Closed(x, Outcome(x))
      BY <3>1, <3>2 DEF FinishIfComplete, IsComplete
    <3>4. Outcome(x) \in RecordEnds
      BY DEF Outcome, RecordEnds, RecordStatus
    <3> QED BY <2>2, <3>3, <3>4, ClosedNotBegun
  <2>4. ASSUME x.status # "executing" PROVE ~Begun(y)
    <3>1. y = x
      BY <2>4 DEF FinishIfComplete, IsComplete, Executing
    <3> QED BY <2>4, <3>1 DEF Begun
  <2> HIDE DEF x, y
  <2>5. NoneBegun /\ ~Begun(round'[Here(e)])
    BY <2>1, <2>2, <2>3, <2>4, SetBegun DEF Set
  <2>6. \A r \in Records : Owner(e, r) => ~Begun(round'[r])
    BY <2>1, <2>5, OwnerHere
  <2> QED BY <1>6, <2>1, <2>5, <2>6, OwnedLeave DEF Finish
<1>7. CASE Handler(e)
  <2> DEFINE b == exec[e].bind
  <2>1. exec[e].pc = "handler" /\ Handled(b) /\ Exit(e) /\ sweep' = sweep
    BY <1>7 DEF Handler, At, rest
  <2>2. b = NoBinding \/ Good(b)
    BY DEF ExecutionInv, ExecutorsFit, Remembers
  <2> HIDE DEF b
  <2>3. NoneBegun
    BY <2>1, HandledBegun
  <2>4. ASSUME NEW r \in Records, b.r = r PROVE ~Begun(round'[r])
    <3>1. b # NoBinding
      BY <2>4, AuditAssumption DEF NoBinding
    <3>2. Lawful(round[r]) /\ (round[r].status = "executing" => round[r].token = b.k)
      BY <2>2, <2>4, <3>1 DEF ExecutionInv, RecordsFit, Issue, Good
    <3>3. round' = [round EXCEPT ![r] = MarkUnknownReliably(round[r], b.k)]
      BY <2>1, <2>4, <3>1 DEF Handled, Set
    <3>4. round'[r] = MarkUnknownReliably(round[r], b.k)
      BY <3>3 DEF ExecutionInv, TypeOK
    <3> QED BY <3>2, <3>4, MarkUnknownReliablyStops DEF Begun
  <2>5. \A r \in Records : Owner(e, r) => ~Begun(round'[r])
    BY <2>1, <2>4 DEF Owner, Executes, b
  <2> QED BY <2>1, <2>3, <2>5, OwnedLeave
<1>8. ASSUME NEW t \in Tools, StartTool(e, t) PROVE OwnedInv'
  <2>1. /\ exec[e].pc = "run" /\ exec'[e].pc = "run" /\ exec'[e].at = exec[e].at
        /\ \A f \in Executors \ {e} : exec'[f] = exec[f]
        /\ sweep' = sweep /\ UNCHANGED round
    BY <1>1, <1>8 DEF StartTool, Fenced, At, Executor
  <2> QED BY <2>1, UnchangedBegun, OwnedStay DEF Executes
<1>9. ASSUME NEW t \in Tools, NEW s \in {"succeeded", "failed", "unknown"}, ToolEnds(e, t, s) PROVE OwnedInv'
  <2>1. /\ exec[e].pc = "run" /\ exec'[e].pc = "run" /\ exec'[e].at = exec[e].at
        /\ \A f \in Executors \ {e} : exec'[f] = exec[f]
        /\ sweep' = sweep /\ Set(Here(e), FinishAttempts(round[Here(e)], {t}, s))
    BY <1>1, <1>9 DEF ToolEnds, FinishAttempt, At, Executor, rest
  <2>2. s \in AttemptStatus \ {"none"}
    BY DEF AttemptStatus
  <2>3. NoneBegun
    BY <2>1, <2>2, RoundsLawful, FinishAttemptsEnds, SetBegun
  <2> QED BY <2>1, <2>3, OwnedStay DEF Executes
<1> QED BY <1>2, <1>3, <1>4, <1>5, <1>6, <1>7, <1>8, <1>9 DEF Execute

\* An executor whose work fails has bound the round it began, or ends it on the way out.
LEMMA ErrorOwned ==
    ASSUME ExecutionInv, AuditAssumption, OwnedInv, Lives, NEW e \in Executors, Cancelled(e) \/ Fails(e)
    PROVE  OwnedInv'
<1> DEFINE x == round[Here(e)]
<1>1. /\ Goto(e, "handler") /\ sweep' = sweep /\ exec[e].pc \notin {"idle", "handler"}
      /\ exec[e] \in Executor /\ Remembers(exec[e]) /\ round \in [Records -> Round]
  BY DEF Cancelled, Fails, ExecutionInv, TypeOK, ExecutorsFit
<1>2. \/ Set(Here(e), CancelUnexecuted(x))
      \/ Set(Here(e), MarkUnknown(x, exec[e].at.k))
      \/ Set(Here(e), MarkUnknownReliably(x, exec[e].at.k))
      \/ Set(Here(e), FinishAttempts(x, Tools \ exec[e].started, "cancelled"))
      \/ UNCHANGED round
  BY DEF Cancelled, Fails, OnCancel
<1>3. NoneBegun
  <2>1. "cancelled" \in AttemptStatus \ {"none"}
    BY DEF AttemptStatus
  <2>2. ASSUME Here(e) \in Records
        PROVE  /\ Ends(x, MarkUnknown(x, exec[e].at.k))
               /\ Ends(x, MarkUnknownReliably(x, exec[e].at.k))
               /\ Ends(x, FinishAttempts(x, Tools \ exec[e].started, "cancelled"))
               /\ Ends(x, CancelUnexecuted(x)) \/ ~Begun(CancelUnexecuted(x))
    BY <2>1, <2>2, RoundsLawful, MarkUnknownEnds, MarkUnknownReliablyEnds, FinishAttemptsEnds, CancelUnexecutedBegun
  <2> HIDE DEF x
  <2> QED BY <1>2, <2>2, SetBegun, UnchangedBegun DEF x
<1>4. ASSUME exec[e].pc \in Executes, exec[e].bind # exec[e].at PROVE ~Begun(round'[Here(e)])
  <2>1. /\ Here(e) \in Records /\ Lawful(x) /\ x \in Round /\ Fits(exec[e], x, ran[Here(e)])
        /\ x.status = "executing" => x.token = exec[e].at.k
    BY <1>4, AtFits DEF Issue
  <2>2. CASE exec[e].pc \in {"abort", "giveup"}
    <3>1. x.status # "executing"
      BY <1>4, <2>2 DEF OwnedInv
    <3> QED BY <1>3, <2>1, <3>1 DEF NoneBegun, Begun
  <2>3. CASE exec[e].pc \in {"attempt", "bind"}
    <3>1. exec[e].kind \in {"reply", "confirmed"}
      BY <1>1 DEF Executor
    <3>2. \/ exec[e].kind = "reply" /\ Set(Here(e), MarkUnknown(x, exec[e].at.k))
          \/ exec[e].kind = "confirmed" /\ exec[e].pc = "bind"
      BY <1>1, <1>4, <2>3, <3>1 DEF Cancelled, Fails, At, Remembers
    <3>3. CASE exec[e].kind = "confirmed" /\ exec[e].pc = "bind"
      <4>1. Untouched(x, ran[Here(e)])
        BY <2>1, <3>3 DEF Fits
      <4>2. ~Begun(x)
        BY <4>1 DEF Untouched, Begun
      <4> QED BY <1>3, <2>1, <4>2 DEF NoneBegun
    <3>4. CASE exec[e].kind = "reply" /\ Set(Here(e), MarkUnknown(x, exec[e].at.k))
      <4>1. Prepared(x, ran[Here(e)], {"none", "running"})
        BY <2>1, <2>3, <3>4 DEF Fits, Prepared
      <4>2. CASE Attempted(x, "running") = {}
        <5>1. ~Begun(x)
          BY <4>1, <4>2 DEF Prepared, Attempted, Begun
        <5> QED BY <1>3, <2>1, <5>1 DEF NoneBegun
      <4>3. CASE Attempted(x, "running") # {}
        <5> DEFINE y == Attempts(x, Attempted(x, "running"), "unknown")
        <5>1. x.status = "executing" /\ Executing(x, exec[e].at.k)
          BY <2>1, <4>3 DEF Lawful, Attempted, Executing
        <5>2. y \in Round
          BY <2>1, AttemptsType DEF AttemptStatus
        <5>3. MarkUnknown(x, exec[e].at.k) = Closed(y, "unknown")
          BY <4>3, <5>1 DEF MarkUnknown
        <5> HIDE DEF y
        <5>4. ~Begun(MarkUnknown(x, exec[e].at.k))
          BY <5>2, <5>3, ClosedNotBegun DEF RecordEnds, RecordStatus
        <5> HIDE DEF x
        <5>5. round'[Here(e)] = MarkUnknown(x, exec[e].at.k)
          BY <1>1, <2>1, <3>4 DEF Set
        <5> QED BY <5>4, <5>5
      <4> QED BY <4>2, <4>3
    <3> QED BY <3>2, <3>3, <3>4
  <2>4. exec[e].pc \notin {"check", "run"}
    BY <1>1, <1>4 DEF Remembers
  <2> QED BY <1>4, <2>2, <2>3, <2>4 DEF Executes
<1>5. \A r \in Records : Owner(e, r) => ~Begun(round'[r]) \/ exec[e].bind.r = r
  <2>1. CASE exec[e].pc \in Executes
    BY <1>4, <2>1, OwnerHere DEF Here
  <2>2. CASE exec[e].pc \notin Executes
    BY <1>1, <2>2, NotOwner
  <2> QED BY <2>1, <2>2
<1> QED BY <1>1, <1>3, <1>5, OwnedLeave

LEMMA AsideOwned ==
    ASSUME ExecutionInv, OwnedInv, Lives, NoneBegun, exec' = exec,
           \A b \in sweep : b.r \in Records /\ Begun(round'[b.r]) => b \in sweep'
    PROVE  OwnedInv'
<1>1. ASSUME NEW e \in Executors, exec[e].pc \in {"abort", "giveup"}
      PROVE  exec[e].bind = exec[e].at \/ round'[exec[e].at.r].status # "executing"
  <2>1. Good(exec[e].at)
    BY <1>1 DEF ExecutionInv, ExecutorsFit, Remembers, Executes
  <2>2. exec[e].bind = exec[e].at \/ round[exec[e].at.r].status # "executing"
    BY <1>1 DEF OwnedInv, Here
  <2> QED BY <2>1, <2>2, StillEnded DEF Good
<1>2. \A e \in Executors, r \in Records : Owner(e, r) => Owner(e, r)'
  BY DEF Owner, At
<1> QED BY <1>1, <1>2, OwnedStep DEF NoneBegun

LEMMA OwnedKept ==
    ASSUME AuditAssumption, ExecutionInv, CardInv, OwnedInv, [Next]_vars
    PROVE  OwnedInv'
<1>1. Lives
  BY LifeKept
<1>2. /\ round \in [Records -> Round] /\ issued \in [Records -> Nat]
      /\ exec \in [Executors -> Executor]
  BY DEF ExecutionInv, TypeOK
<1>3. CASE UNCHANGED vars
  BY <1>1, <1>3, UnchangedBegun, AsideOwned DEF vars
<1>4. ASSUME NEW r \in Records, Approve(r) PROVE OwnedInv'
  <2>1. \/ UNCHANGED round
        \/ round[r].status = "pending" /\ Set(r, Claimed(round[r], issued[r] + 1))
    BY <1>4 DEF Approve, MayExecute
  <2>2. issued[r] + 1 \in Nat
    BY <1>2
  <2>3. NoneBegun
    BY <2>1, <2>2, ClaimedNotBegun, SetBegun, UnchangedBegun
  <2> QED BY <1>1, <1>4, <2>3, AsideOwned DEF Approve
<1>5. ASSUME NEW r \in Records, Reject(r) \/ OtherText(r) \/ Expire(r) PROVE OwnedInv'
  <2>1. NoneBegun
    BY <1>5, ClosePendingBegun, UnchangedBegun DEF Reject, OtherText, Expire
  <2> QED BY <1>1, <1>5, <2>1, AsideOwned DEF Reject, OtherText, Expire
<1>6. CASE Submit
  <2>1. ASSUME NEW t \in Records, Begun(round'[t]) PROVE Begun(round[t])
    <3>1. round'[t] = IF Expires(t) THEN Closed(round[t], "expired") ELSE round[t]
      BY <1>6 DEF Submit
    <3>2. ~Begun(Closed(round[t], "expired"))
      BY <1>2, ClosedNotBegun DEF RecordEnds, RecordStatus
    <3> QED BY <2>1, <3>1, <3>2
  <2> QED BY <1>1, <1>6, <2>1, AsideOwned DEF Submit, NoneBegun
<1>7. CASE Stop
  <2>1. ASSUME NEW t \in Records, Begun(round'[t]) PROVE Begun(round[t])
    <3>1. round'[t] = CancelUnexecuted(round[t])
      BY <1>7 DEF Stop
    <3>2. Ends(round[t], CancelUnexecuted(round[t])) \/ ~Begun(CancelUnexecuted(round[t]))
      BY RoundsLawful, CancelUnexecutedBegun
    <3> QED BY <2>1, <3>1, <3>2, EndsBegun
  <2> QED BY <1>1, <1>7, <2>1, AsideOwned DEF Stop, NoneBegun
<1>8. CASE Restart
  <2>1. \A t \in Records : ~Begun(round'[t])
    <3> SUFFICES ASSUME NEW t \in Records PROVE ~Begun(round'[t])
      OBVIOUS
    <3>1. \/ round'[t] = Recovered(round[t])
          \/ round'[t] = Closed(round[t], "expired")
      BY <1>8 DEF Restart
    <3>2. ~Begun(Closed(round[t], "expired"))
      BY <1>2, ClosedNotBegun DEF RecordEnds, RecordStatus
    <3>3. Recovered(round[t]).status # "executing"
      <4>1. /\ Settles(round[t], Recovered(round[t]))
            /\ round[t].status = "executing" => Recovered(round[t]).status # "executing"
        BY RoundsLawful, RecoveredSettles
      <4> QED BY <4>1 DEF Settles
    <3> QED BY <3>1, <3>2, <3>3 DEF Begun
  <2>2. exec' = [e \in Executors |-> Idle]
    BY <1>8 DEF Restart
  <2>3. \A e \in Executors : exec'[e].pc = "idle"
    BY <2>2 DEF Idle
  <2>4. \A r \in Records : ~Begun(round[r])'
    BY <2>1 DEF Begun
  <2> QED BY <2>3, <2>4 DEF OwnedInv
<1>9. ASSUME NEW b \in sweep, SweepMark(b) PROVE OwnedInv'
  <2>1. Handled(b) /\ sweep' = sweep \ {b} /\ exec' = exec
    BY <1>9 DEF SweepMark
  <2>2. Good(b)
    BY DEF ExecutionInv, SweepFit
  <2>3. ~Begun(round'[b.r])
    <3>1. b.r \in Records /\ b # NoBinding
      BY <2>2 DEF Good, NoBinding
    <3>2. Lawful(round[b.r]) /\ (round[b.r].status = "executing" => round[b.r].token = b.k)
      BY <2>2, <3>1 DEF ExecutionInv, RecordsFit, Issue, Good
    <3>3. round'[b.r] = MarkUnknownReliably(round[b.r], b.k)
      BY <1>2, <2>1, <3>1 DEF Handled, Set
    <3> QED BY <3>2, <3>3, MarkUnknownReliablyStops DEF Begun
  <2>4. NoneBegun
    BY <2>1, HandledBegun
  <2>5. \A c \in sweep : c.r \in Records /\ Begun(round'[c.r]) => c \in sweep'
    BY <2>1, <2>3
  <2> QED BY <1>1, <2>1, <2>4, <2>5, AsideOwned
<1>10. ASSUME NEW e \in Executors, Sweep(e) PROVE OwnedInv'
  <2>1. UNCHANGED <<round, exec>> /\ sweep \subseteq sweep'
    BY <1>10 DEF Sweep
  <2> QED BY <1>1, <2>1, UnchangedBegun, AsideOwned
<1>11. ASSUME NEW e \in Executors, BeginReply(e) \/ \E b \in ready : BeginConfirmed(e, b) PROVE OwnedInv'
  <2>1. /\ exec[e].pc = "idle" /\ UNCHANGED <<round, sweep>>
        /\ exec'[e].pc \in {"supersede", "check"}
        /\ \A f \in Executors \ {e} : exec'[f] = exec[f]
    <3>1. CASE BeginReply(e)
      BY <1>2, <3>1 DEF BeginReply, MayBegin, At, Goto, Executor, rest
    <3>2. ASSUME NEW b \in ready, BeginConfirmed(e, b)
          PROVE  /\ exec[e].pc = "idle" /\ UNCHANGED <<round, sweep>>
                 /\ exec'[e].pc = "check"
                 /\ \A f \in Executors \ {e} : exec'[f] = exec[f]
      BY <1>2, <3>2 DEF BeginConfirmed, MayBegin, At, Idle
    <3> QED BY <1>11, <3>1, <3>2
  <2>2. \A r \in Records : ~Owner(e, r)
    BY <2>1, NotOwner DEF Executes
  <2> QED BY <1>1, <2>1, <2>2, OwnedMove
<1> QED BY <1>1, <1>3, <1>4, <1>5, <1>6, <1>7, <1>8, <1>9, <1>10, <1>11, AuditOwned, ExecuteOwned, ErrorOwned
        DEF Next, Decision

\* A round that executes and has attempts is somebody's, through every error, lost claim,
\* stop and restart: its executor has it in hand or bound to its work when it fails, or
\* the sweep that took the work is about to mark it.
THEOREM RoundsHaveAnOwner == Spec => []NoOrphanedRound
<1>1. Init => OwnedInv
  BY AuditAssumption DEF Init, OwnedInv, Begun, NewRound, Idle
<1>2. ExecutionInv /\ CardInv /\ OwnedInv /\ [Next]_vars => OwnedInv'
  BY OwnedKept, AuditAssumption
<1>3. OwnedInv => NoOrphanedRound
  <2> SUFFICES ASSUME OwnedInv, NEW r \in Records,
                      round[r].status = "executing", Attempted(round[r], "none") # Tools
               PROVE  \/ \E e \in Executors : exec[e].pc # "idle" /\ r \in {exec[e].at.r, exec[e].bind.r}
                      \/ \E b \in sweep : b.r = r
    BY DEF NoOrphanedRound
  <2>1. Begun(round[r])
    BY DEF Begun, Attempted
  <2>2. \A e \in Executors : Owner(e, r) => exec[e].pc # "idle" /\ r \in {exec[e].at.r, exec[e].bind.r}
    BY DEF Owner, Executes, At
  <2> QED BY <2>1, <2>2 DEF OwnedInv
<1> QED BY <1>1, <1>2, <1>3, CardAlways, AuditAssumption, PTL DEF Spec
=============================================================================
