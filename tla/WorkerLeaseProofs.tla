------------------------- MODULE WorkerLeaseProofs -------------------------
(***************************************************************************)
(* LeaseInv is an inductive invariant of WorkerLease for every number of   *)
(* processes and all timings; LeaseExclusive, OverrunBounded and           *)
(* LiveLeaseKept follow from it.                                           *)
(***************************************************************************)
EXTENDS WorkerLease, TLAPS

\* Every step of the acquisition loop preserves the invariant.
LEMMA AcquirePreserves == ASSUME LeaseInv, NEW p \in Proc, Acquire(p) PROVE LeaseInv'
<1> USE TimingAssumption, OwnerAssumption
<1> USE DEF LeaseInv
<1>1. CASE AcquireBegin(p)
  <2>1. TypeOK'
    BY <1>1 DEF TypeOK, AcquireBegin, FreshOwner, Enter, Phase, RenewalStep, RowFloor, TimersBounded
  <2>2. OwnerIdsUnique'
    BY <1>1 DEF TypeOK, OwnerIdsUnique, AcquireBegin, FreshOwner, Enter, Phase
  <2>3. LiveLeaseIsRow'
    BY <1>1 DEF TypeOK, LiveLeaseIsRow, AcquireBegin, FreshOwner, Enter, Working, Phase, OwnerIdsUnique, TimersBounded, RowFloor
  <2>4. RenewalFollowsPhase'
    BY <1>1 DEF TypeOK, RenewalFollowsPhase, AcquireBegin, FreshOwner, Enter, Phase, Working
  <2>5. TimersBounded'
    BY <1>1 DEF TypeOK, TimersBounded, AcquireBegin, FreshOwner, Enter, RenewalFollowsPhase, Working
  <2>6. LeaseAge'
    BY <1>1 DEF TypeOK, LeaseAge, AcquireBegin, FreshOwner, Enter, StopAge, RetryDeadline, TimersBounded, RenewalFollowsPhase, Working
  <2>7. QED BY <2>1, <2>2, <2>3, <2>4, <2>5, <2>6
<1>2. CASE AcquireUpdate(p)
  <2>1. TypeOK'
    BY <1>2 DEF TypeOK, AcquireUpdate, Grant, ExpiredFor, Enter, Continue, Phase, RenewalStep, RowFloor, TimersBounded
  <2>2. OwnerIdsUnique'
    BY <1>2 DEF TypeOK, OwnerIdsUnique, AcquireUpdate, Grant, ExpiredFor, Enter, Continue, Phase
  <2>3. LiveLeaseIsRow'
    BY <1>2 DEF TypeOK, LiveLeaseIsRow, AcquireUpdate, Grant, ExpiredFor, Enter, Continue, Working, Phase, OwnerIdsUnique, TimersBounded, RowFloor
  <2>4. RenewalFollowsPhase'
    BY <1>2 DEF TypeOK, RenewalFollowsPhase, AcquireUpdate, Grant, ExpiredFor, Enter, Continue, Phase, Working
  <2>5. TimersBounded'
    BY <1>2 DEF TypeOK, TimersBounded, AcquireUpdate, Grant, ExpiredFor, Enter, Continue, RenewalFollowsPhase, Working
  <2>6. LeaseAge'
    BY <1>2 DEF TypeOK, LeaseAge, AcquireUpdate, Grant, ExpiredFor, Enter, Continue, StopAge, RetryDeadline, TimersBounded, RenewalFollowsPhase, Working
  <2>7. QED BY <2>1, <2>2, <2>3, <2>4, <2>5, <2>6
<1>3. CASE AcquireInsert(p)
  <2>1. TypeOK'
    BY <1>3 DEF TypeOK, AcquireInsert, Grant, Enter, Continue, Phase, RenewalStep, RowFloor, TimersBounded
  <2>2. OwnerIdsUnique'
    BY <1>3 DEF TypeOK, OwnerIdsUnique, AcquireInsert, Grant, Enter, Continue, Phase
  <2>3. LiveLeaseIsRow'
    BY <1>3 DEF TypeOK, LiveLeaseIsRow, AcquireInsert, Grant, Enter, Continue, Working, Phase, OwnerIdsUnique, TimersBounded, RowFloor
  <2>4. RenewalFollowsPhase'
    BY <1>3 DEF TypeOK, RenewalFollowsPhase, AcquireInsert, Grant, Enter, Continue, Phase, Working
  <2>5. TimersBounded'
    BY <1>3 DEF TypeOK, TimersBounded, AcquireInsert, Grant, Enter, Continue, RenewalFollowsPhase, Working
  <2>6. LeaseAge'
    BY <1>3 DEF TypeOK, LeaseAge, AcquireInsert, Grant, Enter, Continue, StopAge, RetryDeadline, TimersBounded, RenewalFollowsPhase, Working
  <2>7. QED BY <2>1, <2>2, <2>3, <2>4, <2>5, <2>6
<1>4. CASE AcquireReupdate(p)
  <2>1. TypeOK'
    BY <1>4 DEF TypeOK, AcquireReupdate, Grant, ExpiredFor, NotAcquired, Enter, Phase, RenewalStep, RowFloor, TimersBounded
  <2>2. OwnerIdsUnique'
    BY <1>4 DEF TypeOK, OwnerIdsUnique, AcquireReupdate, Grant, ExpiredFor, NotAcquired, Enter, Phase
  <2>3. LiveLeaseIsRow'
    BY <1>4 DEF TypeOK, LiveLeaseIsRow, AcquireReupdate, Grant, ExpiredFor, NotAcquired, Enter, Working, Phase, OwnerIdsUnique, TimersBounded, RowFloor
  <2>4. RenewalFollowsPhase'
    BY <1>4 DEF TypeOK, RenewalFollowsPhase, AcquireReupdate, Grant, ExpiredFor, NotAcquired, Enter, Phase, Working
  <2>5. TimersBounded'
    BY <1>4 DEF TypeOK, TimersBounded, AcquireReupdate, Grant, ExpiredFor, NotAcquired, Enter, RenewalFollowsPhase, Working
  <2>6. LeaseAge'
    BY <1>4 DEF TypeOK, LeaseAge, AcquireReupdate, Grant, ExpiredFor, NotAcquired, Enter, StopAge, RetryDeadline, TimersBounded, RenewalFollowsPhase, Working
  <2>7. QED BY <2>1, <2>2, <2>3, <2>4, <2>5, <2>6
<1>5. CASE AcquireError(p)
  <2>1. TypeOK'
    BY <1>5 DEF TypeOK, AcquireError, NotAcquired, Enter, Phase, RenewalStep, RowFloor, TimersBounded
  <2>2. OwnerIdsUnique'
    BY <1>5 DEF TypeOK, OwnerIdsUnique, AcquireError, NotAcquired, Enter, Phase
  <2>3. LiveLeaseIsRow'
    BY <1>5 DEF TypeOK, LiveLeaseIsRow, AcquireError, NotAcquired, Enter, Working, Phase, OwnerIdsUnique, TimersBounded, RowFloor
  <2>4. RenewalFollowsPhase'
    BY <1>5 DEF TypeOK, RenewalFollowsPhase, AcquireError, NotAcquired, Enter, Phase, Working
  <2>5. TimersBounded'
    BY <1>5 DEF TypeOK, TimersBounded, AcquireError, NotAcquired, Enter, RenewalFollowsPhase, Working
  <2>6. LeaseAge'
    BY <1>5 DEF TypeOK, LeaseAge, AcquireError, NotAcquired, Enter, StopAge, RetryDeadline, TimersBounded, RenewalFollowsPhase, Working
  <2>7. QED BY <2>1, <2>2, <2>3, <2>4, <2>5, <2>6
<1>6. CASE BackoffEnd(p)
  <2>1. TypeOK'
    BY <1>6 DEF TypeOK, BackoffEnd, Enter, Phase, RenewalStep, RowFloor, TimersBounded
  <2>2. OwnerIdsUnique'
    BY <1>6 DEF TypeOK, OwnerIdsUnique, BackoffEnd, Enter, Phase
  <2>3. LiveLeaseIsRow'
    BY <1>6 DEF TypeOK, LiveLeaseIsRow, BackoffEnd, Enter, Working, Phase, OwnerIdsUnique, TimersBounded, RowFloor
  <2>4. RenewalFollowsPhase'
    BY <1>6 DEF TypeOK, RenewalFollowsPhase, BackoffEnd, Enter, Phase, Working
  <2>5. TimersBounded'
    BY <1>6 DEF TypeOK, TimersBounded, BackoffEnd, Enter, RenewalFollowsPhase, Working
  <2>6. LeaseAge'
    BY <1>6 DEF TypeOK, LeaseAge, BackoffEnd, Enter, StopAge, RetryDeadline, TimersBounded, RenewalFollowsPhase, Working
  <2>7. QED BY <2>1, <2>2, <2>3, <2>4, <2>5, <2>6
<1>7. CASE LeaveLoop(p)
  <2>1. TypeOK'
    BY <1>7 DEF TypeOK, LeaveLoop, Enter, Phase, RenewalStep, RowFloor, TimersBounded
  <2>2. OwnerIdsUnique'
    BY <1>7 DEF TypeOK, OwnerIdsUnique, LeaveLoop, Enter, Phase
  <2>3. LiveLeaseIsRow'
    BY <1>7 DEF TypeOK, LiveLeaseIsRow, LeaveLoop, Enter, Working, Phase, OwnerIdsUnique, TimersBounded, RowFloor
  <2>4. RenewalFollowsPhase'
    BY <1>7 DEF TypeOK, RenewalFollowsPhase, LeaveLoop, Enter, Phase, Working
  <2>5. TimersBounded'
    BY <1>7 DEF TypeOK, TimersBounded, LeaveLoop, Enter, RenewalFollowsPhase, Working
  <2>6. LeaseAge'
    BY <1>7 DEF TypeOK, LeaseAge, LeaveLoop, Enter, StopAge, RetryDeadline, TimersBounded, RenewalFollowsPhase, Working
  <2>7. QED BY <2>1, <2>2, <2>3, <2>4, <2>5, <2>6
<1>8. QED BY <1>1, <1>2, <1>3, <1>4, <1>5, <1>6, <1>7 DEF Acquire

\* Every step of the renewal task preserves the invariant.
LEMMA RenewPreserves == ASSUME LeaseInv, NEW p \in Proc, Renew(p) PROVE LeaseInv'
<1> USE TimingAssumption, OwnerAssumption
<1> USE DEF LeaseInv
<1>1. CASE RenewWake(p)
  <2>1. TypeOK'
    BY <1>1 DEF TypeOK, RenewWake, RenewalTo, Phase, RenewalStep, RowFloor, TimersBounded
  <2>2. OwnerIdsUnique'
    BY <1>1 DEF TypeOK, OwnerIdsUnique, RenewWake, RenewalTo, Phase
  <2>3. LiveLeaseIsRow'
    BY <1>1 DEF TypeOK, LiveLeaseIsRow, RenewWake, RenewalTo, Working, Phase, OwnerIdsUnique, TimersBounded, RowFloor
  <2>4. RenewalFollowsPhase'
    BY <1>1 DEF TypeOK, RenewalFollowsPhase, RenewWake, RenewalTo, Phase, Working
  <2>5. TimersBounded'
    BY <1>1 DEF TypeOK, TimersBounded, RenewWake, RenewalTo, RenewalFollowsPhase, Working
  <2>6. LeaseAge'
    BY <1>1 DEF TypeOK, LeaseAge, RenewWake, RenewalTo, StopAge, RetryDeadline, TimersBounded, RenewalFollowsPhase, Working
  <2>7. QED BY <2>1, <2>2, <2>3, <2>4, <2>5, <2>6
<1>2. CASE RenewOk(p)
  <2>1. TypeOK'
    BY <1>2 DEF TypeOK, RenewOk, RenewalTo, RenewMatches, Phase, RenewalStep, RowFloor, TimersBounded
  <2>2. OwnerIdsUnique'
    BY <1>2 DEF TypeOK, OwnerIdsUnique, RenewOk, RenewalTo, RenewMatches, Phase
  <2>3. LiveLeaseIsRow'
    BY <1>2 DEF TypeOK, LiveLeaseIsRow, RenewOk, RenewalTo, RenewMatches, Working, Phase, OwnerIdsUnique, TimersBounded, RowFloor
  <2>4. RenewalFollowsPhase'
    BY <1>2 DEF TypeOK, RenewalFollowsPhase, RenewOk, RenewalTo, RenewMatches, Phase, Working
  <2>5. TimersBounded'
    BY <1>2 DEF TypeOK, TimersBounded, RenewOk, RenewalTo, RenewMatches, RenewalFollowsPhase, Working
  <2>6. LeaseAge'
    BY <1>2 DEF TypeOK, LeaseAge, RenewOk, RenewalTo, RenewMatches, StopAge, RetryDeadline, TimersBounded, RenewalFollowsPhase, Working
  <2>7. QED BY <2>1, <2>2, <2>3, <2>4, <2>5, <2>6
<1>3. CASE RenewLost(p)
  <2>1. TypeOK'
    BY <1>3 DEF TypeOK, RenewLost, RenewalEnds, RenewalTo, Enter, Phase, RenewalStep, RowFloor, TimersBounded
  <2>2. OwnerIdsUnique'
    BY <1>3 DEF TypeOK, OwnerIdsUnique, RenewLost, RenewalEnds, RenewalTo, Enter, Phase
  <2>3. LiveLeaseIsRow'
    BY <1>3 DEF TypeOK, LiveLeaseIsRow, RenewLost, RenewalEnds, RenewalTo, Enter, Working, Phase, OwnerIdsUnique, TimersBounded, RowFloor
  <2>4. RenewalFollowsPhase'
    BY <1>3 DEF TypeOK, RenewalFollowsPhase, RenewLost, RenewalEnds, RenewalTo, Enter, Phase, Working
  <2>5. TimersBounded'
    BY <1>3 DEF TypeOK, TimersBounded, RenewLost, RenewalEnds, RenewalTo, Enter, RenewalFollowsPhase, Working
  <2>6. LeaseAge'
    BY <1>3 DEF TypeOK, LeaseAge, RenewLost, RenewalEnds, RenewalTo, Enter, StopAge, RetryDeadline, TimersBounded, RenewalFollowsPhase, Working
  <2>7. QED BY <2>1, <2>2, <2>3, <2>4, <2>5, <2>6
<1>4. CASE RenewLocked(p)
  <2>1. TypeOK'
    BY <1>4 DEF TypeOK, RenewLocked, RenewalTo, Phase, RenewalStep, RowFloor, TimersBounded
  <2>2. OwnerIdsUnique'
    BY <1>4 DEF TypeOK, OwnerIdsUnique, RenewLocked, RenewalTo, Phase
  <2>3. LiveLeaseIsRow'
    BY <1>4 DEF TypeOK, LiveLeaseIsRow, RenewLocked, RenewalTo, Working, Phase, OwnerIdsUnique, TimersBounded, RowFloor
  <2>4. RenewalFollowsPhase'
    BY <1>4 DEF TypeOK, RenewalFollowsPhase, RenewLocked, RenewalTo, Phase, Working
  <2>5. TimersBounded'
    BY <1>4 DEF TypeOK, TimersBounded, RenewLocked, RenewalTo, RenewalFollowsPhase, Working
  <2>6. LeaseAge'
    BY <1>4 DEF TypeOK, LeaseAge, RenewLocked, RenewalTo, StopAge, RetryDeadline, TimersBounded, RenewalFollowsPhase, Working
  <2>7. QED BY <2>1, <2>2, <2>3, <2>4, <2>5, <2>6
<1>5. CASE RenewFailed(p)
  <2>1. TypeOK'
    BY <1>5 DEF TypeOK, RenewFailed, RenewalEnds, RenewalTo, Enter, Phase, RenewalStep, RowFloor, TimersBounded
  <2>2. OwnerIdsUnique'
    BY <1>5 DEF TypeOK, OwnerIdsUnique, RenewFailed, RenewalEnds, RenewalTo, Enter, Phase
  <2>3. LiveLeaseIsRow'
    BY <1>5 DEF TypeOK, LiveLeaseIsRow, RenewFailed, RenewalEnds, RenewalTo, Enter, Working, Phase, OwnerIdsUnique, TimersBounded, RowFloor
  <2>4. RenewalFollowsPhase'
    BY <1>5 DEF TypeOK, RenewalFollowsPhase, RenewFailed, RenewalEnds, RenewalTo, Enter, Phase, Working
  <2>5. TimersBounded'
    BY <1>5 DEF TypeOK, TimersBounded, RenewFailed, RenewalEnds, RenewalTo, Enter, RenewalFollowsPhase, Working
  <2>6. LeaseAge'
    BY <1>5 DEF TypeOK, LeaseAge, RenewFailed, RenewalEnds, RenewalTo, Enter, StopAge, RetryDeadline, TimersBounded, RenewalFollowsPhase, Working
  <2>7. QED BY SMTT(30), <2>1, <2>2, <2>3, <2>4, <2>5, <2>6
<1>6. CASE RenewAgain(p)
  <2>1. TypeOK'
    BY <1>6 DEF TypeOK, RenewAgain, RenewalTo, Phase, RenewalStep, RowFloor, TimersBounded
  <2>2. OwnerIdsUnique'
    BY <1>6 DEF TypeOK, OwnerIdsUnique, RenewAgain, RenewalTo, Phase
  <2>3. LiveLeaseIsRow'
    BY <1>6 DEF TypeOK, LiveLeaseIsRow, RenewAgain, RenewalTo, Working, Phase, OwnerIdsUnique, TimersBounded, RowFloor
  <2>4. RenewalFollowsPhase'
    BY <1>6 DEF TypeOK, RenewalFollowsPhase, RenewAgain, RenewalTo, Phase, Working
  <2>5. TimersBounded'
    BY <1>6 DEF TypeOK, TimersBounded, RenewAgain, RenewalTo, RenewalFollowsPhase, Working
  <2>6. LeaseAge'
    BY <1>6 DEF TypeOK, LeaseAge, RenewAgain, RenewalTo, StopAge, RetryDeadline, TimersBounded, RenewalFollowsPhase, Working
  <2>7. QED BY <2>1, <2>2, <2>3, <2>4, <2>5, <2>6
<1>7. QED BY <1>1, <1>2, <1>3, <1>4, <1>5, <1>6 DEF Renew

\* Every step of the stop and restart path preserves the invariant.
LEMMA StopPreserves == ASSUME LeaseInv, NEW p \in Proc, Stop(p) PROVE LeaseInv'
<1> USE TimingAssumption, OwnerAssumption
<1> USE DEF LeaseInv
<1>1. CASE Shutdown(p)
  <2>1. TypeOK'
    BY <1>1 DEF TypeOK, Shutdown, Enter, RenewalTo, Phase, RenewalStep, RowFloor, TimersBounded
  <2>2. OwnerIdsUnique'
    BY <1>1 DEF TypeOK, OwnerIdsUnique, Shutdown, Enter, RenewalTo, Phase
  <2>3. LiveLeaseIsRow'
    BY <1>1 DEF TypeOK, LiveLeaseIsRow, Shutdown, Enter, RenewalTo, Working, Phase, OwnerIdsUnique, TimersBounded, RowFloor
  <2>4. RenewalFollowsPhase'
    BY <1>1 DEF TypeOK, RenewalFollowsPhase, Shutdown, Enter, RenewalTo, Phase, Working
  <2>5. TimersBounded'
    BY <1>1 DEF TypeOK, TimersBounded, Shutdown, Enter, RenewalTo, RenewalFollowsPhase, Working
  <2>6. LeaseAge'
    <3>1. phase[p] = "owned" => sinceGrant[p] <= StopAge
      BY DEF TypeOK, LeaseAge, StopAge, RetryDeadline, TimersBounded,
             RenewalFollowsPhase, RenewalStep
    <3>2. CASE phase[p] = "owned"
      BY <1>1, <3>1, <3>2
      DEF TypeOK, LeaseAge, Shutdown, Enter, RenewalTo, StopAge
    <3>3. CASE phase[p] # "owned"
      BY <1>1, <3>3 DEF TypeOK, LeaseAge, Shutdown
    <3>4. QED BY <3>2, <3>3
  <2>7. QED BY <2>1, <2>2, <2>3, <2>4, <2>5, <2>6
<1>2. CASE WorkerDone(p)
  <2>1. TypeOK'
    BY <1>2 DEF TypeOK, WorkerDone, Enter, RenewalTo, Phase, RenewalStep, RowFloor, TimersBounded
  <2>2. OwnerIdsUnique'
    BY <1>2 DEF TypeOK, OwnerIdsUnique, WorkerDone, Enter, Working
  <2>3. LiveLeaseIsRow'
    BY <1>2 DEF TypeOK, LiveLeaseIsRow, WorkerDone, Enter, RenewalTo, Working, Phase, OwnerIdsUnique, TimersBounded, RowFloor
  <2>4. RenewalFollowsPhase'
    BY <1>2 DEF TypeOK, RenewalFollowsPhase, WorkerDone, Enter, RenewalTo, Phase, Working
  <2>5. TimersBounded'
    BY <1>2 DEF TypeOK, TimersBounded, WorkerDone, Enter, RenewalTo, RenewalFollowsPhase, Working
  <2>6. LeaseAge'
    BY <1>2 DEF TypeOK, LeaseAge, WorkerDone, Enter, RenewalTo, StopAge, RetryDeadline, TimersBounded, RenewalFollowsPhase, Working
  <2>7. QED BY <2>1, <2>2, <2>3, <2>4, <2>5, <2>6
<1>3. CASE GraceTimeout(p)
  <2>1. TypeOK'
    BY <1>3 DEF TypeOK, GraceTimeout, Enter, Phase, RenewalStep, RowFloor, TimersBounded
  <2>2. OwnerIdsUnique'
    BY <1>3 DEF TypeOK, OwnerIdsUnique, GraceTimeout, Enter, Phase
  <2>3. LiveLeaseIsRow'
    BY <1>3 DEF TypeOK, LiveLeaseIsRow, GraceTimeout, Enter, Working, Phase, OwnerIdsUnique, TimersBounded, RowFloor
  <2>4. RenewalFollowsPhase'
    BY <1>3 DEF TypeOK, RenewalFollowsPhase, GraceTimeout, Enter, Phase, Working
  <2>5. TimersBounded'
    BY <1>3 DEF TypeOK, TimersBounded, GraceTimeout, Enter, RenewalFollowsPhase, Working
  <2>6. LeaseAge'
    BY <1>3 DEF TypeOK, LeaseAge, GraceTimeout, Enter, StopAge, RetryDeadline, TimersBounded, RenewalFollowsPhase, Working
  <2>7. QED BY <2>1, <2>2, <2>3, <2>4, <2>5, <2>6
<1>4. CASE ForceExit(p)
  <2>1. TypeOK'
    BY <1>4 DEF TypeOK, ForceExit, Gone, Enter, RenewalTo, Phase, RenewalStep, RowFloor, TimersBounded
  <2>2. OwnerIdsUnique'
    BY <1>4 DEF TypeOK, OwnerIdsUnique, ForceExit, Gone, Enter, RenewalTo, Phase
  <2>3. LiveLeaseIsRow'
    BY <1>4 DEF TypeOK, LiveLeaseIsRow, ForceExit, Gone, Enter, RenewalTo, Working, Phase, OwnerIdsUnique, TimersBounded, RowFloor
  <2>4. RenewalFollowsPhase'
    BY <1>4 DEF TypeOK, RenewalFollowsPhase, ForceExit, Gone, Enter, RenewalTo, Phase, Working
  <2>5. TimersBounded'
    BY <1>4 DEF TypeOK, TimersBounded, ForceExit, Gone, Enter, RenewalTo, RenewalFollowsPhase, Working
  <2>6. LeaseAge'
    BY <1>4 DEF TypeOK, LeaseAge, ForceExit, Gone, Enter, RenewalTo, StopAge, RetryDeadline, TimersBounded, RenewalFollowsPhase, Working
  <2>7. QED BY <2>1, <2>2, <2>3, <2>4, <2>5, <2>6
<1>5. CASE Crash(p)
  <2>1. TypeOK'
    BY <1>5 DEF TypeOK, Crash, Gone, Enter, RenewalTo, Phase, RenewalStep, RowFloor, TimersBounded
  <2>2. OwnerIdsUnique'
    BY <1>5 DEF TypeOK, OwnerIdsUnique, Crash, Gone, Enter, RenewalTo, Phase
  <2>3. LiveLeaseIsRow'
    BY <1>5 DEF TypeOK, LiveLeaseIsRow, Crash, Gone, Enter, RenewalTo, Working, Phase, OwnerIdsUnique, TimersBounded, RowFloor
  <2>4. RenewalFollowsPhase'
    BY <1>5 DEF TypeOK, RenewalFollowsPhase, Crash, Gone, Enter, RenewalTo, Phase, Working
  <2>5. TimersBounded'
    BY <1>5 DEF TypeOK, TimersBounded, Crash, Gone, Enter, RenewalTo, RenewalFollowsPhase, Working
  <2>6. LeaseAge'
    BY <1>5 DEF TypeOK, LeaseAge, Crash, Gone, Enter, RenewalTo, StopAge, RetryDeadline, TimersBounded, RenewalFollowsPhase, Working
  <2>7. QED BY <2>1, <2>2, <2>3, <2>4, <2>5, <2>6
<1>6. CASE Release(p)
  <2>1. TypeOK'
    BY <1>6 DEF TypeOK, Release, Enter, Phase, RenewalStep, RowFloor, TimersBounded
  <2>2. OwnerIdsUnique'
    BY <1>6 DEF TypeOK, OwnerIdsUnique, Release, Enter, Phase
  <2>3. LiveLeaseIsRow'
    BY <1>6 DEF TypeOK, LiveLeaseIsRow, Release, Enter, Working, Phase, OwnerIdsUnique, TimersBounded, RowFloor
  <2>4. RenewalFollowsPhase'
    BY <1>6 DEF TypeOK, RenewalFollowsPhase, Release, Enter, Phase, Working
  <2>5. TimersBounded'
    BY <1>6 DEF TypeOK, TimersBounded, Release, Enter, RenewalFollowsPhase, Working
  <2>6. LeaseAge'
    BY <1>6 DEF TypeOK, LeaseAge, Release, Enter, StopAge, RetryDeadline, TimersBounded, RenewalFollowsPhase, Working
  <2>7. QED BY <2>1, <2>2, <2>3, <2>4, <2>5, <2>6
<1>7. CASE Restart(p)
  <2>1. TypeOK'
    BY <1>7 DEF TypeOK, Restart, Enter, Phase, RenewalStep, RowFloor, TimersBounded
  <2>2. OwnerIdsUnique'
    BY <1>7 DEF TypeOK, OwnerIdsUnique, Restart, Enter, Phase
  <2>3. LiveLeaseIsRow'
    BY <1>7 DEF TypeOK, LiveLeaseIsRow, Restart, Enter, Working, Phase, OwnerIdsUnique, TimersBounded, RowFloor
  <2>4. RenewalFollowsPhase'
    BY <1>7 DEF TypeOK, RenewalFollowsPhase, Restart, Enter, Phase, Working
  <2>5. TimersBounded'
    BY <1>7 DEF TypeOK, TimersBounded, Restart, Enter, RenewalFollowsPhase, Working
  <2>6. LeaseAge'
    BY <1>7 DEF TypeOK, LeaseAge, Restart, Enter, StopAge, RetryDeadline, TimersBounded, RenewalFollowsPhase, Working
  <2>7. QED BY <2>1, <2>2, <2>3, <2>4, <2>5, <2>6
<1>8. QED BY <1>1, <1>2, <1>3, <1>4, <1>5, <1>6, <1>7 DEF Stop

\* Time passing preserves the invariant: Tick waits for every elapsed timeout.
LEMMA TickPreserves == ASSUME LeaseInv, Tick PROVE LeaseInv'
<1> USE TimingAssumption, OwnerAssumption
<1> USE DEF LeaseInv
<1>1. TypeOK'
  BY DEF TypeOK, Tick, Phase, RenewalStep, RowFloor
<1>2. OwnerIdsUnique'
  BY DEF OwnerIdsUnique, Tick
<1>3. LiveLeaseIsRow'
  BY DEF TypeOK, LiveLeaseIsRow, Tick, Working, RowFloor
<1>4. RenewalFollowsPhase'
  BY DEF RenewalFollowsPhase, Tick
<1>5. TimersBounded'
  BY DEF TypeOK, TimersBounded, Tick, MayWait, Timed
<1>6. LeaseAge'
  BY DEF TypeOK, LeaseAge, Tick, MayWait, Timed, Working, StopAge,
         RetryDeadline
<1>7. QED BY <1>1, <1>2, <1>3, <1>4, <1>5, <1>6

\* LeaseInv, and with it the type invariant, holds in every reachable state of
\* run_with_worker_lease.
THEOREM LeaseInvariance == Spec => []LeaseInv
<1>1. Init => LeaseInv
  BY TimingAssumption, OwnerAssumption
  DEF Init, LeaseInv, TypeOK, OwnerIdsUnique, LiveLeaseIsRow,
      RenewalFollowsPhase, TimersBounded, LeaseAge, Working, RowFloor, Phase,
      RenewalStep
<1>2. LeaseInv /\ [Next]_vars => LeaseInv'
  <2> SUFFICES ASSUME LeaseInv, [Next]_vars PROVE LeaseInv'
    OBVIOUS
  <2>1. CASE Tick
    BY <2>1, TickPreserves
  <2>2. ASSUME NEW p \in Proc, Acquire(p) PROVE LeaseInv'
    BY <2>2, AcquirePreserves
  <2>3. ASSUME NEW p \in Proc, Renew(p) PROVE LeaseInv'
    BY <2>3, RenewPreserves
  <2>4. ASSUME NEW p \in Proc, Stop(p) PROVE LeaseInv'
    BY <2>4, StopPreserves
  <2>5. CASE UNCHANGED vars
    BY <2>5 DEF vars, LeaseInv, TypeOK, OwnerIdsUnique, LiveLeaseIsRow,
                RenewalFollowsPhase, TimersBounded, LeaseAge, Working
  <2>6. QED BY <2>1, <2>2, <2>3, <2>4, <2>5 DEF Next
<1>3. QED BY <1>1, <1>2, PTL DEF Spec

\* Two processes never run the role's callback under leases that are both
\* unexpired.
THEOREM LeaseIsExclusive == Spec => []LeaseExclusive
<1>1. LeaseInv => LeaseExclusive
  BY TimingAssumption
  DEF LeaseInv, TypeOK, OwnerIdsUnique, LiveLeaseIsRow, LeaseExclusive, Working
<1>2. QED BY <1>1, LeaseInvariance, PTL

\* A callback is over at most MaxOverrun seconds after its lease ran out.
THEOREM OverrunIsBounded == Spec => []OverrunBounded
<1>1. LeaseInv => OverrunBounded
  <2> SUFFICES ASSUME LeaseInv, NEW p \in Proc, Working(p)
               PROVE sinceGrant[p] <= LeaseSeconds + MaxOverrun
    BY DEF OverrunBounded
  <2> USE TimingAssumption DEF LeaseInv, TypeOK, LeaseAge, TimersBounded,
          StopAge, RetryDeadline, MaxOverrun
  <2>1. CASE phase[p] = "owned"
    BY <2>1 DEF RenewalFollowsPhase, RenewalStep
  <2>2. CASE phase[p] = "grace"
    BY <2>2
  <2>3. CASE phase[p] = "cancel"
    BY <2>3
  <2>4. QED BY <2>1, <2>2, <2>3 DEF Working
<1>2. QED BY <1>1, LeaseInvariance, PTL

\* With timings whose stop path fits into the safety margin the role would be
\* exclusive; the constants of lease.py do not satisfy the hypothesis.
THEOREM ExclusiveIfStopFits ==
    ASSUME MaxOverrun <= 0 PROVE Spec => []RoleExclusive
<1>1. MaxOverrun \in Int
  BY TimingAssumption DEF MaxOverrun
<1>2. LeaseInv /\ LeaseExclusive /\ OverrunBounded => RoleExclusive
  BY <1>1, TimingAssumption
  DEF LeaseInv, TypeOK, LeaseExclusive, OverrunBounded, RoleExclusive
<1>3. QED BY <1>2, LeaseInvariance, LeaseIsExclusive, OverrunIsBounded, PTL

\* No step deletes or takes over the row of a running callback before its
\* lease has run out.
THEOREM LiveLeaseIsKept == Spec => LiveLeaseKept
<1> DEFINE Kept == \A p \in Proc :
                      Working(p) /\ rowOwner = ownerId[p] /\ rowOwner' # rowOwner
                          => rowLeft < 0
<1>1. LeaseInv /\ [Next]_vars => [Kept]_vars
  <2> SUFFICES ASSUME LeaseInv, Next, NEW q \in Proc, Working(q),
                      rowOwner = ownerId[q], rowOwner' # rowOwner
               PROVE rowLeft < 0
    BY DEF vars
  <2> USE DEF LeaseInv, TypeOK, OwnerIdsUnique, Working
  <2>1. CASE Tick
    BY <2>1 DEF Tick
  <2>2. ASSUME NEW p \in Proc, Acquire(p) PROVE rowLeft < 0
    BY <2>2 DEF Acquire, AcquireBegin, AcquireUpdate, AcquireInsert,
                AcquireReupdate, AcquireError, BackoffEnd, LeaveLoop, Grant,
                NotAcquired, ExpiredFor
  <2>3. ASSUME NEW p \in Proc, Renew(p) PROVE rowLeft < 0
    BY <2>3 DEF Renew, RenewWake, RenewOk, RenewLost, RenewLocked,
                RenewFailed, RenewAgain, RenewalEnds
  <2>4. ASSUME NEW p \in Proc, Stop(p) PROVE rowLeft < 0
    BY <2>4 DEF Stop, Shutdown, WorkerDone, GraceTimeout, ForceExit, Crash,
                Gone, Release, Restart
  <2>5. QED BY <2>1, <2>2, <2>3, <2>4 DEF Next
<1>2. QED BY <1>1, LeaseInvariance, PTL DEF Spec, LiveLeaseKept
============================================================================
