-------------------------- MODULE MemoryPublication --------------------------
(***************************************************************************)
(* What the memory jobs do: the service that accepts mutations of the      *)
(* long-term memory (app/core/memory/service_*.py), the handlers that      *)
(* carry them out (app/core/memory_jobs/handler_*.py, vector_cleanup.py),  *)
(* the record table (app/core/crud/memory/store_record_*.py) and the       *)
(* vector store (Chroma, external), for one user.                          *)
(*                                                                         *)
(* A publication writes its vector under an id of its own, and only then   *)
(* publishes the record's next version and ends its job in one transaction.*)
(* The vector store is outside every transaction.  Claims come and go as   *)
(* in JobLifecycle: the lease of a running job may be lost at any moment   *)
(* (MemoryJobQueue), and its handler goes on until its next checkpoint.    *)
(*                                                                         *)
(* A job is named by the request it goes back to and its generation: the   *)
(* request's own job is generation 0, the cleanup it leaves behind 1, a    *)
(* retried cleanup the one after.  A record is named by the request that   *)
(* creates it, a claim by its job and attempt_count (MemoryJobQueue shows  *)
(* that worker ids are as good as that), a vector item by what             *)
(* build_memory_staged_vector_item_id hashes.  Memory keys, contents, pins *)
(* and embedding migrations are left out.                                  *)
(***************************************************************************)
EXTENDS Naturals, FiniteSets

CONSTANTS
    Request,       \* mutations users and agents ask for
    None,          \* NULL
    MaxAttempts,   \* max_attempts of every job
    MaxActive,     \* MEMORY_MAX_ACTIVE_RECORDS and max_active_records
    MaxGeneration, \* bound on retried cleanups
    MaxTasks,      \* MEMORY_JOB_MAX_CONCURRENCY, of all consumers together
    MaxFaults      \* bound on errors, interruptions, lost claims and cancel requests

ASSUME PublicationAssumption ==
    /\ None \notin Request
    /\ MaxAttempts \in Nat \ {0}
    /\ MaxActive \in Nat \ {0}
    /\ MaxGeneration \in Nat \ {0}
    /\ MaxTasks \in Nat
    /\ MaxFaults \in Nat

VARIABLES
    job,     \* the job table
    cancels, \* jobs with cancel_requested_at set
    asking,  \* request_cancel calls that read memory_id as NULL
    record,  \* the record table
    items,   \* the vector store
    task,    \* the handler of each claim
    faults   \* how many of those there were

vars == <<job, cancels, asking, record, items, task, faults>>

Job == Request \X (0 .. MaxGeneration)
Claim == Job \X (1 .. MaxAttempts)
Item == Request \X Nat \X Claim

\* NULL is no id.
ASSUME NullAssumption == None \notin Job \cup Item

Publishing == {"create", "replace", "update"}
Cleaning == {"delete", "vector"}
Waiting == {"pending", "retry"}
Ended == {"succeeded", "failed", "cancelled"}

\* mem and version are memory_id and expected_version (of the candidate, for
\* a replacement), victim the eviction candidate, item the vector item the
\* payload names, staged the one in the result.
JobRow == [op : Publishing \cup Cleaning \cup {"none"},
           status : Waiting \cup Ended \cup {"absent", "running"},
           attempts : 0 .. MaxAttempts,
           mem : Request \cup {None}, version : Nat,
           victim : Request \cup {None},
           item : Item \cup {None}, staged : Item \cup {None}]

\* state abstracts is_active and deleted_at; hidden is suppressed_by_job_id.
RecordRow == [state : {"absent", "placeholder", "active", "deleted"},
              version : Nat, pending : Job \cup {None},
              item : Item \cup {None}, hidden : Job \cup {None}]

\* prev is the vector item the handler read while preparing, then what the
\* consumer does once the handler has undone its write.
Task == [step : {"none", "prepare", "stage", "upsert", "publish", "drop",
                 "erase", "finalize", "undo", "undoing",
                 "succeed", "fail", "retry", "cancel"},
         prev : Item \cup {None}, then : {"none", "fail", "retry", "cancel"}]

NoJob == [op |-> "none", status |-> "absent", attempts |-> 0, mem |-> None,
          version |-> 0, victim |-> None, item |-> None, staged |-> None]
NoRecord == [state |-> "absent", version |-> 0, pending |-> None,
             item |-> None, hidden |-> None]
NoTask == [step |-> "none", prev |-> None, then |-> "none"]

Init ==
    /\ job = [j \in Job |-> NoJob]
    /\ cancels = {}
    /\ asking = {}
    /\ record = [m \in Request |-> NoRecord]
    /\ items = {}
    /\ task = [c \in Claim |-> NoTask]
    /\ faults = 0

Live(j) == job[j].status \in Waiting \cup {"running"}
Active == {m \in Request : record[m].state = "active"}

\* count_pending_create; replacements are not counted.
PendingCreates == {j \in Job : job[j].op = "create" /\ Live(j)}
Occupied == Cardinality(Active) + Cardinality(PendingCreates)

\* The job that cleans up after j, or tries again what j failed to clean up.
Heir(j) == <<j[1], j[2] + 1>>

----------------------------------------------------------------------------
(* The memory service: each call is one transaction.                       *)

Enters(j, row) ==
    /\ job[j].status = "absent"
    /\ job' = [job EXCEPT ![j] = row]
    /\ UNCHANGED <<cancels, asking, items, task, faults>>

\* create, with room left.
Create(r) ==
    /\ Cardinality(Active) < MaxActive
    /\ Occupied < MaxActive
    /\ Enters(<<r, 0>>, [NoJob EXCEPT !.op = "create", !.status = "pending"])
    /\ UNCHANGED record

\* _eviction_candidate_conditions.
Evictable(m) ==
    /\ record[m].state = "active"
    /\ record[m].hidden = None
    /\ record[m].pending = None

\* create, at capacity: the candidate is reserved for the replacement.  Which
\* candidate get_eviction_candidate prefers is left open.
CreateWithEviction(r, m) ==
    /\ Cardinality(Active) = MaxActive
    /\ PendingCreates = {}
    /\ Evictable(m)
    /\ Enters(<<r, 0>>,
              [NoJob EXCEPT !.op = "replace", !.status = "pending", !.victim = m,
                            !.version = record[m].version, !.item = record[m].item])
    /\ record' = [record EXCEPT ![m].pending = <<r, 0>>]

\* update and delete take a record nobody has reserved, at its version.
Mutate(r, m, op, row) ==
    /\ record[m].state = "active"
    /\ record[m].pending = None
    /\ Enters(<<r, 0>>, [NoJob EXCEPT !.op = op, !.status = "pending", !.mem = m,
                                      !.version = record[m].version])
    /\ record' = [record EXCEPT ![m] = [row EXCEPT !.pending = <<r, 0>>]]

\* update, hiding the current version from recall if suppress_current.
Update(r, m) ==
    /\ Cardinality(Active) <= MaxActive
    /\ \/ Mutate(r, m, "update", record[m])
       \/ Mutate(r, m, "update", [record[m] EXCEPT !.hidden = <<r, 0>>])

\* delete: the record is a tombstone at once.
Delete(r, m) == Mutate(r, m, "delete", [record[m] EXCEPT !.state = "deleted"])

\* resume_current: a version hidden for an update that came to nothing.
Resume(m) ==
    /\ record[m].state = "active"
    /\ record[m].pending = None
    /\ record[m].hidden # None
    /\ job[record[m].hidden].status \in {"failed", "cancelled"}
    /\ record' = [record EXCEPT ![m].hidden = None]
    /\ UNCHANGED <<job, cancels, asking, items, task, faults>>

\* retry_delete_cleanup_job and retry_vector_cleanup_job: a failed cleanup is
\* taken up by a new job; a tombstone must still be there and unreserved.
RetryCleanup(j) ==
    LET m == job[j].mem IN
    /\ job[j].op \in Cleaning
    /\ job[j].status = "failed"
    /\ j[2] < MaxGeneration
    /\ Enters(Heir(j), [job[j] EXCEPT !.status = "pending", !.attempts = 0])
    /\ IF job[j].op = "delete"
       THEN /\ record[m].state = "deleted"
            /\ record[m].pending = None
            /\ record[m].version = job[j].version
            /\ record' = [record EXCEPT ![m].pending = Heir(j)]
       ELSE UNCHANGED record

----------------------------------------------------------------------------
(* The end of a job.                                                       *)

\* Mutant: an eviction candidate stays reserved.
ClearPendingPlaceholderOnly(j, mem, recs) ==
    [m \in Request |->
        IF recs[m].pending # j THEN recs[m]
        ELSE IF m = mem /\ job[j].op \in {"create", "replace"} THEN NoRecord
        ELSE IF m = mem THEN [recs[m] EXCEPT !.pending = None]
        ELSE recs[m]]

\* _clear_pending_mutation_job_reference, called with memory id mem: the
\* placeholder goes, a reserved record is free again.
ClearPending(j, mem, recs) ==
    [m \in Request |->
        IF recs[m].pending # j THEN recs[m]
        ELSE IF m = mem /\ job[j].op \in {"create", "replace"}
                /\ recs[m].state = "placeholder" THEN NoRecord
        ELSE IF job[j].op # "create" /\ m \in {job[j].victim, mem}
             THEN [recs[m] EXCEPT !.pending = None]
        ELSE recs[m]]

\* The job that is to remove vector item i.
VectorCleanup(i) == [NoJob EXCEPT !.op = "vector", !.status = "pending", !.item = i]

\* Job j ends with status s.  Failed or cancelled with a staged vector, it
\* leaves a cleanup job (finalize_staged_vector_terminal_state).
EndsAs(j, s) ==
    [k \in Job |->
        IF k = j THEN [job[j] EXCEPT !.status = s]
        ELSE IF k = Heir(j) /\ s \in {"failed", "cancelled"}
                /\ job[j].op \in Publishing /\ job[j].staged # None
             THEN VectorCleanup(job[j].staged)
        ELSE job[k]]

\* Something goes wrong, or is cancelled.
Fault == faults < MaxFaults /\ faults' = faults + 1

\* What becomes of a job whose claim is lost.
OnLoss(j) ==
    IF j \in cancels THEN "cancelled"
    ELSE IF job[j].attempts >= MaxAttempts THEN "failed"
    ELSE "retry"

\* The claim of job j comes to nothing: recover_expired and
\* release_claim_for_shutdown.
Lose(j) ==
    LET next == OnLoss(j) IN
    /\ Fault
    /\ job[j].status = "running"
    /\ job' = EndsAs(j, next)
    /\ record' = IF next = "retry" THEN record ELSE ClearPending(j, job[j].mem, record)
    /\ UNCHANGED <<cancels, asking, items, task>>

\* request_cancel: the SELECT finds a job whose memory_id is not set yet.
AskCancel(j) ==
    /\ Fault
    /\ job[j].op \in Publishing
    /\ Live(j)
    /\ job[j].mem = None
    /\ asking' = asking \cup {j}
    /\ UNCHANGED <<job, cancels, record, items, task>>

\* request_cancel: the UPDATEs, with the memory id the SELECT found.  A waiting
\* job is cancelled, a running one flagged.  Once set, memory_id stays, so a
\* SELECT that found it may be taken together with the UPDATE.
Cancel(j) ==
    /\ IF j \in asking THEN UNCHANGED faults ELSE Fault
    /\ job[j].op \in Publishing
    /\ asking' = asking \ {j}
    /\ \/ /\ job[j].status \in Waiting
          /\ job' = EndsAs(j, "cancelled")
          /\ \/ record' = ClearPending(j, job[j].mem, record)
             \/ j \in asking /\ record' = ClearPending(j, None, record)
          /\ UNCHANGED cancels
       \/ /\ job[j].status = "running"
          /\ j \notin cancels
          /\ cancels' = cancels \cup {j}
          /\ UNCHANGED <<job, record>>
    /\ UNCHANGED <<items, task>>

\* request_cancel: the job has ended in the meantime.
CancelTooLate(j) ==
    /\ j \in asking
    /\ job[j].status \in Ended
    /\ asking' = asking \ {j}
    /\ UNCHANGED <<job, cancels, record, items, task, faults>>

----------------------------------------------------------------------------
(* The handlers.                                                           *)

\* try_claim, and the handler begins.
Claims(j) ==
    /\ job[j].status \in Waiting
    /\ Cardinality({c \in Claim : task[c].step # "none"}) < MaxTasks
    /\ job' = [job EXCEPT ![j].status = "running", ![j].attempts = @ + 1]
    /\ task' = [task EXCEPT ![<<j, job[j].attempts + 1>>] =
                    [NoTask EXCEPT !.step = "prepare"]]
    /\ UNCHANGED <<cancels, asking, record, items, faults>>

\* Mutant: the worker id is not compared.
HoldsAnyClaim(c) == job[c[1]].status = "running"

\* get_active_claim.
Holds(c) == job[c[1]].status = "running" /\ job[c[1]].attempts = c[2]

\* get_active_claim without a cancel request.
Valid(c) == Holds(c) /\ c[1] \notin cancels

Goes(c, step) == task' = [task EXCEPT ![c].step = step]
Done(c) == task' = [task EXCEPT ![c] = NoTask]

\* The handler raises and the consumer will do what then says.  A vector
\* that may have been written is undone first (the finally block).
Raise(c, then) ==
    task' = [task EXCEPT ![c] =
        IF task[c].step \in {"upsert", "publish"} /\ job[c[1]].op \in Publishing
        THEN [@ EXCEPT !.step = "undo", !.then = then]
        ELSE [NoTask EXCEPT !.step = then]]

\* build_memory_staged_vector_item_id.
VectorItem(c) ==
    LET j == c[1]
        v == IF job[j].op = "update" THEN job[j].version + 1 ELSE 1
    IN <<job[j].mem, v, c>>

\* checkpoint raises: the claim is lost, or a cancel request has come.
Checkpoint(c) ==
    /\ task[c].step \in {"prepare", "stage", "publish", "erase", "finalize", "succeed"}
    /\ ~Valid(c)
    /\ Raise(c, IF Holds(c) THEN "cancel" ELSE "none")
    /\ UNCHANGED <<job, cancels, asking, record, items, faults>>

\* An external call or a transaction fails.  A deterministic error ends the
\* job, any other is retried while attempts are left.
Errs(c) ==
    /\ Fault
    /\ task[c].step \in {"prepare", "stage", "upsert", "publish", "erase", "finalize"}
    /\ \/ Raise(c, "fail")
       \/ c[2] < MaxAttempts /\ Raise(c, "retry")
    /\ UNCHANGED <<job, cancels, asking, record, items>>

\* The task is cancelled (stop, a refused renewal), or its process dies.
Interrupted(c) ==
    /\ Fault
    /\ task[c].step # "none"
    /\ \/ task[c].step \notin {"undo", "undoing"} /\ Raise(c, "none")
       \/ Done(c)
    /\ UNCHANGED <<job, cancels, asking, record, items>>

\* Is the record of a publication as the job expects it?
Reserved(j) ==
    LET m == job[j].mem
        victim == job[j].victim
    IN
    /\ m # None
    /\ record[m].pending = j
    /\ CASE job[j].op = "update" ->
              record[m].state = "active" /\ record[m].version = job[j].version
         [] OTHER -> record[m].state = "placeholder"
    /\ job[j].op = "replace" =>
          /\ record[victim].state = "active"
          /\ record[victim].hidden = None
          /\ record[victim].version = job[j].version
          /\ record[victim].item = job[j].item
          /\ record[victim].pending = j

\* _validate_publication_capacity and _validate_replacement_capacity.
HasRoom(j) ==
    /\ Cardinality(Active) <= MaxActive
    /\ job[j].op = "create" =>
          Cardinality(Active) < MaxActive /\ Occupied <= MaxActive
    /\ job[j].op = "replace" =>
          Cardinality(Active) = MaxActive /\ PendingCreates = {}

\* _prepare_publication and _prepare_replacement.  The first attempt of a
\* create inserts the placeholder and notes its id in the job.
Prepare(c) ==
    LET j == c[1]
        fresh == job[j].op # "update" /\ job[j].mem = None
        m == IF fresh THEN j[1] ELSE job[j].mem
    IN
    /\ task[c].step = "prepare"
    /\ job[j].op \in Publishing
    /\ Valid(c)
    /\ IF HasRoom(j) /\ (fresh \/ Reserved(j))
       THEN /\ task' = [task EXCEPT ![c].step = "stage", ![c].prev = record[m].item]
            /\ job' = [job EXCEPT ![j].mem = m]
            /\ record' = IF fresh
                         THEN [record EXCEPT ![m] =
                                  [NoRecord EXCEPT !.state = "placeholder", !.pending = j]]
                         ELSE record
       ELSE Raise(c, "fail") /\ UNCHANGED <<job, record>>
    /\ UNCHANGED <<cancels, asking, items, faults>>

\* persist_staged_vector_reference, after the collection and the embedding.
Stage(c) ==
    /\ task[c].step = "stage"
    /\ Valid(c)
    /\ job' = [job EXCEPT ![c[1]].staged = VectorItem(c)]
    /\ Goes(c, "upsert")
    /\ UNCHANGED <<cancels, asking, record, items, faults>>

\* The vector is written, whoever holds the job by now; the call may report
\* an error all the same.
Upsert(c) ==
    /\ task[c].step = "upsert"
    /\ items' = items \cup {VectorItem(c)}
    /\ Goes(c, "publish") \/ Raise(c, IF c[2] < MaxAttempts THEN "retry" ELSE "fail")
    /\ UNCHANGED <<job, cancels, asking, record, faults>>

\* Mutant: suppress_recall is left as it was.
PublishedStillHidden(c) ==
    [state |-> "active", version |-> VectorItem(c)[2], pending |-> None,
     item |-> VectorItem(c), hidden |-> record[job[c[1]].mem].hidden]

\* publish_pending_version: the record's next version.
Published(c) ==
    [state |-> "active", version |-> VectorItem(c)[2], pending |-> None,
     item |-> VectorItem(c), hidden |-> None]

\* Mutant: the superseded vector is left to the best-effort delete.
HeirOfEvictionOnly(c) ==
    LET j == c[1] IN
    IF job[j].op # "replace" THEN job[Heir(j)]
    ELSE [NoJob EXCEPT !.op = "delete", !.status = "pending",
                       !.mem = job[j].victim, !.version = job[j].version]

\* The cleanup job a publication leaves: the victim's (create_eviction_
\* cleanup_job), or the superseded vector's.
HeirOfPublication(c) ==
    LET j == c[1] IN
    IF job[j].op = "replace"
    THEN [NoJob EXCEPT !.op = "delete", !.status = "pending",
                       !.mem = job[j].victim, !.version = job[j].version]
    ELSE IF task[c].prev \notin {None, VectorItem(c)} THEN VectorCleanup(task[c].prev)
    ELSE job[Heir(j)]

\* Mutant: the victim stays in use.
RecordsAfterKeepVictim(c) == [record EXCEPT ![job[c[1]].mem] = Published(c)]

\* The records after publication: a victim becomes a tombstone and passes to
\* its cleanup job.
RecordsAfter(c) ==
    [m \in Request |->
        IF m = job[c[1]].mem THEN Published(c)
        ELSE IF m = job[c[1]].victim
        THEN [record[m] EXCEPT !.state = "deleted", !.pending = Heir(c[1])]
        ELSE record[m]]

\* _publish_version and _publish_replacement, one transaction with
\* mark_succeeded.  A cancellation of the task that arrives during the commit
\* leaves published = False, so that the finally block runs.
Publish(c) ==
    LET j == c[1] IN
    /\ task[c].step = "publish"
    /\ Valid(c)
    /\ IF HasRoom(j) /\ Reserved(j)
       THEN /\ job' = [job EXCEPT ![j].status = "succeeded",
                                  ![Heir(j)] = HeirOfPublication(c)]
            /\ record' = RecordsAfter(c)
            /\ \/ Raise(c, "none")
               \/ IF job[j].op # "replace" /\ task[c].prev \notin {None, VectorItem(c)}
                  THEN Goes(c, "drop") ELSE Done(c)
       ELSE Raise(c, "fail") /\ UNCHANGED <<job, record>>
    /\ UNCHANGED <<cancels, asking, items, faults>>

\* The best-effort delete of the superseded vector, or its failure.
Drop(c) ==
    /\ task[c].step = "drop"
    /\ items' \in {items, items \ {task[c].prev}}
    /\ Done(c)
    /\ UNCHANGED <<job, cancels, asking, record, faults>>

\* Mutant: the vector is deleted whatever became of the job.
MayUndoAnyway(c) == TRUE

\* _best_effort_delete_item with a context: only while the claim is held.
MayUndo(c) == Holds(c)

\* The finally block, up to the decision.
Undo(c) ==
    /\ task[c].step = "undo"
    /\ Goes(c, IF MayUndo(c) THEN "undoing" ELSE task[c].then)
    /\ UNCHANGED <<job, cancels, asking, record, items, faults>>

\* The finally block: the delete, or its failure.
Undoing(c) ==
    /\ task[c].step = "undoing"
    /\ items' \in {items, items \ {VectorItem(c)}}
    /\ Goes(c, task[c].then)
    /\ UNCHANGED <<job, cancels, asking, record, faults>>

\* _prepare_delete_cleanup; the state _finalize_delete_cleanup asks for too.
Tombstoned(j) ==
    LET m == job[j].mem IN
    /\ record[m].state = "deleted"
    /\ record[m].pending = j
    /\ record[m].version = job[j].version

\* A cleanup begins: what is to be erased.
PrepareCleanup(c) ==
    LET j == c[1] IN
    /\ task[c].step = "prepare"
    /\ job[j].op \in Cleaning
    /\ Valid(c)
    /\ IF job[j].op = "vector"
       THEN task' = [task EXCEPT ![c].step = "erase", ![c].prev = job[j].item]
       ELSE IF Tombstoned(j)
       THEN task' = [task EXCEPT ![c].step = "erase", ![c].prev = record[job[j].mem].item]
       ELSE Raise(c, "fail")
    /\ UNCHANGED <<job, cancels, asking, record, items, faults>>

\* The vector goes, whoever holds the job by now.
Erase(c) ==
    /\ task[c].step = "erase"
    /\ items' = items \ {task[c].prev}
    /\ Goes(c, IF job[c[1]].op = "vector" THEN "succeed" ELSE "finalize")
    /\ UNCHANGED <<job, cancels, asking, record, faults>>

\* _finalize_delete_cleanup: the tombstone goes with the job's success.
Finalize(c) ==
    LET j == c[1] IN
    /\ task[c].step = "finalize"
    /\ Valid(c)
    /\ IF Tombstoned(j)
       THEN /\ job' = [job EXCEPT ![j].status = "succeeded"]
            /\ record' = [record EXCEPT ![job[j].mem] = NoRecord]
            /\ Done(c)
       ELSE Raise(c, "fail") /\ UNCHANGED <<job, record>>
    /\ UNCHANGED <<cancels, asking, items, faults>>

\* The consumer records the outcome: _mark_succeeded, _mark_failed,
\* _release_for_retry; refused, it goes on to _mark_cancelled.
Outcome == [succeed |-> "succeeded", fail |-> "failed", retry |-> "retry",
            cancel |-> "cancelled"]
Mark(c) ==
    LET j == c[1]
        step == task[c].step
    IN
    /\ step \in DOMAIN Outcome
    /\ IF Valid(c) \/ (step = "cancel" /\ Holds(c))
       THEN /\ job' = EndsAs(j, Outcome[step])
            /\ record' = IF step = "retry" THEN record
                         ELSE ClearPending(j, job[j].mem, record)
            /\ Done(c)
       ELSE /\ IF step = "cancel" THEN Done(c) ELSE Goes(c, "cancel")
            /\ UNCHANGED <<job, record>>
    /\ UNCHANGED <<cancels, asking, items, faults>>

Next ==
    \/ \E r \in Request :
          \/ Create(r)
          \/ Resume(r)
          \/ \E m \in Request : CreateWithEviction(r, m) \/ Update(r, m) \/ Delete(r, m)
    \/ \E j \in Job : RetryCleanup(j) \/ Claims(j) \/ Lose(j)
                         \/ AskCancel(j) \/ Cancel(j) \/ CancelTooLate(j)
    \/ \E c \in Claim :
          \/ Checkpoint(c) \/ Errs(c) \/ Interrupted(c)
          \/ Prepare(c) \/ Stage(c) \/ Upsert(c) \/ Publish(c) \/ Drop(c)
          \/ Undo(c) \/ Undoing(c)
          \/ PrepareCleanup(c) \/ Erase(c) \/ Finalize(c)
          \/ Mark(c)

Spec == Init /\ [][Next]_vars

----------------------------------------------------------------------------
(* Properties.                                                             *)

\* The tables have their types.
TypeOK ==
    /\ job \in [Job -> JobRow]
    /\ cancels \subseteq Job
    /\ asking \subseteq Job
    /\ record \in [Request -> RecordRow]
    /\ items \subseteq Item
    /\ task \in [Claim -> Task]
    /\ faults \in 0 .. MaxFaults

\* A memory that can be recalled has its vector in the store: neither the
\* finally block of a publication whose commit was interrupted, nor a zombie
\* that undoes its write, nor a late cleanup ever removes it
\* (handler_execution.py, handler_vector.py, vector_cleanup.py).
PublishedItemIsStored ==
    \A m \in Active : record[m].item \in items

\* A version is published by the claim that holds the job the record is
\* reserved for, and by no zombie: it is the next one, and its vector is the
\* one that very claim wrote (_publish_version, publish_pending_version).
PublishedByItsClaim ==
    [][\A m \in Request :
          record'[m].state = "active" /\ record'[m].version # record[m].version =>
              LET j == record[m].pending IN
              /\ record'[m].version = record[m].version + 1
              /\ job[j].status = "running" /\ job'[j].status = "succeeded"
              /\ j \notin cancels
              /\ record'[m].item[3] = <<j, job[j].attempts>>]_vars

\* A job that is to change a record holds it, at the version it was
\* submitted for, until it ends, and a record with a version is held by no
\* job that has ended: otherwise nobody could ever change the memory again
\* (reserve_pending_mutation, reserve_eviction_candidate,
\* transfer_eviction_candidate_to_cleanup, _clear_pending_mutation_job_
\* reference).
ReservationIsMutual ==
    /\ \A j \in Job : Live(j) /\ job[j].op \in {"update", "delete", "replace"} =>
          LET m == IF job[j].op = "replace" THEN job[j].victim ELSE job[j].mem IN
          record[m].pending = j /\ record[m].version = job[j].version
    /\ \A m \in Request : record[m].version > 0 /\ record[m].pending # None =>
          Live(record[m].pending)

\* No interleaving of creates, replacements and deletes gets past the limit,
\* although a replacement is not counted as a pending create
\* (load_memory_capacity_snapshot).
CapacityKept == Cardinality(Active) <= MaxActive

\* A memory is hidden from recall only for an update that is still to come
\* or that failed or was cancelled: resume_current can always lift it.
HiddenCanBeLifted ==
    \A m \in Active : record[m].hidden # None =>
        \/ record[m].pending = record[m].hidden
        \/ job[record[m].hidden].status \in {"failed", "cancelled"}

\* A vector that was published and is not a record's any more is gone, or
\* some job is left to remove it (create_superseded_vector_cleanup_job,
\* _handle_delete_cleanup).  Vectors that never got published have no such
\* guarantee: see the README.
SupersededIsCollected ==
    \A i \in items :
        LET j == i[3][1] IN
        job[j].status = "succeeded" /\ job[j].attempts = i[3][2]
        /\ record[i[1]].item # i =>
            \E k \in Job : /\ job[k].op = "vector"
                           /\ job[k].item = i
                           /\ job[k].status \notin {"absent", "succeeded"}

\* "assert old_placeholder is None" for a cancelled create
\* (tests/integration/test_memory_capacity_reservation.py).
NoStrandedPlaceholder ==
    \A m \in Request : record[m].state = "placeholder" => Live(record[m].pending)
=============================================================================
