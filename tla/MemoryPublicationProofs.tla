------------------------ MODULE MemoryPublicationProofs ------------------------
(***************************************************************************)
(* Proofs about MemoryPublication, for any number of requests, attempts,   *)
(* generations of cleanups, handlers and faults and for any capacity.      *)
(***************************************************************************)
EXTENDS MemoryPublication, FiniteSetTheorems, TLAPS

(* The inductive invariant *)

\* A job that comes to an end with a success, and the claim that brought it there.
Succeeded(c) == job[c[1]].status = "succeeded" /\ job[c[1]].attempts = c[2]

\* An item no memory uses and no publication can bring back.
Dead(i) ==
    /\ i \in Item
    /\ job[i[3][1]].status \in Ended
    /\ \A m \in Active : record[m].item # i

\* The record that a job changes or removes, and not the one that it creates.
Target(j) == IF job[j].op = "replace" THEN job[j].victim ELSE job[j].mem

\* A live job that changes a record has reserved it.
Reserves(j) ==
    /\ record[Target(j)].pending = j
    /\ record[Target(j)].version = job[j].version
    /\ record[Target(j)].state = IF job[j].op = "delete" THEN "deleted" ELSE "active"

JobFit(j) ==
    /\ job[j].op = "none" <=> job[j].status = "absent"
    /\ job[j].status = "absent" => job[j] = NoJob
    /\ job[j].op \in Publishing => j[2] = 0
    /\ Heir(j) \in Job /\ job[j].status \notin Ended => job[Heir(j)].status = "absent"
    /\ job[j].status \in Waiting => job[j].attempts < MaxAttempts
    /\ job[j].op \in {"update", "delete"} => job[j].mem \in Request
    /\ job[j].op \in {"create", "replace"} => job[j].mem \in {None, j[1]}
    /\ IF job[j].op = "replace" THEN job[j].victim \in Request ELSE job[j].victim = None
    /\ job[j].op = "vector" => Dead(job[j].item)
    /\ job[j].staged # None => job[j].op \in Publishing /\ job[j].staged \in Item /\ job[j].staged[3][1] = j
    /\ Live(j) /\ job[j].op \in {"update", "delete", "replace"} => Reserves(j)

RecordFit(m) ==
    /\ record[m].state = "absent" => record[m] = NoRecord
    /\ record[m].state = "placeholder" =>
        /\ record[m].version = 0 /\ record[m].item = None
        /\ record[m].pending \in Job
        /\ job[record[m].pending].op \in {"create", "replace"} /\ job[record[m].pending].mem = m
    /\ record[m].state \in {"active", "deleted"} =>
        /\ record[m].version > 0
        /\ record[m].item \in Item /\ record[m].item[1] = m /\ Succeeded(record[m].item[3])
    /\ record[m].state \in {"active", "deleted"} /\ record[m].pending # None =>
        /\ Live(record[m].pending) /\ Target(record[m].pending) = m
        /\ job[record[m].pending].op \in
                IF record[m].state = "deleted" THEN {"delete"} ELSE {"update", "replace"}
    /\ record[m].state # "absent" =>
        /\ job[<<m, 0>>].op \in {"create", "replace"} /\ job[<<m, 0>>].mem = m
        /\ record[m].state # "placeholder" => job[<<m, 0>>].status = "succeeded"
    /\ record[m].state = "active" /\ record[m].hidden # None =>
        \/ record[m].pending = record[m].hidden
        \/ job[record[m].hidden].status \in {"failed", "cancelled"}

TablesFit ==
    /\ \A j \in Job : JobFit(j)
    /\ \A m \in Request : RecordFit(m)
    /\ \A j \in asking : job[j].op \in {"create", "replace"}
    /\ IsFiniteSet(Active) /\ Cardinality(Active) <= MaxActive

\* What the handler of a claim knows, and what it may still do.
TaskFit(c) ==
    LET j == c[1]
        step == task[c].step
        prev == task[c].prev
    IN
    /\ step # "none" => job[j].status # "absent" /\ c[2] <= job[j].attempts
    /\ step \in {"stage", "upsert", "publish", "undo", "undoing", "drop"} =>
            job[j].op \in Publishing /\ job[j].mem # None
    /\ Succeeded(c) =>
            step \notin {"prepare", "stage", "upsert", "publish", "undoing", "erase", "finalize", "succeed"}
    /\ step = "publish" /\ Holds(c) => VectorItem(c) \in items
    /\ step \in {"stage", "upsert", "publish"} /\ prev # None =>
            prev \in Item /\ prev[1] = job[j].mem /\ Succeeded(prev[3])
    /\ step \in {"stage", "upsert", "publish"} /\ Holds(c) => prev = record[job[j].mem].item
    /\ step \in {"drop", "erase", "finalize", "succeed"} => Dead(prev)
    /\ step = "erase" => job[j].op \in Cleaning
    /\ step = "finalize" => job[j].op = "delete"
    /\ step = "succeed" => job[j].op = "vector"
    /\ step \in {"erase", "finalize"} /\ job[j].op = "delete" /\ Holds(c) => prev = record[job[j].mem].item
    /\ step \in {"erase", "succeed"} /\ job[j].op = "vector" => prev = job[j].item
    /\ step \in {"finalize", "succeed"} /\ Succeeded(prev[3]) => prev \notin items
    /\ step = "retry" \/ task[c].then = "retry" => c[2] < MaxAttempts

\* The store has the vectors that the claims write, and those that memories need.
ItemsFit ==
    /\ \A i \in items : i = VectorItem(i[3]) /\ job[i[3][1]].op \in Publishing /\ job[i[3][1]].mem # None
    /\ PublishedItemIsStored
    /\ SupersededIsCollected
    /\ \A j \in Job : job[j].op = "vector" /\ job[j].status = "succeeded" /\ Succeeded(job[j].item[3]) =>
            job[j].item \notin items

PublicationInv ==
    /\ TypeOK
    /\ TablesFit
    /\ \A c \in Claim : TaskFit(c)
    /\ ItemsFit

-----------------------------------------------------------------------------
(* Names of jobs and claims *)

LEMMA JobNames ==
    ASSUME NEW j \in Job
    PROVE  /\ j = <<j[1], j[2]>> /\ j[1] \in Request /\ j[2] \in Nat
           /\ Heir(j) # j
           /\ \A k \in Job : Heir(k) = Heir(j) => k = j
           /\ Heir(j)[2] # 0
           /\ \A m \in Request : <<m, 0>> \in Job /\ Heir(<<m, 0>>) \in Job
BY PublicationAssumption DEF Job, Heir

LEMMA OwnJob == \A m \in Request : <<m, 0>> \in Job
BY PublicationAssumption DEF Job

LEMMA ClaimNames ==
    ASSUME NEW c \in Claim
    PROVE  c = <<c[1], c[2]>> /\ c[1] \in Job /\ c[2] \in 1 .. MaxAttempts
BY DEF Claim

LEMMA ItemNames ==
    ASSUME NEW i \in Item
    PROVE  i = <<i[1], i[2], i[3]>> /\ i[1] \in Request /\ i[2] \in Nat /\ i[3] \in Claim
BY DEF Item

\* NULL is no id.
LEMMA Kinds == None \notin Request /\ None \notin Job /\ None \notin Item
BY PublicationAssumption, NullAssumption

-----------------------------------------------------------------------------
(* What a step does *)

\* A job goes on: it keeps what it is about, and what is over stays over.
Onward(k) ==
    /\ job[k].status = "absent" => job'[k].status \in {"absent", "pending"}
    /\ job[k].status \in Ended => job'[k] = job[k]
    /\ job[k].status # "absent" =>
        /\ job'[k].status # "absent"
        /\ job'[k].op = job[k].op /\ job'[k].victim = job[k].victim
        /\ job'[k].version = job[k].version /\ job'[k].item = job[k].item
        /\ job'[k].mem = job[k].mem \/ (job[k].mem = None /\ job[k].op \in {"create", "replace"})
        /\ job'[k].attempts \in {job[k].attempts, job[k].attempts + 1}
    /\ job'[k].status = "running" =>
        \/ job[k].status = "running" /\ job'[k].attempts = job[k].attempts
        \/ job'[k].attempts = job[k].attempts + 1

\* The step is about job j: it changes no other job, but for the cleanup that j may leave
\* when it ends, and no record that is reserved for another job.
About(j) ==
    /\ \A k \in Job : k \notin {j, Heir(j)} => job'[k] = job[k]
    /\ Heir(j) \in Job =>
        \/ job'[Heir(j)] = job[Heir(j)]
        \/ job[Heir(j)].status = "absent" /\ job'[Heir(j)].status = "pending" /\ job'[j].status \in Ended
    /\ job[j].status = "absent" => j[2] = 0
    /\ Onward(j)
    /\ \A m \in Request : record'[m] = record[m] \/ record[m].pending \in {None, j}

JobsGo == \A k \in Job : Onward(k)

LEMMA AboutGoes ==
    ASSUME NEW j \in Job, About(j), job \in [Job -> JobRow]
    PROVE  JobsGo
<1> SUFFICES ASSUME NEW k \in Job PROVE Onward(k)
  BY DEF JobsGo
<1>1. CASE k = j
  BY <1>1 DEF About
<1>2. CASE k # j /\ job'[k] = job[k]
  BY <1>2 DEF Onward, JobRow
<1>3. CASE k = Heir(j) /\ job[k].status = "absent" /\ job'[k].status = "pending"
  BY <1>3 DEF Onward, Ended
<1> QED BY <1>1, <1>2, <1>3 DEF About

\* What the claims C, if any, do to the records, the store and the fate of their jobs.
RecordsGo(C) ==
    \A m \in Request :
        \/ record'[m].item = record[m].item /\ (record'[m].state = "active" => record[m].state = "active")
        \/ \E c \in C :
            /\ Holds(c) /\ record[m].pending = c[1] /\ job[c[1]].mem = m
            /\ \/ /\ job[c[1]].op = "delete" /\ task[c].step = "finalize"
                  /\ record[m].state = "deleted" /\ record'[m] = NoRecord
               \/ /\ job[c[1]].op \in Publishing /\ task[c].step = "publish"
                  /\ record'[m].item = VectorItem(c)
                  /\ record[m].item # None => job'[Heir(c[1])] = VectorCleanup(record[m].item)

ItemsGo(C) ==
    /\ \A i \in items' : i \in items \/ \E c \in C : i = VectorItem(c) /\ task[c].step = "upsert"
    /\ \A i \in items : i \in items' \/ Dead(i) \/ \E c \in C : i = VectorItem(c) /\ task[c].step = "undoing"

Succeeds(C) ==
    \A k \in Job :
        job'[k].status = "succeeded" /\ job[k].status # "succeeded" =>
            \E c \in C :
                /\ c[1] = k /\ Holds(c) /\ job'[k].attempts = job[k].attempts
                /\ job[k].op = "vector" => task[c].step = "succeed"
                /\ job[k].op \in Publishing => task[c].step = "publish" /\ record'[job[k].mem].item = VectorItem(c)

\* Nobody but the handlers of C takes part in the step.
Step(C) == JobsGo /\ RecordsGo(C) /\ ItemsGo(C) /\ Succeeds(C)

LEMMA SucceededStays ==
    ASSUME NEW c, c[1] \in Job, JobsGo, Succeeded(c)
    PROVE  Succeeded(c)'
BY DEF Succeeded, JobsGo, Onward, Ended

\* A claim succeeds in a step of its own only.
LEMMA SucceedsAlone ==
    ASSUME NEW C, NEW c \in Claim, C \subseteq Claim, Succeeds(C), JobsGo, Succeeded(c)', ~Succeeded(c), job \in [Job -> JobRow]
    PROVE  c \in C
<1>1. c[1] \in Job /\ c = <<c[1], c[2]>>
  BY ClaimNames
<1>2. job'[c[1]].status = "succeeded" /\ job'[c[1]].attempts = c[2]
  BY DEF Succeeded
<1>3. job[c[1]].status # "succeeded"
  BY <1>1, <1>2 DEF JobsGo, Onward, Ended, Succeeded
<1>4. PICK d \in C : d[1] = c[1] /\ Holds(d) /\ job'[c[1]].attempts = job[c[1]].attempts
  BY <1>1, <1>2, <1>3 DEF Succeeds
<1>5. d = <<d[1], d[2]>> /\ d[2] = c[2]
  BY <1>2, <1>4, ClaimNames DEF Holds
<1> QED BY <1>1, <1>4, <1>5

\* A claim that is held was held, unless its handler begins with the step.
LEMMA HeldBefore ==
    ASSUME NEW c \in Claim, JobsGo, job \in [Job -> JobRow], c[2] <= job[c[1]].attempts, Holds(c)'
    PROVE  Holds(c)
<1>1. c[1] \in Job /\ c[2] \in Nat
  BY ClaimNames
<1>2. job[c[1]].attempts \in Nat
  BY <1>1 DEF JobRow
<1> QED BY <1>1, <1>2 DEF Holds, JobsGo, Onward

\* The name of a vector is settled with the record of its job.
LEMMA NameStays ==
    ASSUME NEW c \in Claim, JobsGo, job[c[1]].status # "absent", job[c[1]].mem # None
    PROVE  VectorItem(c)' = VectorItem(c)
<1>1. c[1] \in Job
  BY ClaimNames
<1>2. job'[c[1]].op = job[c[1]].op /\ job'[c[1]].version = job[c[1]].version /\ job'[c[1]].mem = job[c[1]].mem
  BY <1>1 DEF JobsGo, Onward
<1> QED BY <1>2 DEF VectorItem

LEMMA OneHolder ==
    ASSUME NEW c \in Claim, NEW d \in Claim, Holds(c), Holds(d), c[1] = d[1]
    PROVE  c = d
BY ClaimNames DEF Holds

LEMMA DeadStays ==
    ASSUME NEW C, C \subseteq Claim, JobsGo, RecordsGo(C), NEW i, Dead(i), PublicationInv
    PROVE  Dead(i)'
<1>1. i \in Item /\ i[3][1] \in Job
  BY ItemNames, ClaimNames DEF Dead
<1>2. job'[i[3][1]].status \in Ended
  BY <1>1 DEF Dead, JobsGo, Onward
<1>3. ASSUME NEW m \in Request, record'[m].state = "active" PROVE record'[m].item # i
  <2>1. CASE record'[m].item = record[m].item /\ record[m].state = "active"
    BY <2>1 DEF Dead, Active
  <2>2. ASSUME NEW c \in C, Holds(c), record'[m].item = VectorItem(c) PROVE record'[m].item # i
    <3>1. VectorItem(c)[3] = c
      BY DEF VectorItem
    <3>2. job[i[3][1]].status \in Ended
      BY DEF Dead
    <3> QED BY <2>2, <3>1, <3>2 DEF Holds, Ended
  <2> QED BY <1>3, <2>1, <2>2 DEF RecordsGo, NoRecord
<1> QED BY <1>1, <1>2, <1>3 DEF Dead, Active

\* A record whose publication or cleanup a claim still holds keeps its item, and its job
\* the reservation.
LEMMA HeldItem ==
    ASSUME PublicationInv, NEW C, C \subseteq Claim, RecordsGo(C), NEW c \in Claim \ C, Holds(c),
           job[c[1]].op \in Publishing \cup {"delete"}, job[c[1]].mem # None
    PROVE  record'[job[c[1]].mem].item = record[job[c[1]].mem].item
<1> DEFINE j == c[1]
           m == job[c[1]].mem
<1>1. j \in Job /\ job[j] \in JobRow
  BY ClaimNames DEF PublicationInv, TypeOK
<1>2. m \in Request
  BY <1>1 DEF JobRow
<1>3. JobFit(j) /\ RecordFit(m) /\ Live(j)
  BY <1>1, <1>2 DEF PublicationInv, TablesFit, Holds, Live
<1>4. ASSUME NEW d \in C, Holds(d), record[m].pending = d[1], job[d[1]].mem = m,
             \/ job[d[1]].op = "delete" /\ record[m].state = "deleted"
             \/ job[d[1]].op \in Publishing
      PROVE  FALSE
  <2>1. d \in Claim /\ d[1] \in Job /\ d # c
    BY ClaimNames
  <2>2. d[1] # j
    BY <1>4, <2>1, OneHolder
  <2>3. CASE job[j].op \in {"update", "delete"}
    BY <1>3, <1>4, <2>2, <2>3 DEF JobFit, Reserves, Target
  <2>4. CASE job[j].op \in {"create", "replace"}
    <3>1. j = <<m, 0>>
      BY <1>1, <1>3, <2>4, JobNames DEF JobFit, Publishing
    <3>2. job[j].status # "succeeded"
      BY SMTT(30) DEF Holds
    <3>3. record[m].state \notin {"active", "deleted"}
      BY <1>3, <3>1, <3>2 DEF RecordFit
    <3>4. JobFit(d[1]) /\ Live(d[1]) /\ job[d[1]].op \in {"create", "replace", "update"}
      BY <1>4, <2>1, <3>3 DEF PublicationInv, TablesFit, Holds, Live, Publishing
    <3>5. job[d[1]].op # "update"
      BY <1>4, <3>3, <3>4 DEF JobFit, Reserves, Target
    <3>6. d[1] = <<m, 0>>
      BY <1>2, <1>4, <2>1, <3>4, <3>5, JobNames, Kinds DEF JobFit, Publishing
    <3> QED BY <2>2, <3>1, <3>6
  <2> QED BY <2>3, <2>4 DEF Publishing
<1> HIDE DEF j, m
<1> QED BY <1>2, <1>4 DEF RecordsGo, m

-----------------------------------------------------------------------------
(* The handlers that do not take part in a step, and the store *)

LEMMA OtherTask ==
    ASSUME PublicationInv, NEW C, C \subseteq Claim, Step(C), NEW c \in Claim \ C, task'[c] = task[c]
    PROVE  TaskFit(c)'
<1> DEFINE j == c[1]
<1>0. PICK step, prev, then : /\ task[c].step = step /\ task[c].prev = prev /\ task[c].then = then
                              /\ task'[c].step = step /\ task'[c].prev = prev /\ task'[c].then = then
  OBVIOUS
<1>1. /\ JobsGo /\ RecordsGo(C) /\ ItemsGo(C) /\ Succeeds(C)
      /\ j \in Job /\ job \in [Job -> JobRow] /\ task[c] \in Task /\ TaskFit(c)
  BY ClaimNames DEF Step, PublicationInv, TypeOK
<1>2. ASSUME step # "none" PROVE /\ job'[j].status # "absent" /\ c[2] <= job'[j].attempts
                                 /\ job'[j].op = job[j].op /\ job'[j].item = job[j].item
                                 /\ job[j].mem # None => job'[j].mem = job[j].mem
                                 /\ Holds(c)' => Holds(c)
  <2>1. job[j].status # "absent" /\ c[2] <= job[j].attempts
    BY <1>0, <1>1, <1>2 DEF TaskFit
  <2>2. /\ job'[j].status # "absent" /\ job'[j].attempts \in {job[j].attempts, job[j].attempts + 1}
        /\ job'[j].op = job[j].op /\ job'[j].item = job[j].item
        /\ job[j].mem # None => job'[j].mem = job[j].mem
    BY <1>1, <2>1 DEF JobsGo, Onward
  <2>3. c[2] \in Nat /\ job[j].attempts \in Nat
    BY <1>1, ClaimNames DEF JobRow
  <2> QED BY <1>1, <2>1, <2>2, <2>3, HeldBefore
<1>3. Succeeded(c)' => Succeeded(c)
  BY <1>1, SucceedsAlone
<1>4. \A i \in Item : Succeeded(i[3]) => Succeeded(i[3])'
  BY <1>1, SucceededStays, ItemNames, ClaimNames
<1>5. \A i : Dead(i) => Dead(i)'
  BY <1>1, DeadStays
<1>6. step \in {"stage", "upsert", "publish", "undo", "undoing", "drop"} => job[j].op \in Publishing /\ job[j].mem # None
  BY <1>0, <1>1 DEF TaskFit
<1>7. ASSUME step = "publish", Holds(c)' PROVE VectorItem(c)' \in items'
  <2>1. Holds(c) /\ VectorItem(c) \in items
    BY <1>0, <1>1, <1>2, <1>7 DEF TaskFit
  <2>2. VectorItem(c)' = VectorItem(c)
    BY <1>0, <1>1, <1>6, <1>7, NameStays DEF TaskFit
  <2>3. ~Dead(VectorItem(c))
    <3>1. VectorItem(c)[3] = c
      BY DEF VectorItem
    <3> QED BY <2>1, <3>1 DEF Dead, Holds, Ended
  <2>4. \A d \in C : VectorItem(d) # VectorItem(c)
    <3>1. \A d \in Claim : VectorItem(d)[3] = d
      BY DEF VectorItem
    <3> QED BY <3>1
  <2> QED BY <1>1, <2>1, <2>2, <2>3, <2>4 DEF ItemsGo
<1>8. ASSUME step \in {"stage", "upsert", "publish"} \/ (step \in {"erase", "finalize"} /\ job[j].op = "delete"), Holds(c)'
      PROVE  prev = record'[job'[j].mem].item
  <2>1. Holds(c) /\ prev = record[job[j].mem].item
    BY <1>0, <1>1, <1>2, <1>8 DEF TaskFit
  <2>2. job[j].mem # None /\ job[j].op \in Publishing \cup {"delete"}
    <3>1. JobFit(j)
      BY <1>1 DEF PublicationInv, TablesFit
    <3> QED BY <1>6, <1>8, <3>1, Kinds DEF JobFit
  <2>3. record'[job[j].mem].item = record[job[j].mem].item
    BY <1>1, <2>1, <2>2, HeldItem
  <2> QED BY <1>2, <1>8, <2>1, <2>2, <2>3
<1>9. ASSUME step \in {"finalize", "succeed"}, Succeeded(prev[3])' PROVE prev \notin items'
  <2>1. Dead(prev) /\ prev[3] \in Claim
    BY <1>0, <1>1, <1>9, ItemNames DEF TaskFit, Dead
  <2>2. Succeeded(prev[3])
    <3>1. prev[3][1] \in Job /\ job'[prev[3][1]] = job[prev[3][1]]
      BY <1>1, <2>1, ClaimNames DEF Dead, JobsGo, Onward
    <3> QED BY <1>9, <3>1 DEF Succeeded
  <2>3. prev \notin items
    BY <1>0, <1>1, <1>9, <2>2 DEF TaskFit
  <2>4. ASSUME NEW d \in C, prev = VectorItem(d), task[d].step = "upsert" PROVE FALSE
    <3>1. prev[3] = d /\ TaskFit(d)
      BY <2>4 DEF VectorItem, PublicationInv
    <3> QED BY <1>0, <2>2, <2>4, <3>1 DEF TaskFit
  <2> QED BY <1>1, <2>3, <2>4 DEF ItemsGo
<1>10. ASSUME step \in {"stage", "upsert", "publish"}, prev # None
       PROVE  prev \in Item /\ prev[1] = job'[j].mem /\ Succeeded(prev[3])'
  <2>1. prev \in Item /\ prev[1] = job[j].mem /\ Succeeded(prev[3])
    BY <1>0, <1>1, <1>10 DEF TaskFit
  <2> QED BY <1>2, <1>4, <1>6, <1>10, <2>1
<1>11. /\ Succeeded(c) => step \notin {"prepare", "stage", "upsert", "publish", "undoing", "erase", "finalize", "succeed"}
       /\ step \in {"drop", "erase", "finalize", "succeed"} => Dead(prev)
       /\ step = "erase" => job[j].op \in Cleaning
       /\ step = "finalize" => job[j].op = "delete"
       /\ step = "succeed" => job[j].op = "vector"
       /\ step \in {"erase", "succeed"} /\ job[j].op = "vector" => prev = job[j].item
       /\ step = "retry" \/ then = "retry" => c[2] < MaxAttempts
  BY <1>0, <1>1 DEF TaskFit
<1>12. step # "none" => job[j].status # "absent" /\ c[2] <= job[j].attempts
  BY <1>0, <1>1 DEF TaskFit
<1>13. /\ step # "none" => job'[j].status # "absent" /\ c[2] <= job'[j].attempts
       /\ step \in {"stage", "upsert", "publish", "undo", "undoing", "drop"} =>
             job'[j].op \in Publishing /\ job'[j].mem # None
  BY <1>2, <1>6
<1>14. /\ Succeeded(c)' => step \notin {"prepare", "stage", "upsert", "publish", "undoing", "erase", "finalize", "succeed"}
       /\ step = "publish" /\ Holds(c)' => VectorItem(c)' \in items'
  BY <1>3, <1>7, <1>11
<1>15. /\ step \in {"stage", "upsert", "publish"} /\ prev # None =>
             prev \in Item /\ prev[1] = job'[j].mem /\ Succeeded(prev[3])'
       /\ step \in {"stage", "upsert", "publish"} /\ Holds(c)' => prev = record'[job'[j].mem].item
  BY <1>8, <1>10
<1>16. /\ step \in {"drop", "erase", "finalize", "succeed"} => Dead(prev)'
       /\ step = "erase" => job'[j].op \in Cleaning
       /\ step = "finalize" => job'[j].op = "delete"
       /\ step = "succeed" => job'[j].op = "vector"
  BY <1>2, <1>5, <1>11
<1>17. step \in {"erase", "finalize"} /\ job'[j].op = "delete" /\ Holds(c)' => prev = record'[job'[j].mem].item
  BY <1>2, <1>8
<1>18. /\ step \in {"erase", "succeed"} /\ job'[j].op = "vector" => prev = job'[j].item
       /\ step \in {"finalize", "succeed"} /\ Succeeded(prev[3])' => prev \notin items'
  BY <1>2, <1>9, <1>11
<1> QED BY <1>0, <1>11, <1>13, <1>14, <1>15, <1>16, <1>17, <1>18 DEF TaskFit

LEMMA NameOf == ASSUME NEW c PROVE VectorItem(c)[3] = c
BY DEF VectorItem

\* The vector of a memory stays, and the one of a claim that is about to publish.
LEMMA ItemStays ==
    ASSUME PublicationInv, NEW C, C \subseteq Claim, Step(C), NEW i \in items, ~Dead(i),
           \/ Succeeded(i[3])
           \/ task[i[3]].step = "publish"
    PROVE  i \in items'
<1>1. ASSUME NEW d \in C, i = VectorItem(d), task[d].step = "undoing" PROVE FALSE
  <2>1. i[3] = d /\ TaskFit(d)
    BY <1>1, NameOf DEF PublicationInv
  <2> QED BY <1>1, <2>1 DEF TaskFit
<1> QED BY <1>1 DEF Step, ItemsGo

LEMMA StoreFits ==
    ASSUME PublicationInv, NEW C, C \subseteq Claim, Step(C)
    PROVE  ItemsFit'
<1>1. /\ JobsGo /\ RecordsGo(C) /\ ItemsGo(C) /\ Succeeds(C)
      /\ job \in [Job -> JobRow] /\ record \in [Request -> RecordRow] /\ items \subseteq Item /\ ItemsFit
  BY DEF Step, PublicationInv, TypeOK
<1>2. ASSUME NEW i \in items'
      PROVE  /\ i \in Item /\ i[3] \in Claim /\ i[3][1] \in Job
             /\ i = VectorItem(i[3]) /\ job[i[3][1]].op \in Publishing /\ job[i[3][1]].mem \in Request
             /\ i[1] = job[i[3][1]].mem
             /\ i \in items \/ ~Succeeded(i[3])
  <2>1. CASE i \in items
    <3>1. i \in Item /\ i[3] \in Claim /\ i[3][1] \in Job
      BY <1>1, <2>1, ItemNames, ClaimNames
    <3>2. i = VectorItem(i[3]) /\ job[i[3][1]].op \in Publishing /\ job[i[3][1]].mem # None
      BY <1>1, <2>1 DEF ItemsFit
    <3>3. i[1] = job[i[3][1]].mem
      BY <3>2 DEF VectorItem
    <3> QED BY <1>1, <2>1, <3>1, <3>2, <3>3, ItemNames
  <2>2. ASSUME NEW d \in C, i = VectorItem(d), task[d].step = "upsert" PROVE <1>2!2
    <3>1. i[3] = d /\ i[1] = job[d[1]].mem
      BY <2>2 DEF VectorItem
    <3>2. d \in Claim /\ d[1] \in Job /\ d[2] \in 1 .. MaxAttempts /\ d = <<d[1], d[2]>>
      BY ClaimNames
    <3>3. job[d[1]].op \in Publishing /\ job[d[1]].mem # None /\ ~Succeeded(d)
      BY <2>2, <3>2 DEF PublicationInv, TaskFit
    <3>4. job[d[1]].mem \in Request /\ job[d[1]].version \in Nat
      BY <1>1, <3>2, <3>3 DEF JobRow
    <3>5. i \in Item
      BY <2>2, <3>2, <3>4 DEF VectorItem, Item
    <3> QED BY <2>2, <3>1, <3>2, <3>3, <3>4, <3>5
  <2> QED BY <1>1, <2>1, <2>2 DEF ItemsGo
<1>3. ASSUME NEW i \in items'
      PROVE  i = VectorItem(i[3])' /\ job'[i[3][1]].op \in Publishing /\ job'[i[3][1]].mem # None
  <2>1. job[i[3][1]].status # "absent" /\ job[i[3][1]].mem # None
    <3>1. JobFit(i[3][1])
      BY <1>2 DEF PublicationInv, TablesFit
    <3> QED BY <1>2, <3>1, Kinds DEF JobFit, Publishing
  <2>2. VectorItem(i[3])' = VectorItem(i[3])
    BY <1>1, <1>2, <2>1, NameStays
  <2>3. job'[i[3][1]].op = job[i[3][1]].op /\ job'[i[3][1]].mem = job[i[3][1]].mem
    BY <1>1, <1>2, <2>1 DEF JobsGo, Onward
  <2> QED BY <1>2, <2>1, <2>2, <2>3
<1>4. ASSUME NEW m \in Request, record'[m].state = "active" PROVE record'[m].item \in items'
  <2>1. CASE record'[m].item = record[m].item /\ record[m].state = "active"
    <3> DEFINE i == record[m].item
    <3>1. m \in Active /\ i \in items /\ ~Dead(i)
      BY <1>1, <2>1 DEF ItemsFit, PublishedItemIsStored, Active, Dead
    <3>2. Succeeded(i[3])
      BY <2>1 DEF PublicationInv, TablesFit, RecordFit
    <3> HIDE DEF i
    <3>3. i \in items'
      BY <3>1, <3>2, ItemStays
    <3> QED BY <2>1, <3>3 DEF i
  <2>2. ASSUME NEW c \in C, Holds(c), task[c].step = "publish", record'[m].item = VectorItem(c)
        PROVE  record'[m].item \in items'
    <3> DEFINE i == VectorItem(c)
    <3>1. i[3] = c /\ i \in items
      BY <2>2, NameOf DEF PublicationInv, TaskFit
    <3>2. ~Dead(i)
      BY <2>2, <3>1 DEF Dead, Holds, Ended
    <3> HIDE DEF i
    <3>3. i \in items'
      BY <2>2, <3>1, <3>2, ItemStays
    <3> QED BY <2>2, <3>3 DEF i
  <2> QED BY <1>1, <1>4, <2>1, <2>2 DEF RecordsGo, NoRecord
<1>5. ASSUME NEW i \in items', Succeeded(i[3])', record'[i[1]].item # i
      PROVE  \E k \in Job : job'[k].op = "vector" /\ job'[k].item = i /\ job'[k].status \notin {"absent", "succeeded"}
  <2> DEFINE m == i[1]
  <2>1. m \in Request
    BY <1>2
  <2>2. Succeeded(i[3])
    <3> SUFFICES ASSUME ~Succeeded(i[3]) PROVE FALSE
      OBVIOUS
    <3>0. i[3][1] \in Job /\ job'[i[3][1]].status = "succeeded" /\ job[i[3][1]].status # "succeeded"
      <4>1. job[i[3][1]].status = "succeeded" => job'[i[3][1]] = job[i[3][1]]
        BY <1>1, <1>2 DEF JobsGo, Onward, Ended
      <4> QED BY <1>2, <1>5, <4>1 DEF Succeeded
    <3>1. PICK d \in C : d[1] = i[3][1] /\ Holds(d) /\ job'[i[3][1]].attempts = job[i[3][1]].attempts
                         /\ record'[job[i[3][1]].mem].item = VectorItem(d)
      BY <1>1, <1>2, <3>0 DEF Succeeds
    <3>2. d = i[3]
      <4>1. d[2] = job[d[1]].attempts /\ i[3][2] = job'[i[3][1]].attempts
        BY <1>5, <3>1 DEF Holds, Succeeded
      <4>2. d = <<d[1], d[2]>> /\ i[3] = <<i[3][1], i[3][2]>>
        BY <1>2, ClaimNames
      <4> QED BY <3>1, <4>1, <4>2
    <3> QED BY <1>2, <1>5, <3>1, <3>2
  <2>3. i \in items
    BY <1>2, <2>2
  <2>4. CASE record[m].item # i
    <3>1. PICK k \in Job : job[k].op = "vector" /\ job[k].item = i /\ job[k].status \notin {"absent", "succeeded"}
      BY <1>1, <2>2, <2>3, <2>4 DEF ItemsFit, SupersededIsCollected, Succeeded
    <3>2. job'[k].op = "vector" /\ job'[k].item = i /\ job'[k].status # "absent"
      BY <1>1, <3>1 DEF JobsGo, Onward
    <3>3. ASSUME job'[k].status = "succeeded" PROVE FALSE
      <4>1. PICK c \in C : c[1] = k /\ task[c].step = "succeed"
        BY <1>1, <3>1, <3>3 DEF Succeeds
      <4>2. task[c].prev = i
        BY <3>1, <4>1 DEF PublicationInv, TaskFit
      <4> QED BY <2>2, <2>3, <4>1, <4>2 DEF PublicationInv, TaskFit
    <3> QED BY <3>2, <3>3
  <2>5. CASE record[m].item = i
    <3>0. i # None /\ record'[m].item # record[m].item
      BY <1>2, <1>5, <2>5, Kinds
    <3>1. PICK c \in C :
            /\ Holds(c) /\ job[c[1]].mem = m
            /\ \/ job[c[1]].op = "delete" /\ task[c].step = "finalize"
               \/ /\ job[c[1]].op \in Publishing
                  /\ job'[Heir(c[1])] = VectorCleanup(i)
      <4>1. \E c \in C :
              /\ Holds(c) /\ record[m].pending = c[1] /\ job[c[1]].mem = m
              /\ \/ /\ job[c[1]].op = "delete" /\ task[c].step = "finalize"
                    /\ record[m].state = "deleted" /\ record'[m] = NoRecord
                 \/ /\ job[c[1]].op \in Publishing /\ task[c].step = "publish"
                    /\ record'[m].item = VectorItem(c)
                    /\ record[m].item # None => job'[Heir(c[1])] = VectorCleanup(record[m].item)
        BY <1>1, <2>1, <3>0 DEF RecordsGo
      <4> QED BY <2>5, <3>0, <4>1
    <3>2. c \in Claim /\ TaskFit(c) /\ c[1] \in Job
      BY ClaimNames DEF PublicationInv
    <3>3. CASE job[c[1]].op = "delete" /\ task[c].step = "finalize"
      <4>1. task[c].prev = i
        BY <2>5, <3>1, <3>2, <3>3 DEF TaskFit
      <4> QED BY <2>2, <2>3, <3>2, <3>3, <4>1 DEF TaskFit
    <3>4. CASE job[c[1]].op \in Publishing /\ job'[Heir(c[1])] = VectorCleanup(i)
      <4>1. Heir(c[1]) \in Job
        <5>1. JobFit(c[1])
          BY <3>2 DEF PublicationInv, TablesFit
        <5>2. c[1] = <<c[1][1], 0>> /\ c[1][1] \in Request
          BY <3>2, <3>4, <5>1, JobNames DEF JobFit
        <5> QED BY <3>2, <5>2, JobNames
      <4> QED BY <3>4, <4>1 DEF VectorCleanup, NoJob
    <3> QED BY <3>1, <3>3, <3>4
  <2> QED BY <2>4, <2>5
<1>6. ASSUME NEW j \in Job, NEW i, job'[j].item = i, job'[j].op = "vector", job'[j].status = "succeeded", Succeeded(i[3])'
      PROVE  i \notin items'
  <2>1. job[j].op = "vector" /\ job[j].item = i
    <3>1. job[j].status # "absent"
      BY <1>1, <1>6 DEF JobsGo, Onward
    <3> QED BY <1>1, <1>6, <3>1 DEF JobsGo, Onward
  <2>2. Dead(i) /\ i[3] \in Claim /\ i[3][1] \in Job
    <3>1. Dead(i)
      BY <2>1 DEF PublicationInv, TablesFit, JobFit
    <3> QED BY <3>1, ItemNames, ClaimNames DEF Dead
  <2>3. Succeeded(i[3])
    <3>1. job'[i[3][1]] = job[i[3][1]]
      BY <1>1, <2>2 DEF JobsGo, Onward, Dead
    <3> QED BY <1>6, <2>1, <3>1 DEF Succeeded
  <2>4. i \notin items
    <3>1. CASE job[j].status = "succeeded"
      BY <1>1, <2>1, <2>3, <3>1 DEF ItemsFit
    <3>2. CASE job[j].status # "succeeded"
      <4>1. PICK c \in C : c[1] = j /\ task[c].step = "succeed"
        BY <1>1, <1>6, <2>1, <3>2 DEF Succeeds
      <4>2. task[c].prev = i /\ TaskFit(c)
        BY <2>1, <4>1 DEF PublicationInv, TaskFit
      <4> QED BY <2>3, <4>1, <4>2 DEF TaskFit
    <3> QED BY <3>1, <3>2
  <2> QED BY <1>2, <2>1, <2>3, <2>4
<1>7. PublishedItemIsStored'
  BY <1>4 DEF PublishedItemIsStored, Active
<1>8. SupersededIsCollected'
  BY <1>5 DEF SupersededIsCollected, Succeeded
<1> QED BY <1>3, <1>6, <1>7, <1>8 DEF ItemsFit

-----------------------------------------------------------------------------
(* The tables *)

LEMMA OtherJob ==
    ASSUME PublicationInv, NEW j \in Job, About(j), \A i : Dead(i) => Dead(i)',
           NEW k \in Job, k # j, job'[k] = job[k]
    PROVE  JobFit(k)'
<1>1. JobFit(k) /\ job[k] \in JobRow
  BY DEF PublicationInv, TablesFit, TypeOK
<1>2. ASSUME Heir(k) \in Job, job[k].status \notin Ended PROVE job'[Heir(k)].status = "absent"
  <2>1. job[Heir(k)].status = "absent"
    BY <1>1, <1>2 DEF JobFit
  <2>2. Heir(k) # Heir(j) /\ Heir(k)[2] # 0
    BY JobNames
  <2>3. Heir(k) # j
    BY <2>1, <2>2 DEF About
  <2> QED BY <1>2, <2>1, <2>2, <2>3 DEF About
<1>3. ASSUME Live(k), job[k].op \in {"update", "delete", "replace"} PROVE Reserves(k)'
  <2>1. Reserves(k) /\ Target(k) \in Request
    BY <1>1, <1>3 DEF JobFit, Target
  <2>2. record'[Target(k)] = record[Target(k)]
    BY <2>1, Kinds DEF About, Reserves
  <2> QED BY <2>1, <2>2 DEF Reserves, Target
<1> QED BY <1>1, <1>2, <1>3 DEF JobFit, Live

LEMMA KeptRecord ==
    ASSUME PublicationInv, TypeOK', NEW j \in Job, About(j), JobsGo, NEW m \in Request, record'[m] = record[m],
           record[m].pending = j /\ record[m].state \in {"active", "deleted"} => job'[j].status \notin Ended
    PROVE  RecordFit(m)'
<1>0. RecordFit(m) /\ job \in [Job -> JobRow] /\ record[m] \in RecordRow
  BY DEF PublicationInv, TablesFit, TypeOK
<1>1. ASSUME NEW k \in Job, job[k].op # "none"
      PROVE  job'[k].op = job[k].op /\ (job[k].mem # None => job'[k].mem = job[k].mem) /\ Target(k)' \in {Target(k), job'[k].mem}
             /\ job'[k].status # "absent" /\ job'[k].version = job[k].version /\ job'[k].victim = job[k].victim
  <2>1. job[k].status # "absent"
    BY <1>1 DEF PublicationInv, TablesFit, JobFit
  <2> QED BY <2>1 DEF JobsGo, Onward, Target
<1>2. ASSUME record[m].state = "placeholder"
      PROVE  job'[record[m].pending].op \in {"create", "replace"} /\ job'[record[m].pending].mem = m
  <2> DEFINE k == record[m].pending
  <2>1. k \in Job /\ job[k].op \in {"create", "replace"} /\ job[k].mem = m
    BY <1>0, <1>2 DEF RecordFit
  <2> HIDE DEF k
  <2>2. job'[k].op \in {"create", "replace"} /\ job'[k].mem = m
    BY <1>1, <2>1, Kinds
  <2> QED BY <2>2 DEF k
<1>3. ASSUME record[m].state \in {"active", "deleted"} PROVE Succeeded(record[m].item[3])'
  BY <1>0, <1>3, SucceededStays, ItemNames, ClaimNames DEF RecordFit
<1>4. ASSUME NEW k \in Job, record[m].pending = k, record[m].state \in {"active", "deleted"}
      PROVE  /\ Live(k)' /\ Target(k)' = m
             /\ job'[k].op \in IF record[m].state = "deleted" THEN {"delete"} ELSE {"update", "replace"}
  <2>1. Live(k) /\ Target(k) = m
        /\ job[k].op \in IF record[m].state = "deleted" THEN {"delete"} ELSE {"update", "replace"}
    BY <1>0, <1>4, Kinds DEF RecordFit
  <2>2. job[k].status # "absent" /\ job[k].status \notin Ended
    BY <2>1 DEF Live, Waiting, Ended
  <2>3. job'[k].status \notin Ended
    <3>1. k # j => job'[k] = job[k]
      BY <2>1, <2>2 DEF About
    <3> QED BY <1>4, <2>2, <3>1
  <2>4. job'[k].status \notin Ended \cup {"absent"} /\ job'[k].op = job[k].op /\ job'[k].victim = job[k].victim
        /\ (job[k].op \in {"update", "delete"} => job'[k].mem = job[k].mem)
    BY <2>1, <2>2, <2>3 DEF JobsGo, Onward
  <2>5. Target(k)' = m
    BY <2>1, <2>4 DEF Target
  <2>6. Live(k)'
    <3>1. job'[k].status \in Waiting \cup Ended \cup {"absent", "running"}
      BY DEF TypeOK, JobRow
    <3> QED BY <2>4, <3>1 DEF Live
  <2> QED BY <2>1, <2>4, <2>5, <2>6
<1>5. ASSUME record[m].state # "absent"
      PROVE  /\ job'[<<m, 0>>].op \in {"create", "replace"} /\ job'[<<m, 0>>].mem = m
             /\ record[m].state # "placeholder" => job'[<<m, 0>>].status = "succeeded"
  <2>1. /\ job[<<m, 0>>].op \in {"create", "replace"} /\ job[<<m, 0>>].mem = m /\ <<m, 0>> \in Job
        /\ record[m].state # "placeholder" => job[<<m, 0>>].status = "succeeded"
    BY <1>0, <1>5, JobNames DEF RecordFit, PublicationInv
  <2>2. job[<<m, 0>>].status = "succeeded" => job'[<<m, 0>>] = job[<<m, 0>>]
    BY <2>1 DEF JobsGo, Onward, Ended
  <2> QED BY <1>1, <2>1, <2>2, Kinds
<1>6. ASSUME NEW k \in Job, job[k].status \in {"failed", "cancelled"} PROVE job'[k].status \in {"failed", "cancelled"}
  BY <1>6 DEF JobsGo, Onward, Ended
<1> QED BY <1>0, <1>2, <1>3, <1>4, <1>5, <1>6 DEF RecordFit, RecordRow

LEMMA Fitting ==
    ASSUME PublicationInv, NEW C, C \subseteq Claim, TypeOK', TablesFit', Step(C),
           \A c \in C : TaskFit(c)', \A c \in Claim \ C : task'[c] = task[c]
    PROVE  PublicationInv'
<1>1. \A c \in Claim : TaskFit(c)'
  BY OtherTask
<1>2. ItemsFit'
  BY StoreFits
<1> QED BY <1>1, <1>2 DEF PublicationInv

LEMMA ActiveShrinks ==
    ASSUME PublicationInv, \A m \in Request : record'[m].state = "active" => record[m].state = "active"
    PROVE  (IsFiniteSet(Active) /\ Cardinality(Active) <= MaxActive)'
<1>1. IsFiniteSet(Active) /\ Cardinality(Active) <= MaxActive
  BY DEF PublicationInv, TablesFit
<1>2. Active' \subseteq Active
  BY DEF Active
<1>3. IsFiniteSet(Active') /\ Cardinality(Active') <= Cardinality(Active)
  BY <1>1, <1>2, FS_Subset
<1>4. Cardinality(Active) \in Nat /\ Cardinality(Active') \in Nat /\ MaxActive \in Nat
  BY <1>1, <1>3, FS_CardinalityType, PublicationAssumption
<1> QED BY <1>1, <1>3, <1>4

LEMMA TablesKeep ==
    ASSUME PublicationInv, TypeOK', NEW j \in Job, About(j), NEW C, C \subseteq Claim, RecordsGo(C),
           JobFit(j)',
           Heir(j) \in Job => job'[Heir(j)] = job[Heir(j)] \/ JobFit(Heir(j))',
           \A m \in Request :
               \/ RecordFit(m)'
               \/ /\ record'[m] = record[m]
                  /\ record[m].pending = j /\ record[m].state \in {"active", "deleted"} => job'[j].status \notin Ended,
           \A k \in asking' : k \in asking \/ job[k].op \in {"create", "replace"},
           (IsFiniteSet(Active) /\ Cardinality(Active) <= MaxActive)'
    PROVE  TablesFit'
<1>1. JobsGo
  BY AboutGoes DEF PublicationInv, TypeOK
<1>2. \A i : Dead(i) => Dead(i)'
  BY <1>1, DeadStays
<1>3. ASSUME NEW k \in Job PROVE JobFit(k)'
  <2>1. CASE k # j /\ job'[k] = job[k]
    BY <1>2, <2>1, OtherJob
  <2> QED BY <2>1 DEF About
<1>4. ASSUME NEW m \in Request PROVE RecordFit(m)'
  BY <1>1, KeptRecord
<1>5. ASSUME NEW k \in asking' PROVE job'[k].op \in {"create", "replace"}
  <2>1. k \in Job /\ job[k].op \in {"create", "replace"}
    BY DEF PublicationInv, TablesFit, TypeOK
  <2>2. job[k].status # "absent"
    BY <2>1 DEF PublicationInv, TablesFit, JobFit
  <2> QED BY <1>1, <2>1, <2>2 DEF JobsGo, Onward
<1> QED BY <1>3, <1>4, <1>5 DEF TablesFit

\* A step no handler takes part in.
LEMMA Outside ==
    ASSUME PublicationInv, TypeOK', NEW j \in Job, About(j), UNCHANGED <<items, task>>,
           JobFit(j)',
           Heir(j) \in Job => job'[Heir(j)] = job[Heir(j)] \/ JobFit(Heir(j))',
           \A m \in Request :
               \/ RecordFit(m)'
               \/ /\ record'[m] = record[m]
                  /\ record[m].pending = j /\ record[m].state \in {"active", "deleted"} => job'[j].status \notin Ended,
           \A m \in Request :
               record'[m].item = record[m].item /\ (record'[m].state = "active" => record[m].state = "active"),
           \A k \in asking' : k \in asking \/ job[k].op \in {"create", "replace"},
           job'[j].status = "succeeded" => job[j].status = "succeeded"
    PROVE  PublicationInv'
<1>1. RecordsGo({}) /\ ItemsGo({})
  BY DEF RecordsGo, ItemsGo
<1>2. JobsGo
  BY AboutGoes DEF PublicationInv, TypeOK
<1>3. Succeeds({})
  BY DEF Succeeds, About
<1>4. TablesFit'
  <2>1. {} \subseteq Claim
    OBVIOUS
  <2>2. (IsFiniteSet(Active) /\ Cardinality(Active) <= MaxActive)'
    BY ActiveShrinks
  <2> QED BY <1>1, <2>1, <2>2, TablesKeep
<1>5. Step({})
  BY <1>1, <1>2, <1>3 DEF Step
<1> QED BY <1>4, <1>5, Fitting

-----------------------------------------------------------------------------
(* The service *)

\* A job with a new row, for a cleanup or for what was asked.
LEMMA EntersAbout ==
    ASSUME PublicationInv, NEW j \in Job, job[j].status = "absent", j[2] = 0, NEW row \in JobRow,
           row.status = "pending", row.attempts = 0, row.op \in Publishing \cup {"delete"},
           job' = [job EXCEPT ![j] = row],
           \A m \in Request : record'[m] = record[m] \/ record[m].pending \in {None, j}
    PROVE  About(j) /\ job'[j] = row /\ (Heir(j) \in Job => job'[Heir(j)] = job[Heir(j)] /\ job[Heir(j)].status = "absent")
<1>1. job \in [Job -> JobRow] /\ JobFit(j) /\ Heir(j) # j
  BY JobNames DEF PublicationInv, TypeOK, TablesFit
<1>2. job'[j] = row /\ \A k \in Job \ {j} : job'[k] = job[k]
  BY <1>1
<1>3. Onward(j)
  BY <1>2 DEF Onward, Ended
<1>4. Heir(j) \in Job => job[Heir(j)].status = "absent"
  BY <1>1 DEF JobFit, Ended
<1> QED BY <1>1, <1>2, <1>3, <1>4 DEF About

LEMMA NoRows ==
    /\ NoJob \in JobRow /\ NoRecord \in RecordRow /\ NoTask \in Task
    /\ NoJob.op = "none" /\ NoJob.status = "absent" /\ NoJob.attempts = 0 /\ NoJob.mem = None /\ NoJob.victim = None /\ NoJob.staged = None
    /\ NoRecord.state = "absent" /\ NoRecord.item = None /\ NoRecord.pending = None
BY PublicationAssumption DEF NoJob, NoRecord, NoTask, JobRow, RecordRow, Task

\* A call of the service that enters a job for a record, or for a new one.
LEMMA EntersKeeps ==
    ASSUME PublicationInv, NEW r \in Request, NEW j \in Job, j = <<r, 0>>, NEW row \in JobRow, Enters(j, row),
           row.status = "pending", row.attempts = 0, row.staged = None, row.op \in Publishing \cup {"delete"},
           row.op \in {"create", "replace"} => row.mem = None,
           row.op \in {"update", "delete"} => row.mem \in Request,
           IF row.op = "replace" THEN row.victim \in Request ELSE row.victim = None,
           record' \in [Request -> RecordRow],
           row.op \in {"update", "delete", "replace"} => Reserves(j)',
           \A m \in Request : record'[m] = record[m] \/ (record[m].pending = None /\ RecordFit(m)'),
           \A m \in Request :
               record'[m].item = record[m].item /\ (record'[m].state = "active" => record[m].state = "active")
    PROVE  PublicationInv'
<1>1. /\ job[j].status = "absent" /\ job' = [job EXCEPT ![j] = row] /\ j[2] = 0
      /\ UNCHANGED <<cancels, asking, items, task, faults>>
  BY DEF Enters
<1>2. About(j) /\ job'[j] = row /\ (Heir(j) \in Job => job'[Heir(j)] = job[Heir(j)] /\ job[Heir(j)].status = "absent")
  BY <1>1, EntersAbout
<1>3. TypeOK'
  BY <1>1 DEF PublicationInv, TypeOK
<1>4. row.status \notin Ended /\ row.status # "absent" /\ 0 < MaxAttempts
  BY PublicationAssumption DEF Ended
<1>5. JobFit(j)'
  BY <1>1, <1>2, <1>4 DEF JobFit, Publishing
<1>6. Heir(j) \in Job => job'[Heir(j)] = job[Heir(j)] \/ JobFit(Heir(j))'
  BY <1>2
<1>7. \A m \in Request :
          \/ RecordFit(m)'
          \/ /\ record'[m] = record[m]
             /\ record[m].pending = j /\ record[m].state \in {"active", "deleted"} => job'[j].status \notin Ended
  BY <1>2, <1>4
<1>8. /\ UNCHANGED <<items, task>>
      /\ \A k \in asking' : k \in asking \/ job[k].op \in {"create", "replace"}
      /\ job'[j].status = "succeeded" => job[j].status = "succeeded"
  BY <1>1, <1>2, <1>4 DEF Ended
<1> QED BY <1>2, <1>3, <1>5, <1>6, <1>7, <1>8, Outside

LEMMA CreateKeeps ==
    ASSUME PublicationInv, NEW r \in Request, Create(r)
    PROVE  PublicationInv'
<1> DEFINE row == [NoJob EXCEPT !.op = "create", !.status = "pending"]
<1>1. /\ row \in JobRow /\ row.status = "pending" /\ row.op = "create" /\ row.mem = None /\ row.victim = None
      /\ row.staged = None /\ row.attempts = 0
  <2>1. NoJob \in JobRow /\ NoJob.mem = None /\ NoJob.victim = None /\ NoJob.staged = None /\ NoJob.attempts = 0
    BY NoRows
  <2>2. row \in JobRow
    BY <2>1 DEF JobRow, Publishing, Waiting
  <2> QED BY <2>1, <2>2 DEF NoJob
<1>2. Enters(<<r, 0>>, row) /\ record' = record
  BY DEF Create
<1> HIDE DEF row
<1>3. record \in [Request -> RecordRow]
  BY DEF PublicationInv, TypeOK
<1> QED BY <1>1, <1>2, <1>3, OwnJob, EntersKeeps DEF Publishing

\* A reserved record is still fit: only its reservation is new, and what hides it.
LEMMA ReservedFits ==
    ASSUME PublicationInv, NEW m \in Request, NEW j \in Job, NEW row \in JobRow, j[2] = 0,
           job[j].status = "absent", job'[j] = row, \A k \in Job : k # j => job'[k] = job[k],
           row.status = "pending", row.op \in {"update", "delete", "replace"},
           m = IF row.op = "replace" THEN row.victim ELSE row.mem,
           record[m].state = "active", record[m].pending = None,
           record'[m].state = IF row.op = "delete" THEN "deleted" ELSE "active",
           record'[m].version = record[m].version, record'[m].item = record[m].item,
           record'[m].pending = j, record'[m].hidden \in {record[m].hidden, j}
    PROVE  RecordFit(m)'
<1>1. RecordFit(m) /\ \A k \in Job : JobFit(k)
  BY DEF PublicationInv, TablesFit
<1>2. job \in [Job -> JobRow] /\ record[m] \in RecordRow
  BY DEF PublicationInv, TypeOK
<1>0. PICK i : record[m].item = i
  OBVIOUS
<1>3. Succeeded(i[3])' /\ i \in Item /\ i[1] = m /\ record[m].version > 0
  <2>1. i \in Item /\ i[1] = m /\ Succeeded(i[3]) /\ record[m].version > 0
    BY <1>0, <1>1 DEF RecordFit
  <2>2. i[3][1] # j /\ i[3][1] \in Job
    BY <2>1, ItemNames, ClaimNames DEF Succeeded
  <2> QED BY <2>1, <2>2 DEF Succeeded
<1>4. Live(j)' /\ Target(j)' = m /\ job'[j].op = row.op
  BY DEF Live, Target, Waiting
<1>5. job'[<<m, 0>>] = job[<<m, 0>>]
  <2>1. job[<<m, 0>>].status = "succeeded"
    BY <1>1 DEF RecordFit
  <2> QED BY <2>1, OwnJob
<1>6. ASSUME record'[m].state = "active", record'[m].hidden # None
      PROVE  record'[m].pending = record'[m].hidden \/ job'[record'[m].hidden].status \in {"failed", "cancelled"}
  <2>1. CASE record'[m].hidden = record[m].hidden
    <3>1. job[record[m].hidden].status \in {"failed", "cancelled"} /\ record[m].hidden \in Job
      BY <1>1, <1>2, <1>6, <2>1 DEF RecordFit, RecordRow
    <3> QED BY <2>1, <3>1
  <2> QED BY <2>1
<1>7. job[<<m, 0>>].op \in {"create", "replace"} /\ job[<<m, 0>>].mem = m /\ job[<<m, 0>>].status = "succeeded"
  BY <1>1 DEF RecordFit
<1> QED BY <1>0, <1>3, <1>4, <1>5, <1>6, <1>7 DEF RecordFit

\* A call that enters a job for a record and reserves it.
LEMMA ReservesKeeps ==
    ASSUME PublicationInv, NEW r \in Request, NEW j \in Job, j = <<r, 0>>, NEW row \in JobRow, Enters(j, row),
           row.status = "pending", row.attempts = 0, row.staged = None, row.op \in {"update", "delete", "replace"},
           NEW m \in Request, row.op = "replace" => row.victim = m /\ row.mem = None,
           row.op \in {"update", "delete"} => row.mem = m /\ row.victim = None,
           record[m].state = "active", record[m].pending = None, record[m].version = row.version,
           NEW new \in RecordRow, record' = [record EXCEPT ![m] = new],
           new.state = IF row.op = "delete" THEN "deleted" ELSE "active",
           new.version = record[m].version, new.item = record[m].item,
           new.pending = j, new.hidden \in {record[m].hidden, j}
    PROVE  PublicationInv'
<1>1. /\ job \in [Job -> JobRow] /\ record \in [Request -> RecordRow]
      /\ job[j].status = "absent" /\ job' = [job EXCEPT ![j] = row] /\ j[2] = 0
  BY DEF PublicationInv, TypeOK, Enters
<1>2. job'[j] = row /\ \A k \in Job : k # j => job'[k] = job[k]
  BY <1>1
<1>3. /\ record'[m] = new /\ record' \in [Request -> RecordRow]
      /\ \A n \in Request : n # m => record'[n] = record[n]
  BY <1>1
<1>4. RecordFit(m)'
  BY <1>1, <1>2, <1>3, ReservedFits
<1>5. row.op \in {"update", "delete", "replace"} => Reserves(j)'
  BY <1>2, <1>3 DEF Reserves, Target
<1>6. \A n \in Request : record'[n] = record[n] \/ (record[n].pending = None /\ RecordFit(n)')
  BY <1>3, <1>4
<1>7. \A n \in Request :
          record'[n].item = record[n].item /\ (record'[n].state = "active" => record[n].state = "active")
  BY <1>3
<1>8. /\ row.op \in Publishing \cup {"delete"}
      /\ row.op \in {"create", "replace"} => row.mem = None
      /\ row.op \in {"update", "delete"} => row.mem \in Request
      /\ IF row.op = "replace" THEN row.victim \in Request ELSE row.victim = None
  BY DEF Publishing
<1> QED BY <1>3, <1>5, <1>6, <1>7, <1>8, EntersKeeps

LEMMA EvictionKeeps ==
    ASSUME PublicationInv, NEW r \in Request, NEW m \in Request, CreateWithEviction(r, m)
    PROVE  PublicationInv'
<1> DEFINE j == <<r, 0>>
           row == [NoJob EXCEPT !.op = "replace", !.status = "pending", !.victim = m,
                                !.version = record[m].version, !.item = record[m].item]
           new == [record[m] EXCEPT !.pending = j]
<1>0. record[m] \in RecordRow /\ j \in Job
  BY OwnJob DEF PublicationInv, TypeOK
<1>1. /\ row \in JobRow /\ row.status = "pending" /\ row.op = "replace" /\ row.mem = None /\ row.staged = None
      /\ row.attempts = 0 /\ row.victim = m /\ row.version = record[m].version
  <2>1. NoJob \in JobRow /\ NoJob.mem = None /\ NoJob.staged = None /\ NoJob.attempts = 0
    BY NoRows
  <2>2. record[m].version \in Nat /\ record[m].item \in Item \cup {None}
    BY <1>0 DEF RecordRow
  <2>3. row \in JobRow
    BY <2>1, <2>2 DEF JobRow, Publishing, Waiting
  <2> QED BY <2>1, <2>3 DEF NoJob
<1>2. Enters(j, row) /\ record[m].state = "active" /\ record[m].pending = None
  BY DEF CreateWithEviction, Evictable
<1>3. /\ new \in RecordRow /\ new.state = record[m].state /\ new.version = record[m].version
      /\ new.item = record[m].item /\ new.pending = j /\ new.hidden = record[m].hidden
  BY <1>0 DEF RecordRow
<1>4. record' = [record EXCEPT ![m] = new]
  BY DEF CreateWithEviction
<1> HIDE DEF row, new
<1>5. PICK x \in JobRow, n \in RecordRow :
          /\ Enters(j, x) /\ x.status = "pending" /\ x.op = "replace" /\ x.attempts = 0 /\ x.staged = None
          /\ x.victim = m /\ x.mem = None /\ x.version = record[m].version
          /\ record' = [record EXCEPT ![m] = n]
          /\ n.state = "active"
          /\ n.version = record[m].version /\ n.item = record[m].item /\ n.pending = j
          /\ n.hidden \in {record[m].hidden, j}
  BY <1>1, <1>2, <1>3, <1>4
<1> QED BY <1>0, <1>2, <1>5, ReservesKeeps

LEMMA MutateKeeps ==
    ASSUME PublicationInv, NEW r \in Request, NEW m \in Request, NEW op \in {"update", "delete"}, NEW kept \in RecordRow,
           Mutate(r, m, op, kept), kept.state = (IF op = "delete" THEN "deleted" ELSE "active"),
           kept.version = record[m].version, kept.item = record[m].item, kept.hidden \in {record[m].hidden, <<r, 0>>}
    PROVE  PublicationInv'
<1> DEFINE j == <<r, 0>>
           row == [NoJob EXCEPT !.op = op, !.status = "pending", !.mem = m, !.version = record[m].version]
           new == [kept EXCEPT !.pending = j]
<1>0. record[m] \in RecordRow /\ j \in Job
  BY OwnJob DEF PublicationInv, TypeOK
<1>1. /\ row \in JobRow /\ row.status = "pending" /\ row.op = op /\ row.mem = m /\ row.victim = None
      /\ row.staged = None /\ row.attempts = 0 /\ row.version = record[m].version
  <2>1. NoJob \in JobRow /\ NoJob.mem = None /\ NoJob.victim = None /\ NoJob.staged = None /\ NoJob.attempts = 0
    BY NoRows
  <2>2. record[m].version \in Nat
    BY <1>0 DEF RecordRow
  <2>3. row \in JobRow
    BY <2>1, <2>2 DEF JobRow, Publishing, Cleaning, Waiting
  <2> QED BY <2>1, <2>3 DEF NoJob
<1>2. Enters(j, row) /\ record[m].state = "active" /\ record[m].pending = None
  BY DEF Mutate
<1>3. /\ new \in RecordRow /\ new.state = kept.state /\ new.version = kept.version
      /\ new.item = kept.item /\ new.pending = j /\ new.hidden = kept.hidden
  BY <1>0 DEF RecordRow
<1>4. record' = [record EXCEPT ![m] = new]
  BY DEF Mutate
<1> HIDE DEF row, new
<1>5. PICK x \in JobRow, n \in RecordRow :
          /\ Enters(j, x) /\ x.status = "pending" /\ x.op = op /\ x.attempts = 0 /\ x.staged = None
          /\ x.mem = m /\ x.victim = None /\ x.version = record[m].version
          /\ record' = [record EXCEPT ![m] = n]
          /\ n.state = IF op = "delete" THEN "deleted" ELSE "active"
          /\ n.version = record[m].version /\ n.item = record[m].item /\ n.pending = j
          /\ n.hidden \in {record[m].hidden, j}
  BY <1>1, <1>2, <1>3, <1>4
<1> QED BY <1>0, <1>2, <1>5, ReservesKeeps

LEMMA UpdateKeeps ==
    ASSUME PublicationInv, NEW r \in Request, NEW m \in Request, Update(r, m) \/ Delete(r, m)
    PROVE  PublicationInv'
<1> DEFINE j == <<r, 0>>
<1>0. record[m] \in RecordRow /\ j \in Job
  BY OwnJob DEF PublicationInv, TypeOK
<1>1. CASE Update(r, m)
  <2>1. CASE Mutate(r, m, "update", record[m])
    <3>1. PICK kept \in RecordRow : kept = record[m]
      BY <1>0
    <3>2. kept.state = "active" /\ Mutate(r, m, "update", kept)
      BY <2>1, <3>1 DEF Mutate
    <3> QED BY <3>1, <3>2, MutateKeeps
  <2>2. CASE Mutate(r, m, "update", [record[m] EXCEPT !.hidden = j])
    <3>1. PICK kept : kept = [record[m] EXCEPT !.hidden = j]
      OBVIOUS
    <3>2. kept \in RecordRow /\ kept.version = record[m].version /\ kept.item = record[m].item /\ kept.hidden = j
      BY <1>0, <3>1 DEF RecordRow
    <3>3. kept.state = "active"
      BY <1>0, <2>2, <3>1 DEF RecordRow, Mutate
    <3>4. Mutate(r, m, "update", kept)
      BY <2>2, <3>1
    <3> QED BY <3>2, <3>3, <3>4, MutateKeeps
  <2> QED BY <1>1, <2>1, <2>2 DEF Update
<1>2. CASE Delete(r, m)
  <2>1. PICK kept : kept = [record[m] EXCEPT !.state = "deleted"]
    OBVIOUS
  <2>2. kept \in RecordRow /\ kept.version = record[m].version /\ kept.item = record[m].item /\ kept.hidden = record[m].hidden
        /\ kept.state = "deleted"
    BY <1>0, <2>1 DEF RecordRow
  <2>3. Mutate(r, m, "delete", kept)
    BY <1>2, <2>1 DEF Delete
  <2> QED BY <2>2, <2>3, MutateKeeps
<1> QED BY <1>1, <1>2

LEMMA ResumeKeeps ==
    ASSUME PublicationInv, NEW m \in Request, Resume(m)
    PROVE  PublicationInv'
<1>1. PICK j \in Job : j = <<m, 0>>
  BY OwnJob
<1>2. /\ TypeOK /\ record \in [Request -> RecordRow] /\ record[m] \in RecordRow
      /\ UNCHANGED <<job, cancels, asking, items, task, faults>>
  BY DEF PublicationInv, TypeOK, Resume
<1>3. /\ \A n \in Request : n # m => record'[n] = record[n]
      /\ record'[m] = [record[m] EXCEPT !.hidden = None] /\ record \in [Request -> RecordRow]
      /\ record[m].state = "active" /\ record[m].pending = None
  BY <1>2 DEF Resume
<1>4. record'[m] \in RecordRow
  BY <1>2, <1>3 DEF RecordRow
<1>5. TypeOK'
  BY <1>2, <1>4 DEF TypeOK, Resume
<1>6. /\ record'[m].state = "active" /\ record'[m].version = record[m].version /\ record'[m].item = record[m].item
      /\ record'[m].pending = None /\ record'[m].hidden = None
  BY <1>2, <1>3 DEF RecordRow
<1>7. About(j)
  BY <1>1, <1>2, <1>3 DEF About, Onward, PublicationInv, TypeOK, JobRow
<1>8. RecordFit(m)'
  <2>1. RecordFit(m)
    BY DEF PublicationInv, TablesFit
  <2> QED BY <1>2, <1>3, <1>6, <2>1 DEF RecordFit, Succeeded
<1>9. JobFit(j)'
  <2>1. JobFit(j) /\ RecordFit(m)
    BY DEF PublicationInv, TablesFit
  <2>2. job[j].op \notin {"update", "delete", "vector"} /\ job[j].status = "succeeded"
    BY <1>1, <1>3, <2>1 DEF RecordFit
  <2> QED BY <1>2, <2>1, <2>2 DEF JobFit, Live, Waiting
<1>10. Heir(j) \in Job => job'[Heir(j)] = job[Heir(j)] \/ JobFit(Heir(j))'
  BY <1>2
<1>11. \A n \in Request :
          \/ RecordFit(n)'
          \/ /\ record'[n] = record[n]
             /\ record[n].pending = j /\ record[n].state \in {"active", "deleted"} => job'[j].status \notin Ended
  <2>1. ASSUME NEW n \in Request, n # m, record[n].pending = j, record[n].state \in {"active", "deleted"}
        PROVE  job'[j].status \notin Ended
    <3>1. Live(j)
      BY <2>1, Kinds DEF PublicationInv, TablesFit, RecordFit
    <3> QED BY <1>2, <3>1 DEF Live, Waiting, Ended
  <2> QED BY <1>3, <1>8, <2>1
<1>12. /\ \A n \in Request :
              record'[n].item = record[n].item /\ (record'[n].state = "active" => record[n].state = "active")
       /\ \A k \in asking' : k \in asking \/ job[k].op \in {"create", "replace"}
       /\ job'[j].status = "succeeded" => job[j].status = "succeeded"
  BY <1>2, <1>3, <1>6
<1> QED BY <1>2, <1>5, <1>7, <1>9, <1>10, <1>11, <1>12, Outside

LEMMA RetryCleanupKeeps ==
    ASSUME PublicationInv, NEW j \in Job, RetryCleanup(j)
    PROVE  PublicationInv'
<1>0. PICK h, m : h = Heir(j) /\ m = job[j].mem
  OBVIOUS
<1>1. PICK row : row = [job[j] EXCEPT !.status = "pending", !.attempts = 0]
  OBVIOUS
<1>2. /\ TypeOK /\ job \in [Job -> JobRow] /\ record \in [Request -> RecordRow] /\ job[j] \in JobRow
      /\ JobFit(j) /\ job[j].op \in Cleaning /\ job[j].status = "failed" /\ j[2] < MaxGeneration
      /\ \A k \in Job : JobFit(k)
  BY DEF PublicationInv, TypeOK, TablesFit, RetryCleanup
<1>3. h \in Job /\ h # j /\ Heir(h) # h /\ Heir(h) # j
  <2>1. j \in Request \X (0 .. MaxGeneration) /\ h = <<j[1], j[2] + 1>> /\ Heir(h) = <<j[1], j[2] + 2>> /\ j = <<j[1], j[2]>>
    BY <1>0, PublicationAssumption DEF Heir, Job
  <2> QED BY <1>2, <2>1, PublicationAssumption DEF Job
<1>4. /\ job[h].status = "absent" /\ job' = [job EXCEPT ![h] = row]
      /\ UNCHANGED <<cancels, asking, items, task, faults>>
  BY <1>0, <1>1 DEF RetryCleanup, Enters
<1>5. /\ row \in JobRow /\ row.status = "pending" /\ row.attempts = 0 /\ row.op = job[j].op /\ row.mem = job[j].mem
      /\ row.version = job[j].version /\ row.item = job[j].item /\ row.victim = job[j].victim /\ row.staged = None
  <2>0. job[j] \in JobRow /\ 0 \in 0 .. MaxAttempts
    BY <1>2, PublicationAssumption
  <2>1. row \in JobRow
    BY <1>1, <2>0 DEF JobRow, Waiting
  <2>2. job[j].staged = None
    BY <1>2 DEF JobFit, Publishing, Cleaning
  <2> QED BY <1>1, <2>0, <2>1, <2>2 DEF JobRow
<1>6. job'[h] = row /\ \A k \in Job : k # h => job'[k] = job[k]
  BY <1>2, <1>3, <1>4
<1>7. /\ record' \in [Request -> RecordRow]
      /\ \A n \in Request : record'[n] = record[n] \/ (n = m /\ job[j].op = "delete" /\ record[n].pending = None)
      /\ \A n \in Request : record'[n].item = record[n].item /\ record'[n].state = record[n].state
      /\ job[j].op = "delete" =>
            /\ record[m].state = "deleted" /\ record[m].version = job[j].version
            /\ record'[m] = [record[m] EXCEPT !.pending = h] /\ m \in Request
  <2>1. CASE job[j].op = "delete"
    <3>1. m \in Request
      BY <1>0, <1>2, <2>1 DEF JobFit
    <3>2. /\ record[m].state = "deleted" /\ record[m].version = job[j].version /\ record[m].pending = None
          /\ record' = [record EXCEPT ![m].pending = h]
      BY <1>0, <2>1 DEF RetryCleanup
    <3>3. record[m] \in RecordRow
      BY <1>2, <3>1
    <3>4. [record[m] EXCEPT !.pending = h] \in RecordRow
      BY <1>3, <3>3 DEF RecordRow
    <3>5. record'[m] = [record[m] EXCEPT !.pending = h] /\ \A n \in Request : n # m => record'[n] = record[n]
      BY <1>2, <3>1, <3>2
    <3>6. record' \in [Request -> RecordRow]
      BY <1>2, <3>1, <3>2, <3>4
    <3>7. [record[m] EXCEPT !.pending = h].item = record[m].item /\ [record[m] EXCEPT !.pending = h].state = record[m].state
      BY <3>3 DEF RecordRow
    <3>8. \A n \in Request : record'[n].item = record[n].item /\ record'[n].state = record[n].state
      BY <3>5, <3>7
    <3> QED BY <2>1, <3>1, <3>2, <3>5, <3>6, <3>8
  <2>2. CASE job[j].op # "delete"
    <3>1. record' = record
      BY <2>2 DEF RetryCleanup
    <3> QED BY <1>2, <2>2, <3>1
  <2> QED BY <2>1, <2>2
<1>8. TypeOK'
  BY <1>2, <1>4, <1>5, <1>7 DEF TypeOK
<1>9. About(j)
  <2>1. job'[j] = job[j]
    BY <1>3, <1>6
  <2>2. Onward(j)
    BY <1>2, <2>1 DEF Onward, JobRow
  <2>3. \A n \in Request : record'[n] = record[n] \/ record[n].pending \in {None, j}
    BY <1>7
  <2>4. job'[h].status = "pending" /\ job'[j].status \in Ended
    BY <1>2, <1>5, <1>6, <2>1 DEF Ended
  <2> QED BY <1>0, <1>2, <1>4, <1>6, <2>1, <2>2, <2>3, <2>4 DEF About
<1>10. ASSUME NEW i, Dead(i) PROVE Dead(i)'
  <2>1. i[3][1] \in Job /\ job[i[3][1]].status \in Ended
    BY <1>10, ItemNames, ClaimNames DEF Dead
  <2>2. i[3][1] # h
    BY <1>4, <2>1 DEF Ended
  <2> QED BY <1>6, <1>7, <1>10, <2>1, <2>2 DEF Dead, Active
<1>11. JobFit(j)'
  <2>1. job'[j] = job[j] /\ job[j].status = "failed"
    BY <1>2, <1>3, <1>6
  <2> QED BY <1>2, <1>10, <2>1 DEF JobFit, Live, Waiting, Ended
<1>12. JobFit(h)'
  <2>1. Heir(h) \in Job => job'[Heir(h)].status = "absent"
    BY <1>2, <1>3, <1>4, <1>6 DEF JobFit, Ended
  <2>2. row.op = "vector" => Dead(row.item)'
    BY <1>2, <1>5, <1>10 DEF JobFit
  <2>3. row.op = "delete" => m \in Request /\ row.mem = m /\ record'[m].pending = h /\ record'[m].version = row.version
                             /\ record'[m].state = "deleted"
    BY <1>0, <1>2, <1>5, <1>7 DEF RecordRow
  <2>4. row.op = "delete" => Reserves(h)'
    BY <1>6, <2>3 DEF Reserves, Target
  <2>5. row.op \in {"delete", "vector"} /\ 0 < MaxAttempts /\ row.victim = None
    BY <1>2, <1>5, PublicationAssumption DEF Cleaning, JobFit
  <2> QED BY <1>5, <1>6, <2>1, <2>2, <2>3, <2>4, <2>5 DEF JobFit, Publishing, Ended
<1>13. ASSUME job[j].op = "delete" PROVE RecordFit(m)'
  <2>1. RecordFit(m) /\ record[m].state = "deleted" /\ m \in Request /\ record[m] \in RecordRow
    BY <1>2, <1>7, <1>13 DEF PublicationInv, TablesFit
  <2>2. /\ record'[m].state = "deleted" /\ record'[m].version = record[m].version /\ record'[m].item = record[m].item
        /\ record'[m].pending = h
    BY <1>7, <1>13, <2>1 DEF RecordRow
  <2>3. Live(h)' /\ Target(h)' = m /\ job'[h].op = "delete"
    BY <1>0, <1>5, <1>6, <1>13 DEF Live, Waiting, Target
  <2>4. PICK i : record[m].item = i /\ record'[m].item = i
    BY <2>2
  <2>5. i \in Item /\ i[1] = m /\ Succeeded(i[3]) /\ i[3][1] \in Job
    BY <2>1, <2>4, ItemNames, ClaimNames DEF RecordFit
  <2>6. Succeeded(i[3])'
    BY <1>4, <1>6, <2>5 DEF Succeeded
  <2>7. job'[<<m, 0>>] = job[<<m, 0>>]
    BY <1>4, <1>6, <2>1, OwnJob DEF RecordFit
  <2> QED BY <2>1, <2>2, <2>3, <2>4, <2>5, <2>6, <2>7 DEF RecordFit
<1>14. \A n \in Request :
          \/ RecordFit(n)'
          \/ /\ record'[n] = record[n]
             /\ record[n].pending = j /\ record[n].state \in {"active", "deleted"} => job'[j].status \notin Ended
  <2>1. ASSUME NEW n \in Request, record[n].pending = j, record[n].state \in {"active", "deleted"}
        PROVE  FALSE
    <3>1. Live(j)
      BY <2>1, Kinds DEF PublicationInv, TablesFit, RecordFit
    <3> QED BY <1>2, <3>1 DEF Live, Waiting
  <2> QED BY <1>7, <1>13, <2>1
<1>15. /\ \A n \in Request :
              record'[n].item = record[n].item /\ (record'[n].state = "active" => record[n].state = "active")
       /\ \A k \in asking' : k \in asking \/ job[k].op \in {"create", "replace"}
       /\ job'[j].status = "succeeded" => job[j].status = "succeeded"
       /\ UNCHANGED <<items, task>>
  BY <1>3, <1>4, <1>6, <1>7
<1>16. Heir(j) \in Job => job'[Heir(j)] = job[Heir(j)] \/ JobFit(Heir(j))'
  BY <1>0, <1>12
<1> QED BY <1>8, <1>9, <1>11, <1>14, <1>15, <1>16, Outside

-----------------------------------------------------------------------------
(* The end of a job *)

LEMMA QuietKeeps ==
    ASSUME PublicationInv, NEW j \in Job, job[j].status # "absent", UNCHANGED <<job, record, items, task>>, TypeOK',
           \A k \in asking' : k \in asking \/ job[k].op \in {"create", "replace"}
    PROVE  PublicationInv'
<1>1. JobFit(j) /\ job[j] \in JobRow /\ \A m \in Request : RecordFit(m)
  BY DEF PublicationInv, TablesFit, TypeOK
<1>2. About(j)
  BY <1>1 DEF About, Onward, JobRow
<1>3. JobFit(j)'
  BY <1>1 DEF JobFit, Dead, Active, Live, Reserves, Target
<1>4. \A m \in Request : RecordFit(m)'
  BY ZenonT(40), <1>1 DEF RecordFit, Succeeded, Live, Target
<1>5. job'[j].status = "succeeded" => job[j].status = "succeeded"
  OBVIOUS
<1>6. Heir(j) \in Job => job'[Heir(j)] = job[Heir(j)] \/ JobFit(Heir(j))'
  OBVIOUS
<1>7. \A m \in Request :
          record'[m].item = record[m].item /\ (record'[m].state = "active" => record[m].state = "active")
  OBVIOUS
<1> QED BY <1>2, <1>3, <1>4, <1>5, <1>6, <1>7, Outside

LEMMA AskCancelKeeps ==
    ASSUME PublicationInv, NEW j \in Job, AskCancel(j)
    PROVE  PublicationInv'
<1>1. JobFit(j) /\ TypeOK
  BY DEF PublicationInv, TablesFit
<1>2. job[j].op \in {"create", "replace"} /\ job[j].status # "absent"
  BY <1>1, Kinds DEF AskCancel, Live, Waiting, Publishing, JobFit
<1>3. TypeOK'
  BY <1>1, PublicationAssumption DEF AskCancel, Fault, TypeOK
<1> QED BY <1>2, <1>3, QuietKeeps DEF AskCancel

LEMMA CancelTooLateKeeps ==
    ASSUME PublicationInv, NEW j \in Job, CancelTooLate(j)
    PROVE  PublicationInv'
<1>1. TypeOK'
  BY DEF PublicationInv, TypeOK, CancelTooLate
<1> QED BY <1>1, QuietKeeps DEF CancelTooLate, Ended

\* What a job that ends leaves in the job table.
LEMMA EndRows ==
    ASSUME PublicationInv, NEW j \in Job, Live(j), NEW s \in Ended \cup {"retry"}, job' = EndsAs(j, s)
    PROVE  /\ job' \in [Job -> JobRow]
           /\ job'[j] = [job[j] EXCEPT !.status = s] /\ job'[j].status = s
           /\ \A k \in Job \ {j, Heir(j)} : job'[k] = job[k]
           /\ Heir(j) \in Job =>
                /\ job[Heir(j)].status = "absent"
                /\ \/ job'[Heir(j)] = job[Heir(j)]
                   \/ /\ job'[Heir(j)] = VectorCleanup(job[j].staged) /\ job[j].staged # None
                      /\ s \in Ended
           /\ Onward(j)
<1>1. job \in [Job -> JobRow] /\ job[j] \in JobRow /\ JobFit(j)
  BY DEF PublicationInv, TypeOK, TablesFit
<1>2. job[j].status \in Waiting \cup {"running"}
  BY DEF Live
<1>3. Heir(j) # j
  BY JobNames
<1>4. Heir(j) \in Job => job[Heir(j)].status = "absent"
  BY <1>1, <1>2 DEF JobFit, Waiting, Ended
<1>5. [job[j] EXCEPT !.status = s] \in JobRow /\ [job[j] EXCEPT !.status = s].status = s
  BY <1>1 DEF JobRow, Waiting
<1>6. ASSUME job[j].staged # None PROVE VectorCleanup(job[j].staged) \in JobRow
  <2>1. job[j].staged \in Item /\ NoJob \in JobRow
    BY <1>1, <1>6, NoRows DEF JobRow
  <2> QED BY <2>1 DEF VectorCleanup, JobRow, Cleaning, Waiting
<1>7. job'[j] = [job[j] EXCEPT !.status = s]
  BY DEF EndsAs
<1>8. \A k \in Job \ {j, Heir(j)} : job'[k] = job[k]
  BY DEF EndsAs
<1>9. Heir(j) \in Job =>
          \/ job'[Heir(j)] = job[Heir(j)]
          \/ job'[Heir(j)] = VectorCleanup(job[j].staged) /\ job[j].staged # None /\ s \in Ended
  BY <1>3 DEF EndsAs, Ended
<1>10. \A k \in Job : job'[k] \in JobRow
  BY <1>1, <1>5, <1>6, <1>7, <1>8, <1>9
<1>11. job' \in [Job -> JobRow]
  BY <1>10 DEF EndsAs
<1>12. Onward(j)
  <2>1. /\ job'[j].status = s /\ job'[j].op = job[j].op /\ job'[j].victim = job[j].victim
        /\ job'[j].version = job[j].version /\ job'[j].item = job[j].item /\ job'[j].mem = job[j].mem
        /\ job'[j].attempts = job[j].attempts
    BY <1>1, <1>7 DEF JobRow
  <2> QED BY <1>2, <2>1 DEF Onward, Waiting, Ended
<1> QED BY <1>4, <1>5, <1>7, <1>8, <1>9, <1>11, <1>12

\* What it leaves in the record table.
LEMMA EndRecords ==
    ASSUME PublicationInv, NEW j \in Job, Live(j), NEW mem, mem = job[j].mem \/ (mem = None /\ job[j].op \in {"create", "replace"}),
           record' = ClearPending(j, mem, record)
    PROVE  /\ record' \in [Request -> RecordRow]
           /\ \A m \in Request :
                /\ record'[m].item = record[m].item /\ (record'[m].state = "active" => record[m].state = "active")
                /\ \/ record'[m] = record[m] /\ (record[m].pending = j => record[m].state \notin {"active", "deleted"})
                   \/ record'[m] = NoRecord
                   \/ /\ record[m].pending = j /\ record'[m] = [record[m] EXCEPT !.pending = None]
                      /\ record[m].state \in {"active", "deleted"}
<1>1. record \in [Request -> RecordRow] /\ \A m \in Request : RecordFit(m)
  BY DEF PublicationInv, TypeOK, TablesFit
<1>2. ASSUME NEW m \in Request
      PROVE  /\ record'[m] \in RecordRow
             /\ record'[m].item = record[m].item /\ (record'[m].state = "active" => record[m].state = "active")
             /\ \/ record'[m] = record[m] /\ (record[m].pending = j => record[m].state \notin {"active", "deleted"})
                \/ record'[m] = NoRecord
                \/ /\ record[m].pending = j /\ record'[m] = [record[m] EXCEPT !.pending = None]
                   /\ record[m].state \in {"active", "deleted"}
  <2>0. RecordFit(m) /\ record[m] \in RecordRow
    BY <1>1
  <2>1. CASE record[m].pending # j
    <3>1. record'[m] = record[m]
      BY <2>1 DEF ClearPending
    <3> QED BY <2>0, <2>1, <3>1
  <2>2. CASE record[m].pending = j /\ record[m].state = "absent"
    BY <2>0, <2>2, NoRows, Kinds DEF RecordFit
  <2>3. CASE record[m].pending = j /\ record[m].state \in {"active", "deleted"}
    <3>1. Live(j) /\ Target(j) = m /\ job[j].op \in {"delete", "update", "replace"}
      BY <2>0, <2>3, Kinds DEF RecordFit
    <3>2. job[j].op # "create" /\ m \in {job[j].victim, mem}
      BY <3>1 DEF Target
    <3>3. record'[m] = [record[m] EXCEPT !.pending = None]
      BY <2>3, <3>2 DEF ClearPending
    <3>4. /\ [record[m] EXCEPT !.pending = None] \in RecordRow
          /\ [record[m] EXCEPT !.pending = None].item = record[m].item
          /\ [record[m] EXCEPT !.pending = None].state = record[m].state
      BY <2>0 DEF RecordRow
    <3> QED BY <2>3, <3>3, <3>4
  <2>4. CASE record[m].pending = j /\ record[m].state = "placeholder"
    <3>1. job[j].op \in {"create", "replace"} /\ job[j].mem = m /\ record[m].item = None
      BY <2>0, <2>4 DEF RecordFit
    <3>2. CASE m = mem
      <4>1. record'[m] = NoRecord
        BY <2>4, <3>1, <3>2 DEF ClearPending
      <4> QED BY <3>1, <4>1, NoRows
    <3>3. CASE m # mem /\ ~(job[j].op # "create" /\ m \in {job[j].victim, mem})
      <4>1. record'[m] = record[m]
        BY <2>4, <3>3 DEF ClearPending
      <4> QED BY <2>0, <2>4, <4>1
    <3>4. CASE m # mem /\ job[j].op = "replace" /\ m = job[j].victim
      <4>1. JobFit(j)
        BY DEF PublicationInv, TablesFit
      <4> QED BY <2>4, <3>4, <4>1 DEF JobFit, Reserves, Target
    <3> QED BY <3>1, <3>2, <3>3, <3>4
  <2> QED BY <2>0, <2>1, <2>2, <2>3, <2>4 DEF RecordRow
<1>3. record' \in [Request -> RecordRow]
  BY <1>2 DEF ClearPending
<1> QED BY <1>2, <1>3

\* The tables after a job has ended, with its records free again.
LEMMA EndTables ==
    ASSUME PublicationInv, NEW j \in Job, Live(j), NEW s \in Ended, s = "succeeded" => job[j].op = "vector",
           job' = EndsAs(j, s),
           NEW mem, mem = job[j].mem \/ (mem = None /\ job[j].op \in {"create", "replace"}),
           record' = ClearPending(j, mem, record)
    PROVE  /\ About(j) /\ JobFit(j)'
           /\ Heir(j) \in Job => job'[Heir(j)] = job[Heir(j)] \/ JobFit(Heir(j))'
           /\ \A m \in Request :
                \/ RecordFit(m)'
                \/ /\ record'[m] = record[m]
                   /\ record[m].pending = j /\ record[m].state \in {"active", "deleted"} => job'[j].status \notin Ended
<1>1. /\ job \in [Job -> JobRow] /\ job[j] \in JobRow /\ JobFit(j) /\ record \in [Request -> RecordRow]
      /\ \A k \in Job : JobFit(k)
      /\ \A m \in Request : RecordFit(m)
  BY DEF PublicationInv, TypeOK, TablesFit
<1>2. /\ job' \in [Job -> JobRow] /\ job'[j] = [job[j] EXCEPT !.status = s]
      /\ \A k \in Job \ {j, Heir(j)} : job'[k] = job[k]
      /\ Heir(j) \in Job =>
            /\ job[Heir(j)].status = "absent"
            /\ \/ job'[Heir(j)] = job[Heir(j)]
               \/ job'[Heir(j)] = VectorCleanup(job[j].staged) /\ job[j].staged # None
      /\ Onward(j)
  BY EndRows
<1>3. \A m \in Request :
        /\ record'[m].item = record[m].item /\ (record'[m].state = "active" => record[m].state = "active")
        /\ \/ record'[m] = record[m] /\ (record[m].pending = j => record[m].state \notin {"active", "deleted"})
           \/ record'[m] = NoRecord
           \/ /\ record[m].pending = j /\ record'[m] = [record[m] EXCEPT !.pending = None]
              /\ record[m].state \in {"active", "deleted"}
  BY EndRecords
<1>4. /\ job'[j].status = s /\ job'[j].op = job[j].op /\ job'[j].mem = job[j].mem /\ job'[j].victim = job[j].victim
      /\ job'[j].staged = job[j].staged /\ job'[j].item = job[j].item /\ job'[j].attempts = job[j].attempts
  BY <1>1, <1>2 DEF JobRow, Ended, Waiting
<1>5. Heir(j) # j /\ job[j].status \in Waiting \cup {"running"}
  BY JobNames DEF Live
<1>6. \A k \in Job : job[k].status \in Ended => job'[k] = job[k]
  BY <1>2, <1>5 DEF Waiting, Ended
<1>7. ASSUME NEW i, Dead(i) PROVE Dead(i)'
  <2>1. i[3][1] \in Job /\ job[i[3][1]].status \in Ended
    BY <1>7, ItemNames, ClaimNames DEF Dead
  <2> QED BY <1>3, <1>6, <1>7, <2>1 DEF Dead, Active
<1>8. JobFit(j)'
  BY <1>1, <1>4, <1>5, <1>7 DEF JobFit, Live, Waiting, Ended
<1>9. About(j)
  <2>1. job[j].status # "absent" /\ job'[j].status \in Ended
    BY <1>4, <1>5 DEF Waiting
  <2>2. \A m \in Request : record'[m] = record[m] \/ record[m].pending \in {None, j}
    BY DEF ClearPending
  <2>3. VectorCleanup(job[j].staged).status = "pending"
    BY NoRows DEF VectorCleanup, NoJob
  <2> QED BY <1>2, <2>1, <2>2, <2>3 DEF About
<1>10. ASSUME Heir(j) \in Job, NEW i, i = job[j].staged, job'[Heir(j)] = VectorCleanup(i), i # None PROVE JobFit(Heir(j))'
  <2>1. PICK h \in Job : h = Heir(j)
    BY <1>10
  <2>2. /\ job'[h].op = "vector" /\ job'[h].status = "pending" /\ job'[h].item = i /\ job'[h].staged = None
        /\ job'[h].attempts = 0 /\ job'[h].victim = None
    BY <1>10, <2>1 DEF VectorCleanup, NoJob
  <2>3. Dead(i)'
    <3>1. i \in Item /\ i[3][1] = j
      BY <1>1, <1>10 DEF JobFit
    <3>2. ASSUME NEW m \in Request, record'[m].state = "active", record'[m].item = i PROVE FALSE
      <4>1. Succeeded(i[3])
        BY <1>1, <1>3, <3>2 DEF RecordFit
      <4> QED BY <1>5, <3>1, <4>1 DEF Succeeded, Waiting
    <3>3. job'[i[3][1]].status \in Ended
      BY <1>4, <3>1
    <3> QED BY <3>1, <3>2, <3>3 DEF Dead, Active
  <2>4. Heir(h) \in Job => job'[Heir(h)].status = "absent"
    <3>1. Heir(h) # h /\ Heir(h) # j
      <4>1. h = <<j[1], j[2] + 1>> /\ Heir(h) = <<h[1], h[2] + 1>> /\ j[2] \in Nat /\ j = <<j[1], j[2]>>
        BY <2>1, JobNames DEF Heir
      <4> QED BY <4>1
    <3>2. Heir(h) \in Job => job[Heir(h)].status = "absent"
      BY <1>1, <1>2, <2>1 DEF JobFit, Ended
    <3> QED BY <1>2, <2>1, <3>1, <3>2
  <2>5. JobFit(h)'
    BY <2>2, <2>3, <2>4, PublicationAssumption DEF JobFit, Publishing, Live
  <2> QED BY <2>1, <2>5
<1>11. ASSUME NEW m \in Request, record[m].pending = j, record'[m] = [record[m] EXCEPT !.pending = None],
              record[m].state \in {"active", "deleted"}
       PROVE  RecordFit(m)'
  <2>1. RecordFit(m) /\ record[m] \in RecordRow
    BY <1>1
  <2>2. /\ record'[m].state = record[m].state /\ record'[m].version = record[m].version /\ record'[m].pending = None
        /\ record'[m].item = record[m].item /\ record'[m].hidden = record[m].hidden
    BY <1>11, <2>1 DEF RecordRow
  <2>3. PICK i : record[m].item = i /\ record'[m].item = i
    BY <2>2
  <2>4. i \in Item /\ i[1] = m /\ Succeeded(i[3]) /\ i[3][1] \in Job /\ record[m].version > 0
    BY <1>11, <2>1, <2>3, ItemNames, ClaimNames DEF RecordFit
  <2>5. Succeeded(i[3])'
    BY <1>6, <2>4 DEF Succeeded, Ended
  <2>6. /\ job[<<m, 0>>].op \in {"create", "replace"} /\ job[<<m, 0>>].mem = m /\ job[<<m, 0>>].status = "succeeded"
        /\ job'[<<m, 0>>] = job[<<m, 0>>]
    BY <1>6, <1>11, <2>1, OwnJob DEF RecordFit, Ended
  <2>7. ASSUME record[m].state = "active", record[m].hidden # None
        PROVE  job'[record[m].hidden].status \in {"failed", "cancelled"}
    <3>1. CASE record[m].hidden = j
      <4>1. job[j].op \in {"update", "replace"}
        BY <1>11, <2>1, <2>7, Kinds DEF RecordFit
      <4> QED BY <1>4, <3>1, <4>1 DEF Ended
    <3>2. CASE record[m].hidden # j
      <4>1. job[record[m].hidden].status \in {"failed", "cancelled"} /\ record[m].hidden \in Job
        BY <1>11, <2>1, <2>7, <3>2 DEF RecordFit, RecordRow
      <4> QED BY <1>6, <4>1 DEF Ended
    <3> QED BY <3>1, <3>2
  <2> QED BY <1>11, <2>2, <2>3, <2>4, <2>5, <2>6, <2>7 DEF RecordFit
<1>12. ASSUME NEW m \in Request, record'[m] = NoRecord PROVE RecordFit(m)'
  BY <1>12, NoRows DEF RecordFit
<1>13. \A m \in Request :
          \/ RecordFit(m)'
          \/ /\ record'[m] = record[m]
             /\ record[m].pending = j /\ record[m].state \in {"active", "deleted"} => job'[j].status \notin Ended
  BY <1>3, <1>11, <1>12
<1>14. Heir(j) \in Job => job'[Heir(j)] = job[Heir(j)] \/ JobFit(Heir(j))'
  BY <1>2, <1>10
<1> QED BY <1>8, <1>9, <1>13, <1>14

\* The tables after a job has been released for a later attempt.
LEMMA RetryTables ==
    ASSUME PublicationInv, NEW j \in Job, Live(j), job[j].attempts < MaxAttempts, job' = EndsAs(j, "retry"), record' = record
    PROVE  /\ About(j) /\ JobFit(j)'
           /\ Heir(j) \in Job => job'[Heir(j)] = job[Heir(j)]
           /\ job'[j].status = "retry"
<1>1. /\ job[j] \in JobRow /\ JobFit(j) /\ \A k \in Job : JobFit(k)
  BY DEF PublicationInv, TypeOK, TablesFit
<1>2. /\ job'[j] = [job[j] EXCEPT !.status = "retry"]
      /\ \A k \in Job \ {j, Heir(j)} : job'[k] = job[k]
      /\ Heir(j) \in Job => job'[Heir(j)] = job[Heir(j)] /\ job[Heir(j)].status = "absent"
      /\ Onward(j)
  <2>1. PICK s \in Ended \cup {"retry"} : s = "retry"
    OBVIOUS
  <2>2. s \notin Ended
    BY <2>1 DEF Ended
  <2>3. job' = EndsAs(j, s)
    BY <2>1
  <2> QED BY <2>1, <2>2, <2>3, EndRows
<1>3. /\ job'[j].status = "retry" /\ job'[j].op = job[j].op /\ job'[j].mem = job[j].mem /\ job'[j].victim = job[j].victim
      /\ job'[j].staged = job[j].staged /\ job'[j].item = job[j].item /\ job'[j].attempts = job[j].attempts
      /\ job'[j].version = job[j].version
  BY <1>1, <1>2 DEF JobRow, Waiting
<1>4. job[j].status \in Waiting \cup {"running"}
  BY DEF Live
<1>5. About(j)
  BY <1>2, <1>4 DEF About, Waiting
<1>6. ASSUME NEW i, Dead(i) PROVE Dead(i)'
  <2>1. i[3][1] \in Job /\ job[i[3][1]].status \in Ended
    BY <1>6, ItemNames, ClaimNames DEF Dead
  <2>2. job'[i[3][1]] = job[i[3][1]]
    BY <1>2, <1>4, <2>1 DEF Waiting, Ended
  <2> QED BY <1>6, <2>1, <2>2 DEF Dead, Active
<1>7. Live(j) /\ job[j].op \in {"update", "delete", "replace"} => Reserves(j)'
  BY <1>1, <1>3 DEF JobFit, Reserves, Target
<1>8. JobFit(j)'
  BY <1>1, <1>2, <1>3, <1>4, <1>6, <1>7 DEF JobFit, Ended, Waiting
<1> QED BY <1>2, <1>3, <1>5, <1>8

LEMMA EndKeeps ==
    ASSUME PublicationInv, NEW j \in Job, Live(j), NEW s \in {"failed", "cancelled"}, job' = EndsAs(j, s),
           NEW mem, mem = job[j].mem \/ (mem = None /\ job[j].op \in {"create", "replace"}),
           record' = ClearPending(j, mem, record), UNCHANGED <<items, task>>,
           asking' \subseteq asking, cancels' = cancels, faults' \in 0 .. MaxFaults
    PROVE  PublicationInv'
<1>0. s \in Ended \cup {"retry"} /\ s \in Ended /\ s # "succeeded"
  BY DEF Ended
<1>1. job' \in [Job -> JobRow] /\ job'[j].status = s
  BY <1>0, EndRows
<1>2. record' \in [Request -> RecordRow]
  BY EndRecords
<1>3. TypeOK'
  BY <1>1, <1>2 DEF PublicationInv, TypeOK
<1>4. \A m \in Request : record'[m].item = record[m].item /\ (record'[m].state = "active" => record[m].state = "active")
  BY EndRecords
<1>5. /\ About(j) /\ JobFit(j)'
      /\ Heir(j) \in Job => job'[Heir(j)] = job[Heir(j)] \/ JobFit(Heir(j))'
      /\ \A m \in Request :
            \/ RecordFit(m)'
            \/ /\ record'[m] = record[m]
               /\ record[m].pending = j /\ record[m].state \in {"active", "deleted"} => job'[j].status \notin Ended
  BY <1>0, EndTables
<1>6. /\ \A k \in asking' : k \in asking \/ job[k].op \in {"create", "replace"}
      /\ job'[j].status = "succeeded" => job[j].status = "succeeded"
  BY <1>0, <1>1
<1> QED BY <1>3, <1>4, <1>5, <1>6, Outside

LEMMA RetryKeeps ==
    ASSUME PublicationInv, NEW j \in Job, Live(j), job[j].attempts < MaxAttempts, job' = EndsAs(j, "retry"),
           UNCHANGED <<record, items, task, asking, cancels>>, faults' \in 0 .. MaxFaults
    PROVE  PublicationInv'
<1>1. job' \in [Job -> JobRow]
  BY EndRows
<1>2. TypeOK'
  BY <1>1 DEF PublicationInv, TypeOK
<1>3. /\ About(j) /\ JobFit(j)'
      /\ Heir(j) \in Job => job'[Heir(j)] = job[Heir(j)]
      /\ job'[j].status = "retry"
  BY RetryTables
<1>4. Heir(j) \in Job => job'[Heir(j)] = job[Heir(j)] \/ JobFit(Heir(j))'
  BY <1>3
<1>5. \A m \in Request :
            \/ RecordFit(m)'
            \/ /\ record'[m] = record[m]
               /\ record[m].pending = j /\ record[m].state \in {"active", "deleted"} => job'[j].status \notin Ended
  BY <1>3 DEF Ended
<1>6. \A m \in Request : record'[m].item = record[m].item /\ (record'[m].state = "active" => record[m].state = "active")
  OBVIOUS
<1>7. /\ \A k \in asking' : k \in asking \/ job[k].op \in {"create", "replace"}
      /\ job'[j].status = "succeeded" => job[j].status = "succeeded"
  BY <1>3
<1> QED BY <1>2, <1>3, <1>4, <1>5, <1>6, <1>7, Outside

LEMMA FaultCounts == ASSUME PublicationInv, Fault PROVE faults' \in 0 .. MaxFaults
BY PublicationAssumption DEF PublicationInv, TypeOK, Fault

LEMMA LoseKeeps ==
    ASSUME PublicationInv, NEW j \in Job, Lose(j)
    PROVE  PublicationInv'
<1> DEFINE next == OnLoss(j)
<1>0. PICK s : s = next
  OBVIOUS
<1>1. /\ Fault /\ job[j].status = "running" /\ job' = EndsAs(j, s)
      /\ record' = IF s = "retry" THEN record ELSE ClearPending(j, job[j].mem, record)
      /\ UNCHANGED <<cancels, asking, items, task>>
  BY <1>0 DEF Lose
<1>2. Live(j) /\ faults' \in 0 .. MaxFaults
  BY <1>1, FaultCounts DEF Live
<1>3. CASE s = "retry"
  <2>1. job[j].attempts \in 0 .. MaxAttempts
    BY DEF PublicationInv, TypeOK, JobRow
  <2>2. job[j].attempts < MaxAttempts
    BY <1>0, <1>3, <2>1, PublicationAssumption DEF OnLoss
  <2> QED BY <1>1, <1>2, <1>3, <2>2, RetryKeeps
<1>4. CASE s \in {"failed", "cancelled"}
  <2>1. PICK mem : mem = job[j].mem
    OBVIOUS
  <2>2. record' = ClearPending(j, mem, record)
    BY <1>1, <1>4, <2>1
  <2> QED BY <1>1, <1>2, <1>4, <2>1, <2>2, EndKeeps
<1> QED BY <1>0, <1>3, <1>4 DEF OnLoss

LEMMA CancelKeeps ==
    ASSUME PublicationInv, NEW j \in Job, Cancel(j)
    PROVE  PublicationInv'
<1>1. TypeOK /\ \A k \in asking : job[k].op \in {"create", "replace"}
  BY DEF PublicationInv, TablesFit
<1>2. faults' \in 0 .. MaxFaults
  BY <1>1, FaultCounts DEF Cancel, TypeOK
<1>3. CASE job[j].status = "running" /\ UNCHANGED <<job, record>> /\ cancels' = cancels \cup {j}
  <2>1. TypeOK'
    BY <1>1, <1>2, <1>3 DEF TypeOK, Cancel
  <2> QED BY <1>3, <2>1, QuietKeeps DEF Cancel
<1>4. CASE /\ job[j].status \in Waiting /\ job' = EndsAs(j, "cancelled") /\ UNCHANGED cancels
           /\ \/ record' = ClearPending(j, job[j].mem, record)
              \/ j \in asking /\ record' = ClearPending(j, None, record)
  <2>1. PICK mem : /\ mem = job[j].mem \/ (mem = None /\ j \in asking)
                   /\ record' = ClearPending(j, mem, record)
    BY <1>4
  <2>2. Live(j) /\ asking' \subseteq asking /\ UNCHANGED <<items, task>>
    BY <1>4 DEF Live, Cancel
  <2> QED BY <1>1, <1>2, <1>4, <2>1, <2>2, EndKeeps
<1> QED BY <1>3, <1>4 DEF Cancel

-----------------------------------------------------------------------------
(* The handlers *)

\* A step in which only the handler of c, or the store, changes.
LEMMA HandlerKeeps ==
    ASSUME PublicationInv, NEW c \in Claim, NEW t \in Task, task' = [task EXCEPT ![c] = t],
           UNCHANGED <<job, record, asking, cancels>>, items' \subseteq Item, faults' \in 0 .. MaxFaults,
           ItemsGo({c}), TaskFit(c)'
    PROVE  PublicationInv'
<1>1. /\ TypeOK /\ \A j \in Job : JobFit(j) /\ job[j] \in JobRow
      /\ \A m \in Request : RecordFit(m)
      /\ \A j \in asking : job[j].op \in {"create", "replace"}
      /\ IsFiniteSet(Active) /\ Cardinality(Active) <= MaxActive
  BY DEF PublicationInv, TablesFit, TypeOK
<1>2. TypeOK'
  BY <1>1 DEF TypeOK
<1>3. \A j \in Job : JobFit(j)'
  BY <1>1 DEF JobFit, Dead, Active, Live, Reserves, Target
<1>4. \A m \in Request : RecordFit(m)'
  BY ZenonT(40), <1>1 DEF RecordFit, Succeeded, Live, Target
<1>5. (IsFiniteSet(Active) /\ Cardinality(Active) <= MaxActive)'
  BY <1>1 DEF Active
<1>6. TablesFit'
  BY <1>1, <1>3, <1>4, <1>5 DEF TablesFit
<1>7. JobsGo
  BY <1>1 DEF JobsGo, Onward, JobRow
<1>8. RecordsGo({c}) /\ Succeeds({c})
  BY DEF RecordsGo, Succeeds
<1>9. Step({c})
  BY <1>7, <1>8 DEF Step
<1>10. \A d \in {c} : TaskFit(d)'
  OBVIOUS
<1>11. \A d \in Claim \ {c} : task'[d] = task[d]
  BY <1>1 DEF TypeOK
<1> QED BY <1>2, <1>6, <1>9, <1>10, <1>11, Fitting

\* A handler that is through.
LEMMA DoneFits ==
    ASSUME PublicationInv, NEW c \in Claim, Done(c)
    PROVE  /\ task' = [task EXCEPT ![c] = NoTask] /\ NoTask \in Task
           /\ TaskFit(c)'
<1>1. task' = [task EXCEPT ![c] = NoTask] /\ NoTask \in Task
  BY NoRows DEF Done
<1>2. task'[c] = NoTask /\ NoTask.step = "none" /\ NoTask.then = "none"
  BY <1>1 DEF PublicationInv, TypeOK, NoTask
<1> QED BY <1>1, <1>2 DEF TaskFit

\* A handler that raises.
LEMMA RaiseFits ==
    ASSUME PublicationInv, NEW c \in Claim, NEW then \in {"none", "fail", "retry", "cancel"}, Raise(c, then),
           task[c].step # "none", then = "retry" => c[2] < MaxAttempts,
           job'[c[1]].status # "absent", job'[c[1]].attempts = job[c[1]].attempts,
           job'[c[1]].op = job[c[1]].op, job'[c[1]].mem = job[c[1]].mem
    PROVE  \E t \in Task : task' = [task EXCEPT ![c] = t] /\ TaskFit(c)'
<1>1. task \in [Claim -> Task] /\ task[c] \in Task /\ TaskFit(c)
  BY DEF PublicationInv, TypeOK
<1>2. PICK t : t = IF task[c].step \in {"upsert", "publish"} /\ job[c[1]].op \in Publishing
                   THEN [task[c] EXCEPT !.step = "undo", !.then = then]
                   ELSE [NoTask EXCEPT !.step = then]
  OBVIOUS
<1>3. t \in Task /\ t.step \in {"undo", then}
      /\ (t.then = "retry" => then = "retry")
      /\ (t.step = "undo" => task[c].step \in {"upsert", "publish"})
  BY <1>1, <1>2, NoRows DEF Task, NoTask
<1>4. task' = [task EXCEPT ![c] = t] /\ task'[c] = t
  BY <1>1, <1>2 DEF Raise
<1>5. TaskFit(c)'
  BY <1>1, <1>3, <1>4 DEF TaskFit
<1> QED BY <1>3, <1>4, <1>5

\* A handler that goes on to report an outcome, or nothing.
LEMMA GoesFits ==
    ASSUME PublicationInv, NEW c \in Claim, NEW step \in {"none", "fail", "retry", "cancel"}, Goes(c, step),
           task[c].step # "none", step = "retry" => c[2] < MaxAttempts, UNCHANGED job
    PROVE  \E t \in Task : task' = [task EXCEPT ![c] = t] /\ TaskFit(c)'
<1>1. task \in [Claim -> Task] /\ task[c] \in Task /\ TaskFit(c)
  BY DEF PublicationInv, TypeOK
<1>2. PICK t : t = [task[c] EXCEPT !.step = step]
  OBVIOUS
<1>3. t \in Task /\ t.step = step /\ t.then = task[c].then
  BY <1>1, <1>2 DEF Task
<1>4. task' = [task EXCEPT ![c] = t] /\ task'[c] = t
  BY <1>1, <1>2 DEF Goes
<1>5. TaskFit(c)'
  BY <1>1, <1>3, <1>4 DEF TaskFit
<1> QED BY <1>3, <1>4, <1>5

LEMMA StoreSame == ASSUME NEW c, UNCHANGED items PROVE ItemsGo({c})
BY DEF ItemsGo

LEMMA RaiseKeeps ==
    ASSUME PublicationInv, NEW c \in Claim, NEW then \in {"none", "fail", "retry", "cancel"}, Raise(c, then),
           task[c].step # "none", then = "retry" => c[2] < MaxAttempts,
           UNCHANGED <<job, cancels, asking, record>>, items' \subseteq Item, ItemsGo({c}), faults' \in 0 .. MaxFaults
    PROVE  PublicationInv'
<1>1. job[c[1]].status # "absent"
  BY DEF PublicationInv, TaskFit
<1>2. PICK t \in Task : task' = [task EXCEPT ![c] = t] /\ TaskFit(c)'
  BY <1>1, RaiseFits
<1> QED BY <1>2, HandlerKeeps

LEMMA CheckpointKeeps ==
    ASSUME PublicationInv, NEW c \in Claim, Checkpoint(c)
    PROVE  PublicationInv'
<1>1. items' \subseteq Item /\ ItemsGo({c}) /\ faults' \in 0 .. MaxFaults
  BY StoreSame DEF Checkpoint, PublicationInv, TypeOK
<1>2. CASE Holds(c)
  <2>1. Raise(c, "cancel") /\ task[c].step # "none"
    BY <1>2 DEF Checkpoint
  <2> QED BY <1>1, <2>1, RaiseKeeps DEF Checkpoint
<1>3. CASE ~Holds(c)
  <2>1. Raise(c, "none") /\ task[c].step # "none"
    BY <1>3 DEF Checkpoint
  <2> QED BY <1>1, <2>1, RaiseKeeps DEF Checkpoint
<1> QED BY <1>2, <1>3

LEMMA ErrsKeeps ==
    ASSUME PublicationInv, NEW c \in Claim, Errs(c)
    PROVE  PublicationInv'
<1>1. items' \subseteq Item /\ ItemsGo({c}) /\ faults' \in 0 .. MaxFaults
  BY StoreSame, FaultCounts DEF Errs, PublicationInv, TypeOK
<1>2. PICK then \in {"fail", "retry"} : Raise(c, then) /\ (then = "retry" => c[2] < MaxAttempts)
  BY DEF Errs
<1>3. task[c].step # "none"
  BY DEF Errs
<1> QED BY <1>1, <1>2, <1>3, RaiseKeeps DEF Errs

LEMMA InterruptedKeeps ==
    ASSUME PublicationInv, NEW c \in Claim, Interrupted(c)
    PROVE  PublicationInv'
<1>1. items' \subseteq Item /\ ItemsGo({c}) /\ faults' \in 0 .. MaxFaults
  BY StoreSame, FaultCounts DEF Interrupted, PublicationInv, TypeOK
<1>2. CASE Raise(c, "none")
  BY <1>1, <1>2, RaiseKeeps DEF Interrupted
<1>3. CASE Done(c)
  <2>1. task' = [task EXCEPT ![c] = NoTask] /\ NoTask \in Task /\ TaskFit(c)'
    BY <1>3, DoneFits
  <2> QED BY <1>1, <2>1, HandlerKeeps DEF Interrupted
<1> QED BY <1>2, <1>3 DEF Interrupted

LEMMA UndoKeeps ==
    ASSUME PublicationInv, NEW c \in Claim, Undo(c)
    PROVE  PublicationInv'
<1>1. items' \subseteq Item /\ ItemsGo({c}) /\ faults' \in 0 .. MaxFaults /\ UNCHANGED <<job, record, asking, cancels>>
  BY StoreSame DEF Undo, PublicationInv, TypeOK
<1>2. task \in [Claim -> Task] /\ task[c] \in Task /\ TaskFit(c) /\ task[c].step = "undo"
  BY DEF PublicationInv, TypeOK, Undo
<1>3. CASE Holds(c)
  <2>1. PICK t : t = [task[c] EXCEPT !.step = "undoing"]
    OBVIOUS
  <2>2. t \in Task /\ t.step = "undoing" /\ t.then = task[c].then
    BY <1>2, <2>1 DEF Task
  <2>3. task' = [task EXCEPT ![c] = t] /\ task'[c] = t
    BY <1>2, <1>3, <2>1 DEF Undo, MayUndo, Goes
  <2>4. ~Succeeded(c)'
    BY <1>1, <1>3 DEF Succeeded, Holds
  <2>5. TaskFit(c)'
    BY <1>1, <1>2, <2>2, <2>3, <2>4 DEF TaskFit
  <2> QED BY <1>1, <2>2, <2>3, <2>5, HandlerKeeps
<1>4. CASE ~Holds(c)
  <2>1. PICK then \in {"none", "fail", "retry", "cancel"} : task[c].then = then
    BY <1>2 DEF Task
  <2>2. Goes(c, then) /\ (then = "retry" => c[2] < MaxAttempts)
    BY <1>2, <1>4, <2>1 DEF Undo, MayUndo, TaskFit
  <2>3. PICK t \in Task : task' = [task EXCEPT ![c] = t] /\ TaskFit(c)'
    BY <1>1, <1>2, <2>2, GoesFits
  <2> QED BY <1>1, <2>3, HandlerKeeps
<1> QED BY <1>3, <1>4

LEMMA UndoingKeeps ==
    ASSUME PublicationInv, NEW c \in Claim, Undoing(c)
    PROVE  PublicationInv'
<1>1. UNCHANGED <<job, record, asking, cancels>> /\ task[c] \in Task /\ TaskFit(c) /\ task[c].step = "undoing"
      /\ faults' \in 0 .. MaxFaults
  BY DEF Undoing, PublicationInv, TypeOK
<1>2. items' \subseteq Item /\ ItemsGo({c})
  BY DEF Undoing, ItemsGo, PublicationInv, TypeOK
<1>3. PICK then \in {"none", "fail", "retry", "cancel"} : task[c].then = then
  BY <1>1 DEF Task
<1>4. Goes(c, then) /\ (then = "retry" => c[2] < MaxAttempts)
  BY <1>1, <1>3 DEF Undoing, TaskFit
<1>5. PICK t \in Task : task' = [task EXCEPT ![c] = t] /\ TaskFit(c)'
  BY <1>1, <1>4, GoesFits
<1> QED BY <1>1, <1>2, <1>5, HandlerKeeps

LEMMA DropKeeps ==
    ASSUME PublicationInv, NEW c \in Claim, Drop(c)
    PROVE  PublicationInv'
<1>1. UNCHANGED <<job, record, asking, cancels>> /\ faults' \in 0 .. MaxFaults
  BY DEF Drop, PublicationInv, TypeOK
<1>2. Dead(task[c].prev)
  BY DEF PublicationInv, TaskFit, Drop
<1>3. items' \subseteq Item /\ ItemsGo({c})
  BY <1>2 DEF Drop, ItemsGo, PublicationInv, TypeOK
<1>4. task' = [task EXCEPT ![c] = NoTask] /\ NoTask \in Task /\ TaskFit(c)'
  BY DoneFits DEF Drop
<1> QED BY <1>1, <1>3, <1>4, HandlerKeeps

\* The vector that a publication with a record writes is one of the store's.
LEMMA VectorItemType ==
    ASSUME PublicationInv, NEW c \in Claim, job[c[1]].mem # None
    PROVE  VectorItem(c) \in Item /\ VectorItem(c)[1] = job[c[1]].mem /\ VectorItem(c)[2] \in Nat \ {0}
<1>1. c[1] \in Job /\ job[c[1]] \in JobRow
  BY ClaimNames DEF PublicationInv, TypeOK
<1>2. job[c[1]].mem \in Request /\ job[c[1]].version \in Nat
  BY <1>1 DEF JobRow
<1> QED BY <1>2 DEF VectorItem, Item

LEMMA UpsertKeeps ==
    ASSUME PublicationInv, NEW c \in Claim, Upsert(c)
    PROVE  PublicationInv'
<1>1. /\ UNCHANGED <<job, record, asking, cancels>> /\ task \in [Claim -> Task] /\ task[c] \in Task /\ TaskFit(c)
      /\ task[c].step = "upsert" /\ faults' \in 0 .. MaxFaults
  BY DEF Upsert, PublicationInv, TypeOK
<1>2. job[c[1]].mem # None /\ c[2] \in 1 .. MaxAttempts
  BY <1>1, ClaimNames DEF TaskFit
<1>3. VectorItem(c) \in Item
  BY <1>2, VectorItemType
<1>4. items' = items \cup {VectorItem(c)}
  BY DEF Upsert
<1>5. items' \subseteq Item /\ ItemsGo({c})
  BY <1>1, <1>3, <1>4 DEF ItemsGo, PublicationInv, TypeOK
<1>6. CASE Goes(c, "publish")
  <2>1. PICK t : t = [task[c] EXCEPT !.step = "publish"]
    OBVIOUS
  <2>2. t \in Task /\ t.step = "publish" /\ t.then = task[c].then /\ t.prev = task[c].prev
    BY <1>1, <2>1 DEF Task
  <2>3. task' = [task EXCEPT ![c] = t] /\ task'[c] = t
    BY <1>1, <1>6, <2>1 DEF Goes
  <2>4. VectorItem(c)' \in items'
    BY <1>1, <1>4 DEF VectorItem
  <2>5. PICK prev : task[c].prev = prev /\ task'[c].prev = prev
    BY <2>2, <2>3
  <2>6. prev # None => prev \in Item /\ prev[1] = job[c[1]].mem /\ Succeeded(prev[3])
    BY <1>1, <2>5 DEF TaskFit
  <2>7. Holds(c) => prev = record[job[c[1]].mem].item
    BY <1>1, <2>5 DEF TaskFit
  <2>8. Succeeded(prev[3])' <=> Succeeded(prev[3])
    BY <1>1 DEF Succeeded
  <2>9. ~Succeeded(c)' /\ (Holds(c)' <=> Holds(c))
    BY <1>1 DEF Succeeded, Holds, TaskFit
  <2>10. TaskFit(c)'
    BY <1>1, <2>2, <2>3, <2>4, <2>5, <2>6, <2>7, <2>8, <2>9 DEF TaskFit
  <2> QED BY <1>1, <1>5, <2>2, <2>3, <2>10, HandlerKeeps
<1>7. ASSUME NEW then \in {"retry", "fail"}, Raise(c, then), then = "retry" => c[2] < MaxAttempts PROVE PublicationInv'
  BY <1>1, <1>5, <1>7, RaiseKeeps
<1> QED BY <1>6, <1>7 DEF Upsert

\* What a tombstone's cleanup, or one of a vector, is to erase is no memory's any more.
LEMMA TombstoneDead ==
    ASSUME PublicationInv, NEW m \in Request, record[m].state = "deleted"
    PROVE  Dead(record[m].item)
<1>1. RecordFit(m) /\ \A n \in Request : RecordFit(n)
  BY DEF PublicationInv, TablesFit
<1>2. record[m].item \in Item /\ record[m].item[1] = m /\ Succeeded(record[m].item[3])
  BY <1>1 DEF RecordFit
<1>3. \A n \in Active : record[n].item[1] = n /\ n # m
  BY <1>1 DEF Active, RecordFit
<1> QED BY <1>2, <1>3 DEF Dead, Succeeded, Ended

LEMMA PrepareCleanupKeeps ==
    ASSUME PublicationInv, NEW c \in Claim, PrepareCleanup(c)
    PROVE  PublicationInv'
<1>1. /\ UNCHANGED <<job, record, asking, cancels>> /\ task \in [Claim -> Task] /\ task[c] \in Task /\ TaskFit(c)
      /\ task[c].step = "prepare" /\ faults' \in 0 .. MaxFaults /\ items' \subseteq Item
      /\ job[c[1]].op \in {"delete", "vector"} /\ Holds(c) /\ c[1] \in Job /\ JobFit(c[1])
  BY ClaimNames DEF PrepareCleanup, PublicationInv, TypeOK, Valid, Cleaning, TablesFit
<1>2. ItemsGo({c})
  BY StoreSame DEF PrepareCleanup
<1>3. ASSUME NEW i, Dead(i), task' = [task EXCEPT ![c].step = "erase", ![c].prev = i],
             job[c[1]].op = "vector" => i = job[c[1]].item,
             job[c[1]].op = "delete" => i = record[job[c[1]].mem].item
      PROVE  PublicationInv'
  <2>1. PICK t : t = [task[c] EXCEPT !.step = "erase", !.prev = i]
    OBVIOUS
  <2>2. t \in Task /\ t.step = "erase" /\ t.then = task[c].then /\ t.prev = i
    BY <1>1, <1>3, <2>1 DEF Task, Dead
  <2>3. task' = [task EXCEPT ![c] = t] /\ task'[c] = t
    BY <1>1, <1>3, <2>1
  <2>4. ~Succeeded(c)' /\ Dead(i)'
    BY <1>1, <1>3 DEF Succeeded, Holds, Dead, Active
  <2>5. TaskFit(c)'
    BY <1>1, <1>3, <2>2, <2>3, <2>4 DEF TaskFit, Cleaning
  <2> QED BY <1>1, <1>2, <2>2, <2>3, <2>5, HandlerKeeps
<1>4. CASE job[c[1]].op = "vector"
  <2>1. PICK i : i = job[c[1]].item
    OBVIOUS
  <2>2. Dead(i)
    BY <1>1, <1>4, <2>1 DEF JobFit
  <2>3. task' = [task EXCEPT ![c].step = "erase", ![c].prev = i]
    BY <1>4, <2>1 DEF PrepareCleanup
  <2> QED BY <1>3, <1>4, <2>1, <2>2, <2>3
<1>5. CASE job[c[1]].op = "delete" /\ Tombstoned(c[1])
  <2>1. PICK i : i = record[job[c[1]].mem].item
    OBVIOUS
  <2>2. job[c[1]].mem \in Request /\ record[job[c[1]].mem].state = "deleted"
    BY <1>1, <1>5 DEF JobFit, Tombstoned
  <2>3. Dead(i)
    BY <2>1, <2>2, TombstoneDead
  <2>4. task' = [task EXCEPT ![c].step = "erase", ![c].prev = i]
    BY <1>5, <2>1 DEF PrepareCleanup
  <2> QED BY <1>3, <1>5, <2>1, <2>3, <2>4
<1>6. CASE Raise(c, "fail")
  BY <1>1, <1>2, <1>6, RaiseKeeps
<1> QED BY <1>1, <1>4, <1>5, <1>6 DEF PrepareCleanup

LEMMA EraseKeeps ==
    ASSUME PublicationInv, NEW c \in Claim, Erase(c)
    PROVE  PublicationInv'
<1>1. /\ UNCHANGED <<job, record, asking, cancels>> /\ task \in [Claim -> Task] /\ task[c] \in Task /\ TaskFit(c)
      /\ task[c].step = "erase" /\ faults' \in 0 .. MaxFaults /\ items \subseteq Item
      /\ items' = items \ {task[c].prev}
  BY DEF Erase, PublicationInv, TypeOK
<1>2. PICK i : task[c].prev = i
  OBVIOUS
<1>3. /\ Dead(i) /\ job[c[1]].op \in {"delete", "vector"} /\ ~Succeeded(c)
      /\ job[c[1]].op = "vector" => i = job[c[1]].item
      /\ job[c[1]].op = "delete" /\ Holds(c) => i = record[job[c[1]].mem].item
  BY <1>1, <1>2 DEF TaskFit, Cleaning
<1>4. items' \subseteq Item /\ ItemsGo({c})
  BY <1>1, <1>2, <1>3 DEF ItemsGo
<1>5. PICK step \in {"succeed", "finalize"} : /\ Goes(c, step)
                                              /\ step = "succeed" <=> job[c[1]].op = "vector"
  BY DEF Erase
<1>6. PICK t : t = [task[c] EXCEPT !.step = step]
  OBVIOUS
<1>7. t \in Task /\ t.step = step /\ t.then = task[c].then /\ t.prev = i
  BY <1>1, <1>2, <1>6 DEF Task
<1>8. task' = [task EXCEPT ![c] = t] /\ task'[c] = t
  BY <1>1, <1>5, <1>6 DEF Goes
<1>9. ~Succeeded(c)' /\ Dead(i)' /\ (Holds(c)' <=> Holds(c))
  BY <1>1, <1>3 DEF Succeeded, Holds, Dead, Active
<1>10. TaskFit(c)'
  BY <1>1, <1>2, <1>3, <1>5, <1>7, <1>8, <1>9 DEF TaskFit
<1> QED BY <1>1, <1>4, <1>7, <1>8, <1>10, HandlerKeeps

\* A step of a handler that changes the tables.
LEMMA Inside ==
    ASSUME PublicationInv, TypeOK', NEW c \in Claim, About(c[1]), RecordsGo({c}), ItemsGo({c}),
           JobFit(c[1])',
           Heir(c[1]) \in Job => job'[Heir(c[1])] = job[Heir(c[1])] \/ JobFit(Heir(c[1]))',
           \A m \in Request :
               \/ RecordFit(m)'
               \/ /\ record'[m] = record[m]
                  /\ record[m].pending = c[1] /\ record[m].state \in {"active", "deleted"} => job'[c[1]].status \notin Ended,
           UNCHANGED asking,
           (IsFiniteSet(Active) /\ Cardinality(Active) <= MaxActive)',
           job'[c[1]].status = "succeeded" =>
               /\ Holds(c) /\ job'[c[1]].attempts = job[c[1]].attempts
               /\ job[c[1]].op = "vector" => task[c].step = "succeed"
               /\ job[c[1]].op \in Publishing =>
                     task[c].step = "publish" /\ record'[job[c[1]].mem].item = VectorItem(c),
           NEW t \in Task, task' = [task EXCEPT ![c] = t], TaskFit(c)'
    PROVE  PublicationInv'
<1>1. c[1] \in Job /\ {c} \subseteq Claim /\ job \in [Job -> JobRow] /\ task \in [Claim -> Task]
  BY ClaimNames DEF PublicationInv, TypeOK
<1>2. JobsGo
  BY <1>1, AboutGoes
<1>3. TablesFit'
  <2>1. \A k \in asking' : k \in asking \/ job[k].op \in {"create", "replace"}
    OBVIOUS
  <2>2. PICK j \in Job : j = c[1]
    BY <1>1
  <2> QED BY <1>1, <2>1, <2>2, TablesKeep
<1>4. Succeeds({c})
  <2>1. ASSUME NEW k \in Job, job'[k].status = "succeeded", job[k].status # "succeeded" PROVE k = c[1]
    BY <1>1, <2>1 DEF About
  <2> QED BY <2>1 DEF Succeeds
<1>5. Step({c})
  BY <1>2, <1>4 DEF Step
<1>6. \A d \in {c} : TaskFit(d)'
  OBVIOUS
<1>7. \A d \in Claim \ {c} : task'[d] = task[d]
  BY <1>1
<1> QED BY <1>1, <1>3, <1>5, <1>6, <1>7, Fitting

LEMMA ClaimsKeeps ==
    ASSUME PublicationInv, NEW j \in Job, Claims(j)
    PROVE  PublicationInv'
<1>1. /\ job \in [Job -> JobRow] /\ job[j] \in JobRow /\ JobFit(j) /\ task \in [Claim -> Task]
      /\ job[j].status \in Waiting /\ UNCHANGED <<cancels, asking, record, items, faults>>
      /\ TypeOK
  BY DEF PublicationInv, TypeOK, TablesFit, Claims
<1>2. PICK n : n = job[j].attempts + 1
  OBVIOUS
<1>3. job[j].attempts \in Nat /\ n \in 1 .. MaxAttempts /\ MaxAttempts \in Nat
  <2>1. job[j].attempts \in 0 .. MaxAttempts /\ job[j].attempts < MaxAttempts
    BY <1>1 DEF JobFit, JobRow
  <2> QED BY <1>2, <2>1, PublicationAssumption
<1>4. PICK c \in Claim : c = <<j, n>>
  BY <1>3 DEF Claim
<1>5. c[1] = j /\ c[2] = n
  BY <1>4
<1>6. job' = [job EXCEPT ![j] = [job[j] EXCEPT !.status = "running", !.attempts = n]]
  BY <1>1, <1>2 DEF Claims, JobRow
<1>7. /\ job'[j].status = "running" /\ job'[j].attempts = n /\ job'[j].op = job[j].op /\ job'[j].mem = job[j].mem
      /\ job'[j].version = job[j].version /\ job'[j].victim = job[j].victim /\ job'[j].item = job[j].item
      /\ job'[j].staged = job[j].staged /\ job'[j] \in JobRow
      /\ \A k \in Job \ {j} : job'[k] = job[k]
  <2>1. job'[j] = [job[j] EXCEPT !.status = "running", !.attempts = n] /\ \A k \in Job \ {j} : job'[k] = job[k]
    BY <1>1, <1>6
  <2>2. n \in 0 .. MaxAttempts
    BY <1>3
  <2>3. job'[j] \in JobRow
    BY <1>1, <2>1, <2>2 DEF JobRow
  <2> QED BY <1>1, <2>1, <2>3 DEF JobRow
<1>8. PICK t : t = [NoTask EXCEPT !.step = "prepare"]
  OBVIOUS
<1>9. t \in Task /\ t.step = "prepare" /\ t.then = "none" /\ task' = [task EXCEPT ![c] = t] /\ task'[c] = t
  <2>1. task' = [task EXCEPT ![c] = t]
    BY <1>2, <1>4, <1>8 DEF Claims
  <2> QED BY <1>1, <1>8, <2>1, NoRows DEF Task, NoTask
<1>10. TypeOK'
  <2>1. job' \in [Job -> JobRow]
    BY <1>1, <1>6, <1>7
  <2> QED BY <1>1, <1>9, <2>1 DEF TypeOK
<1>11. Heir(j) \in Job => job'[Heir(j)] = job[Heir(j)] /\ job[Heir(j)].status = "absent"
  BY <1>1, <1>7, JobNames DEF JobFit, Waiting, Ended
<1>12. About(j)
  <2>1. Onward(j)
    BY <1>1, <1>2, <1>7 DEF Onward, Waiting, Ended
  <2> QED BY <1>1, <1>7, <1>11, <2>1 DEF About, Waiting
<1>13. JobFit(j)'
  <2>1. Live(j) /\ (job[j].op \in {"update", "delete", "replace"} => Reserves(j)')
    BY <1>1, <1>7 DEF JobFit, Live, Reserves, Target
  <2>2. ASSUME NEW i, Dead(i) PROVE Dead(i)'
    <3>1. i[3][1] \in Job /\ job[i[3][1]].status \in Ended
      BY <2>2, ItemNames, ClaimNames DEF Dead
    <3>2. job'[i[3][1]] = job[i[3][1]]
      BY <1>1, <1>7, <3>1 DEF Waiting, Ended
    <3> QED BY <1>1, <2>2, <3>1, <3>2 DEF Dead, Active
  <2> QED BY <1>1, <1>7, <1>11, <2>1, <2>2 DEF JobFit, Waiting, Ended
<1>14. TaskFit(c)'
  BY <1>3, <1>5, <1>7, <1>9 DEF TaskFit, Succeeded
<1>15. RecordsGo({c}) /\ ItemsGo({c})
  BY <1>1 DEF RecordsGo, ItemsGo
<1>16. (IsFiniteSet(Active) /\ Cardinality(Active) <= MaxActive)'
  BY <1>1, ActiveShrinks
<1>17. \A m \in Request : record'[m] = record[m] /\ job'[j].status \notin Ended
  BY <1>1, <1>7 DEF Ended
<1>18. job'[j].status # "succeeded"
  BY <1>7
<1> QED BY <1>1, <1>5, <1>9, <1>10, <1>11, <1>12, <1>13, <1>14, <1>15, <1>16, <1>17, <1>18, Inside

LEMMA StageKeeps ==
    ASSUME PublicationInv, NEW c \in Claim, Stage(c)
    PROVE  PublicationInv'
<1>1. /\ job \in [Job -> JobRow] /\ job[c[1]] \in JobRow /\ JobFit(c[1]) /\ task \in [Claim -> Task] /\ task[c] \in Task
      /\ TaskFit(c) /\ c[1] \in Job /\ task[c].step = "stage" /\ Holds(c) /\ TypeOK
      /\ UNCHANGED <<cancels, asking, record, items, faults>>
  BY ClaimNames DEF PublicationInv, TypeOK, TablesFit, Stage, Valid
<1>2. PICK j \in Job : j = c[1]
  BY <1>1
<1>3. PICK i : i = VectorItem(c)
  OBVIOUS
<1>4. job[j].op \in Publishing /\ job[j].mem # None /\ job[j].status = "running" /\ i \in Item /\ i[3] = c
  BY <1>1, <1>2, <1>3, VectorItemType, NameOf DEF TaskFit, Holds
<1>5. job' = [job EXCEPT ![j] = [job[j] EXCEPT !.staged = i]]
  BY <1>1, <1>2, <1>3 DEF Stage
<1>6. /\ job'[j].status = "running" /\ job'[j].attempts = job[j].attempts /\ job'[j].op = job[j].op /\ job'[j].mem = job[j].mem
      /\ job'[j].version = job[j].version /\ job'[j].victim = job[j].victim /\ job'[j].item = job[j].item
      /\ job'[j].staged = i /\ job'[j] \in JobRow
      /\ \A k \in Job \ {j} : job'[k] = job[k]
  <2>1. job'[j] = [job[j] EXCEPT !.staged = i] /\ \A k \in Job \ {j} : job'[k] = job[k]
    BY <1>1, <1>5
  <2>2. job'[j] \in JobRow
    BY <1>1, <1>2, <1>4, <2>1 DEF JobRow
  <2> QED BY <1>1, <1>2, <1>4, <2>1, <2>2 DEF JobRow
<1>7. PICK t : t = [task[c] EXCEPT !.step = "upsert"]
  OBVIOUS
<1>8. t \in Task /\ t.step = "upsert" /\ t.then = task[c].then /\ t.prev = task[c].prev
      /\ task' = [task EXCEPT ![c] = t] /\ task'[c] = t
  BY <1>1, <1>7 DEF Task, Stage, Goes
<1>9. TypeOK'
  <2>1. job' \in [Job -> JobRow]
    BY <1>1, <1>5, <1>6
  <2> QED BY <1>1, <1>8, <2>1 DEF TypeOK
<1>10. Heir(j) \in Job => job'[Heir(j)] = job[Heir(j)] /\ job[Heir(j)].status = "absent"
  BY <1>1, <1>2, <1>4, <1>6, JobNames DEF JobFit, Ended
<1>11. About(j)
  <2>1. Onward(j)
    BY <1>4, <1>6 DEF Onward, Ended
  <2> QED BY <1>1, <1>4, <1>6, <1>10, <2>1 DEF About
<1>12. JobFit(j)'
  <2>1. job[j].op \in {"update", "delete", "replace"} => Reserves(j)'
    BY <1>1, <1>2, <1>4, <1>6 DEF JobFit, Live, Reserves, Target
  <2> QED BY <1>1, <1>2, <1>4, <1>6, <1>10, <2>1 DEF JobFit, Publishing, Waiting, Ended
<1>13. TaskFit(c)'
  <2>1. PICK prev : task[c].prev = prev /\ task'[c].prev = prev
    BY <1>8
  <2>2. prev # None => prev \in Item /\ prev[1] = job[j].mem /\ Succeeded(prev[3])
    BY <1>1, <1>2, <2>1 DEF TaskFit
  <2>3. prev # None => Succeeded(prev[3])'
    <3>1. prev # None => prev[3][1] \in Job /\ prev[3][1] # j
      BY <1>4, <2>2, ItemNames, ClaimNames DEF Succeeded
    <3> QED BY <1>6, <2>2, <3>1 DEF Succeeded
  <2>4. prev = record[job[j].mem].item
    BY <1>1, <1>2, <2>1 DEF TaskFit
  <2>5. ~Succeeded(c)'
    BY <1>2, <1>6 DEF Succeeded
  <2> QED BY <1>1, <1>2, <1>4, <1>6, <1>8, <2>1, <2>2, <2>3, <2>4, <2>5 DEF TaskFit
<1>14. RecordsGo({c}) /\ ItemsGo({c})
  BY <1>1 DEF RecordsGo, ItemsGo
<1>15. (IsFiniteSet(Active) /\ Cardinality(Active) <= MaxActive)'
  BY <1>1, ActiveShrinks
<1>16. \A m \in Request : record'[m] = record[m] /\ job'[j].status \notin Ended
  BY <1>1, <1>6 DEF Ended
<1>17. job'[j].status # "succeeded"
  BY <1>6
<1> QED BY <1>1, <1>2, <1>8, <1>9, <1>10, <1>11, <1>12, <1>13, <1>14, <1>15, <1>16, <1>17, Inside

\* The first attempt of a create inserts the placeholder.
LEMMA PlaceholderKeeps ==
    ASSUME PublicationInv, NEW c \in Claim, Prepare(c), job[c[1]].op # "update", job[c[1]].mem = None,
           HasRoom(c[1])
    PROVE  PublicationInv'
<1>1. /\ job \in [Job -> JobRow] /\ job[c[1]] \in JobRow /\ JobFit(c[1]) /\ task \in [Claim -> Task] /\ task[c] \in Task
      /\ record \in [Request -> RecordRow] /\ \A n \in Request : RecordFit(n)
      /\ TaskFit(c) /\ c[1] \in Job /\ task[c].step = "prepare" /\ Holds(c) /\ TypeOK
      /\ UNCHANGED <<cancels, asking, items, faults>>
  BY ClaimNames DEF PublicationInv, TypeOK, TablesFit, Prepare, Valid
<1>2. PICK j \in Job, m \in Request : j = c[1] /\ m = j[1]
  BY <1>1, JobNames
<1>3. job[j].op \in {"create", "replace"} /\ job[j].mem = None /\ j = <<m, 0>> /\ job[j].status = "running"
  BY <1>1, <1>2, JobNames DEF Prepare, Publishing, JobFit, Holds
<1>4. record[m] = NoRecord
  BY <1>1, <1>3, Kinds DEF RecordFit
<1>5. PICK new : new = [NoRecord EXCEPT !.state = "placeholder", !.pending = j]
  OBVIOUS
<1>6. /\ job' = [job EXCEPT ![j] = [job[j] EXCEPT !.mem = m]] /\ record' = [record EXCEPT ![m] = new]
      /\ task' = [task EXCEPT ![c].step = "stage", ![c].prev = record[m].item]
  BY <1>1, <1>2, <1>3, <1>5 DEF Prepare
<1>7. /\ new \in RecordRow /\ new.state = "placeholder" /\ new.pending = j /\ new.item = None /\ new.version = 0
      /\ record'[m] = new /\ \A n \in Request \ {m} : record'[n] = record[n]
      /\ record' \in [Request -> RecordRow]
  <2>1. new \in RecordRow /\ new.state = "placeholder" /\ new.pending = j /\ new.item = None /\ new.version = 0
    BY <1>5, NoRows DEF RecordRow, NoRecord
  <2> QED BY <1>1, <1>6, <2>1
<1>8. /\ job'[j].status = "running" /\ job'[j].attempts = job[j].attempts /\ job'[j].op = job[j].op /\ job'[j].mem = m
      /\ job'[j].version = job[j].version /\ job'[j].victim = job[j].victim /\ job'[j].item = job[j].item
      /\ job'[j].staged = job[j].staged /\ job'[j] \in JobRow
      /\ \A k \in Job \ {j} : job'[k] = job[k]
  <2>1. job'[j] = [job[j] EXCEPT !.mem = m] /\ \A k \in Job \ {j} : job'[k] = job[k]
    BY <1>1, <1>6
  <2>2. job'[j] \in JobRow
    BY <1>1, <1>2, <2>1 DEF JobRow
  <2> QED BY <1>1, <1>2, <1>3, <2>1, <2>2 DEF JobRow
<1>9. PICK t : t = [task[c] EXCEPT !.step = "stage", !.prev = None]
  OBVIOUS
<1>10. t \in Task /\ t.step = "stage" /\ t.then = task[c].then /\ t.prev = None
       /\ task' = [task EXCEPT ![c] = t] /\ task'[c] = t
  <2>1. task' = [task EXCEPT ![c] = t]
    BY <1>1, <1>4, <1>6, <1>9, NoRows
  <2> QED BY <1>1, <1>9, <2>1 DEF Task
<1>11. TypeOK'
  <2>1. job' \in [Job -> JobRow]
    BY <1>1, <1>6, <1>8
  <2> QED BY <1>1, <1>7, <1>10, <2>1 DEF TypeOK
<1>12. Heir(j) \in Job => job'[Heir(j)] = job[Heir(j)] /\ job[Heir(j)].status = "absent"
  BY <1>1, <1>2, <1>3, <1>8, JobNames DEF JobFit, Ended
<1>13. About(j)
  <2>1. Onward(j)
    BY <1>3, <1>8 DEF Onward, Ended
  <2>2. \A n \in Request : record'[n] = record[n] \/ record[n].pending = None
    BY SMTT(30), <1>4, <1>7, NoRows
  <2> QED BY <1>3, <1>8, <1>12, <2>1, <2>2 DEF About
<1>14. JobFit(j)'
  <2>1. job[j].op = "replace" => Reserves(j)'
    <3>1. job[j].op = "replace" => Reserves(j) /\ Target(j) = job[j].victim /\ job[j].victim \in Request
      BY <1>1, <1>2, <1>3 DEF JobFit, Live, Target
    <3>2. job[j].op = "replace" => job[j].victim # m
      BY <1>3, <1>4, <3>1, NoRows DEF Reserves
    <3> QED BY <1>3, <1>7, <1>8, <3>1, <3>2 DEF Reserves, Target
  <2> QED BY <1>1, <1>2, <1>3, <1>8, <1>12, <2>1 DEF JobFit, Publishing, Waiting, Ended
<1>15. RecordFit(m)'
  BY <1>3, <1>7, <1>8 DEF RecordFit
<1>16. TaskFit(c)'
  <2>1. ~Succeeded(c)'
    BY <1>2, <1>8 DEF Succeeded
  <2>2. job[j].status # "absent" /\ c[2] <= job[j].attempts /\ (task[c].then = "retry" => c[2] < MaxAttempts)
    BY <1>1, <1>2 DEF TaskFit
  <2> QED BY <1>2, <1>3, <1>7, <1>8, <1>10, <2>1, <2>2, Kinds DEF TaskFit, Publishing
<1>17. RecordsGo({c}) /\ ItemsGo({c})
  BY <1>1, <1>4, <1>7, NoRows DEF RecordsGo, ItemsGo
<1>18. (IsFiniteSet(Active) /\ Cardinality(Active) <= MaxActive)'
  BY <1>7, ActiveShrinks
<1>19. \A n \in Request : RecordFit(n)' \/ (record'[n] = record[n] /\ job'[j].status \notin Ended)
  BY <1>7, <1>8, <1>15 DEF Ended
<1>20. job'[j].status # "succeeded"
  BY <1>8
<1> QED BY <1>1, <1>2, <1>10, <1>11, <1>12, <1>13, <1>14, <1>16, <1>17, <1>18, <1>19, <1>20, Inside

LEMMA PrepareKeeps ==
    ASSUME PublicationInv, NEW c \in Claim, Prepare(c)
    PROVE  PublicationInv'
<1> DEFINE j == c[1]
<1>1. /\ job \in [Job -> JobRow] /\ job[j] \in JobRow /\ JobFit(j) /\ task \in [Claim -> Task] /\ task[c] \in Task
      /\ TaskFit(c) /\ j \in Job /\ task[c].step = "prepare" /\ Holds(c) /\ job[j].op \in Publishing
      /\ UNCHANGED <<cancels, asking, items, faults>> /\ TypeOK
  BY ClaimNames DEF PublicationInv, TypeOK, TablesFit, Prepare, Valid
<1>2. items' \subseteq Item /\ ItemsGo({c}) /\ faults' \in 0 .. MaxFaults
  BY <1>1, StoreSame DEF TypeOK
<1>3. CASE Raise(c, "fail") /\ UNCHANGED <<job, record>>
  BY <1>1, <1>2, <1>3, RaiseKeeps
<1>4. CASE HasRoom(j) /\ job[j].op # "update" /\ job[j].mem = None
  BY <1>4, PlaceholderKeeps
<1>5. CASE HasRoom(j) /\ ~(job[j].op # "update" /\ job[j].mem = None) /\ Reserved(j)
  <2>1. PICK m, i : m = job[j].mem /\ i = record[m].item
    OBVIOUS
  <2>2. m \in Request /\ record[m].state \in {"active", "placeholder"}
    BY <1>1, <1>5, <2>1 DEF Reserved, JobRow
  <2>3. RecordFit(m) /\ record[m] \in RecordRow
    BY SMTT(30), <2>2 DEF PublicationInv, TablesFit, TypeOK
  <2>4. i # None => i \in Item /\ i[1] = m /\ Succeeded(i[3])
    BY <2>1, <2>2, <2>3 DEF RecordFit
  <2>5. UNCHANGED <<job, record>> /\ task' = [task EXCEPT ![c].step = "stage", ![c].prev = i]
    <3>1. job' = [job EXCEPT ![j].mem = m] /\ record' = record /\ task' = [task EXCEPT ![c].step = "stage", ![c].prev = i]
      BY <1>5, <2>1 DEF Prepare
    <3>2. job' = job
      BY <1>1, <2>1, <3>1 DEF JobRow
    <3> QED BY <3>1, <3>2
  <2>6. PICK t : t = [task[c] EXCEPT !.step = "stage", !.prev = i]
    OBVIOUS
  <2>7. t \in Task /\ t.step = "stage" /\ t.then = task[c].then /\ t.prev = i
        /\ task' = [task EXCEPT ![c] = t] /\ task'[c] = t
    BY <1>1, <2>4, <2>5, <2>6 DEF Task
  <2>8. ~Succeeded(c)' /\ (i # None => Succeeded(i[3])')
    BY <1>1, <2>4, <2>5 DEF Succeeded, Holds
  <2>9. TaskFit(c)'
    BY <1>1, <2>1, <2>2, <2>4, <2>5, <2>7, <2>8, Kinds DEF TaskFit
  <2> QED BY <1>1, <1>2, <2>5, <2>7, <2>9, HandlerKeeps
<1> QED BY <1>3, <1>4, <1>5 DEF Prepare

LEMMA FinalizeKeeps ==
    ASSUME PublicationInv, NEW c \in Claim, Finalize(c)
    PROVE  PublicationInv'
<1>1. /\ job \in [Job -> JobRow] /\ job[c[1]] \in JobRow /\ JobFit(c[1]) /\ task \in [Claim -> Task]
      /\ record \in [Request -> RecordRow] /\ \A n \in Request : RecordFit(n)
      /\ TaskFit(c) /\ c[1] \in Job /\ task[c].step = "finalize" /\ Holds(c) /\ TypeOK
      /\ UNCHANGED <<cancels, asking, items, faults>>
  BY ClaimNames DEF PublicationInv, TypeOK, TablesFit, Finalize, Valid
<1>2. items' \subseteq Item /\ ItemsGo({c}) /\ faults' \in 0 .. MaxFaults
  BY <1>1, StoreSame DEF TypeOK
<1>3. CASE Raise(c, "fail") /\ UNCHANGED <<job, record>>
  BY <1>1, <1>2, <1>3, RaiseKeeps
<1>4. CASE Tombstoned(c[1])
  <2>1. PICK j, m : j \in Job /\ j = c[1] /\ m = job[j].mem
    BY <1>1
  <2>2. /\ job[j].op = "delete" /\ job[j].status = "running" /\ m \in Request
        /\ record[m].state = "deleted" /\ record[m].pending = j
    BY <1>1, <1>4, <2>1 DEF TaskFit, JobFit, Tombstoned, Holds
  <2>3. /\ job' = [job EXCEPT ![j] = [job[j] EXCEPT !.status = "succeeded"]] /\ record' = [record EXCEPT ![m] = NoRecord]
        /\ Done(c)
    BY <1>1, <1>4, <2>1 DEF Finalize
  <2>4. /\ job'[j].status = "succeeded" /\ job'[j].attempts = job[j].attempts /\ job'[j].op = job[j].op
        /\ job'[j].mem = job[j].mem /\ job'[j].version = job[j].version /\ job'[j].victim = job[j].victim
        /\ job'[j].item = job[j].item /\ job'[j].staged = job[j].staged /\ job'[j] \in JobRow
        /\ \A k \in Job \ {j} : job'[k] = job[k]
    <3>1. job'[j] = [job[j] EXCEPT !.status = "succeeded"] /\ \A k \in Job \ {j} : job'[k] = job[k]
      BY <1>1, <2>1, <2>3
    <3>2. job'[j] \in JobRow
      BY <1>1, <2>1, <3>1 DEF JobRow, Ended
    <3> QED BY <1>1, <2>1, <3>1, <3>2 DEF JobRow
  <2>5. record'[m] = NoRecord /\ record' \in [Request -> RecordRow] /\ \A n \in Request \ {m} : record'[n] = record[n]
    BY <1>1, <2>2, <2>3, NoRows
  <2>6. task' = [task EXCEPT ![c] = NoTask] /\ NoTask \in Task /\ TaskFit(c)'
    BY <2>3, DoneFits
  <2>7. TypeOK'
    <3>1. job' \in [Job -> JobRow]
      BY <1>1, <2>3, <2>4
    <3> QED BY <1>1, <2>5, <2>6, <3>1 DEF TypeOK
  <2>8. Heir(j) \in Job => job'[Heir(j)] = job[Heir(j)]
    BY <2>4, JobNames
  <2>9. About(j)
    <3>1. Onward(j)
      BY <2>2, <2>4 DEF Onward, Ended
    <3> QED BY <2>2, <2>4, <2>5, <2>8, <3>1 DEF About
  <2>10. JobFit(j)'
    BY <1>1, <2>1, <2>2, <2>4 DEF JobFit, Live, Waiting, Ended, Publishing
  <2>11. RecordFit(m)'
    BY <2>5, NoRows DEF RecordFit
  <2>12. \A n \in Request :
            \/ RecordFit(n)'
            \/ /\ record'[n] = record[n]
               /\ record[n].pending = j /\ record[n].state \in {"active", "deleted"} => job'[j].status \notin Ended
    <3>1. ASSUME NEW n \in Request, n # m, record[n].pending = j, record[n].state \in {"active", "deleted"} PROVE FALSE
      <4>1. RecordFit(n) /\ j # None
        BY <1>1, <2>1, Kinds
      <4>2. Target(j) = n
        BY <3>1, <4>1 DEF RecordFit
      <4> QED BY <2>1, <2>2, <3>1, <4>2 DEF Target
    <3> QED BY <2>5, <2>11, <3>1
  <2>13. RecordsGo({c})
    <3>1. Holds(c) /\ record[m].pending = c[1] /\ job[c[1]].mem = m /\ job[c[1]].op = "delete"
      BY <1>1, <2>1, <2>2
    <3> QED BY <1>1, <2>2, <2>5, <3>1 DEF RecordsGo
  <2>14. (IsFiniteSet(Active) /\ Cardinality(Active) <= MaxActive)'
    BY <2>5, NoRows, ActiveShrinks
  <2>15. job[j].op # "vector" /\ job[j].op \notin Publishing
    BY <2>2 DEF Publishing
  <2> QED BY <1>1, <1>2, <2>1, <2>4, <2>6, <2>7, <2>8, <2>9, <2>10, <2>12, <2>13, <2>14, <2>15, Inside
<1> QED BY <1>3, <1>4 DEF Finalize

LEMMA MarkKeeps ==
    ASSUME PublicationInv, NEW c \in Claim, Mark(c)
    PROVE  PublicationInv'
<1>1. /\ job \in [Job -> JobRow] /\ job[c[1]] \in JobRow /\ JobFit(c[1]) /\ task \in [Claim -> Task]
      /\ record \in [Request -> RecordRow] /\ \A n \in Request : RecordFit(n)
      /\ TaskFit(c) /\ c[1] \in Job /\ TypeOK
      /\ task[c].step \in {"succeed", "fail", "retry", "cancel"}
      /\ UNCHANGED <<cancels, asking, items, faults>>
  BY ClaimNames DEF PublicationInv, TypeOK, TablesFit, Mark, Outcome
<1>2. items' \subseteq Item /\ ItemsGo({c}) /\ faults' \in 0 .. MaxFaults
  BY <1>1, StoreSame DEF TypeOK
<1>3. PICK j \in Job, step \in {"succeed", "fail", "retry", "cancel"} : j = c[1] /\ step = task[c].step
  BY <1>1
<1>4. PICK s : s = Outcome[step]
  OBVIOUS
<1>5. /\ s \in Ended \cup {"retry"} /\ (s = "retry" <=> step = "retry") /\ (s = "succeeded" <=> step = "succeed")
      /\ (s # "retry" => s \in Ended)
  BY <1>3, <1>4 DEF Outcome, Ended
<1>6. CASE Done(c) /\ UNCHANGED <<job, record>>
  <2>1. task' = [task EXCEPT ![c] = NoTask] /\ NoTask \in Task /\ TaskFit(c)'
    BY <1>6, DoneFits
  <2> QED BY <1>1, <1>2, <1>6, <2>1, HandlerKeeps
<1>7. CASE Goes(c, "cancel") /\ UNCHANGED <<job, record>>
  <2>1. PICK t \in Task : task' = [task EXCEPT ![c] = t] /\ TaskFit(c)'
    BY <1>1, <1>7, GoesFits
  <2> QED BY <1>1, <1>2, <1>7, <2>1, HandlerKeeps
<1>8. CASE /\ Holds(c) /\ Done(c) /\ job' = EndsAs(j, s)
           /\ record' = IF step = "retry" THEN record ELSE ClearPending(j, job[j].mem, record)
  <2>1. /\ Live(j) /\ job[j].status = "running" /\ job[j].attempts = c[2]
        /\ step = "succeed" => job[j].op = "vector" /\ task[c].step = "succeed"
        /\ step = "retry" => c[2] < MaxAttempts
    BY <1>1, <1>3, <1>8 DEF Live, Holds, TaskFit
  <2>2. task' = [task EXCEPT ![c] = NoTask] /\ NoTask \in Task /\ TaskFit(c)'
    BY <1>8, DoneFits
  <2>3. PICK mem : mem = job[j].mem
    OBVIOUS
  <2>4. job' \in [Job -> JobRow] /\ job'[j].status = s /\ job'[j] = [job[j] EXCEPT !.status = s]
    BY <1>5, <1>8, <2>1, EndRows
  <2>5. job'[j].attempts = job[j].attempts
    BY <1>1, <1>3, <2>4 DEF JobRow
  <2>6. CASE step = "retry"
    <3>1. record' = record /\ job' = EndsAs(j, "retry")
      BY <1>5, <1>8, <2>6
    <3>2. About(j) /\ JobFit(j)' /\ (Heir(j) \in Job => job'[Heir(j)] = job[Heir(j)]) /\ job'[j].status = "retry"
      BY <2>1, <2>6, <3>1, RetryTables
    <3>3. TypeOK'
      BY <1>1, <2>2, <2>4, <3>1 DEF TypeOK
    <3>4. RecordsGo({c})
      BY <3>1 DEF RecordsGo
    <3>5. (IsFiniteSet(Active) /\ Cardinality(Active) <= MaxActive)'
      BY <3>1, ActiveShrinks
    <3>6. \A m \in Request : record'[m] = record[m] /\ job'[j].status \notin Ended
      BY <3>1, <3>2 DEF Ended
    <3> QED BY <1>1, <1>2, <1>3, <2>2, <3>2, <3>3, <3>4, <3>5, <3>6, Inside
  <2>7. CASE step # "retry"
    <3>1. record' = ClearPending(j, mem, record) /\ s \in Ended /\ (s = "succeeded" => job[j].op = "vector")
      BY <1>5, <1>8, <2>1, <2>3, <2>7
    <3>2. /\ About(j) /\ JobFit(j)'
          /\ Heir(j) \in Job => job'[Heir(j)] = job[Heir(j)] \/ JobFit(Heir(j))'
          /\ \A m \in Request :
                \/ RecordFit(m)'
                \/ /\ record'[m] = record[m]
                   /\ record[m].pending = j /\ record[m].state \in {"active", "deleted"} => job'[j].status \notin Ended
      BY <1>8, <2>1, <2>3, <3>1, EndTables
    <3>3. /\ record' \in [Request -> RecordRow]
          /\ \A m \in Request : record'[m].item = record[m].item /\ (record'[m].state = "active" => record[m].state = "active")
      BY <2>1, <2>3, <3>1, EndRecords
    <3>4. TypeOK'
      BY <1>1, <2>2, <2>4, <3>3 DEF TypeOK
    <3>5. RecordsGo({c})
      BY <3>3 DEF RecordsGo
    <3>6. (IsFiniteSet(Active) /\ Cardinality(Active) <= MaxActive)'
      BY <3>3, ActiveShrinks
    <3>7. job'[j].status = "succeeded" =>
              /\ Holds(c) /\ job'[j].attempts = job[j].attempts /\ job[j].op = "vector" /\ task[c].step = "succeed"
              /\ job[j].op \notin Publishing
      BY <1>5, <1>8, <2>1, <2>4, <2>5 DEF Publishing
    <3> QED BY <1>1, <1>2, <1>3, <2>2, <3>2, <3>4, <3>5, <3>6, <3>7, Inside
  <2> QED BY <2>6, <2>7
<1> QED BY <1>3, <1>4, <1>6, <1>7, <1>8 DEF Mark, Valid

\* What a publication finds.
LEMMA PublishFinds ==
    ASSUME PublicationInv, NEW c \in Claim, task[c].step = "publish", Holds(c), Reserved(c[1]),
           NEW j, NEW m, NEW v, NEW prev, NEW x,
           j = c[1], m = job[j].mem, v = VectorItem(c), prev = task[c].prev, x = job[j].victim
    PROVE  /\ j \in Job /\ job[j].op \in Publishing /\ job[j].status = "running" /\ job[j].attempts = c[2] /\ j[2] = 0
           /\ m \in Request /\ record[m].pending = j
           /\ v \in Item /\ v[1] = m /\ v[2] \in Nat \ {0} /\ v[3] = c /\ prev # v /\ prev = record[m].item
           /\ job[j].op = "update" =>
                /\ record[m].state = "active" /\ x = None
                /\ prev \in Item /\ prev[1] = m /\ Succeeded(prev[3])
           /\ job[j].op \in {"create", "replace"} =>
                record[m].state = "placeholder" /\ prev = None /\ j = <<m, 0>>
           /\ job[j].op = "create" => x = None
           /\ job[j].op = "replace" =>
                /\ x \in Request /\ x # m /\ record[x].state = "active" /\ record[x].pending = j
                /\ record[x].version = job[j].version /\ record[x].hidden = None
<1>1. /\ job[j] \in JobRow /\ JobFit(j) /\ \A n \in Request : RecordFit(n)
      /\ TaskFit(c) /\ j \in Job
  BY ClaimNames DEF PublicationInv, TypeOK, TablesFit
<1>2. job[j].op \in Publishing /\ job[j].status = "running" /\ job[j].attempts = c[2] /\ m # None
  BY <1>1 DEF TaskFit, Holds
<1>3. m \in Request /\ j[2] = 0 /\ record[m].pending = j
  BY <1>1, <1>2 DEF JobRow, JobFit, Reserved
<1>4. v \in Item /\ v[1] = m /\ v[2] \in Nat \ {0} /\ v[3] = c
  BY <1>2, VectorItemType, NameOf
<1>5. prev = record[m].item
  BY <1>1 DEF TaskFit
<1>6. ~Succeeded(c)
  BY <1>2 DEF Succeeded
<1>7. CASE job[j].op = "update"
  <2>1. record[m].state = "active" /\ x = None
    BY SMTT(30), <1>1, <1>7 DEF Reserved, JobFit
  <2>2. prev \in Item /\ prev[1] = m /\ Succeeded(prev[3])
    <3>1. RecordFit(m)
      BY SMTT(30), <1>1, <1>3
    <3> QED BY <1>5, <2>1, <3>1 DEF RecordFit
  <2> QED BY <1>1, <1>2, <1>3, <1>4, <1>5, <1>6, <1>7, <2>1, <2>2
<1>8. CASE job[j].op \in {"create", "replace"}
  <2>1. record[m].state = "placeholder"
    BY <1>8 DEF Reserved
  <2>2. prev = None
    <3>1. RecordFit(m)
      BY <1>1, <1>3
    <3> QED BY <1>5, <2>1, <3>1 DEF RecordFit
  <2>3. j = <<m, 0>>
    BY <1>1, <1>2, <1>3, <1>8, JobNames DEF JobFit
  <2>4. job[j].op = "create" => x = None
    BY <1>1 DEF JobFit
  <2>5. job[j].op = "replace" =>
                /\ x \in Request /\ record[x].state = "active" /\ record[x].pending = j
                /\ record[x].version = job[j].version /\ record[x].hidden = None
    BY <1>1 DEF JobFit, Reserved
  <2>6. job[j].op = "replace" => x # m
    BY <2>1, <2>5
  <2> QED BY ZenonT(40), <1>1, <1>2, <1>3, <1>4, <1>5, <1>8, <2>1, <2>2, <2>3, <2>4, <2>5, <2>6, Kinds
<1> QED BY <1>2, <1>7, <1>8 DEF Publishing

\* There is still room after it.
LEMMA PublishFitsIn ==
    ASSUME PublicationInv, NEW j \in Job, NEW m \in Request, NEW x, HasRoom(j),
           job[j].op = "update" => record[m].state = "active" /\ Active' = Active,
           job[j].op = "create" => Active' = Active \cup {m},
           job[j].op = "replace" => x \in Active /\ m \notin Active /\ Active' = (Active \ {x}) \cup {m},
           job[j].op \in Publishing
    PROVE  (IsFiniteSet(Active) /\ Cardinality(Active) <= MaxActive)'
<1>1. IsFiniteSet(Active) /\ Cardinality(Active) <= MaxActive /\ Cardinality(Active) \in Nat /\ MaxActive \in Nat
  BY PublicationAssumption, FS_CardinalityType DEF PublicationInv, TablesFit
<1>2. CASE job[j].op = "update"
  BY <1>1, <1>2
<1>3. CASE job[j].op = "create"
  <2>1. Cardinality(Active) < MaxActive
    BY <1>3 DEF HasRoom
  <2>2. IsFiniteSet(Active \cup {m})
    BY <1>1, FS_AddElement
  <2>3. Cardinality(Active \cup {m}) \in {Cardinality(Active), Cardinality(Active) + 1}
    BY <1>1, FS_AddElement
  <2>4. Cardinality(Active \cup {m}) <= MaxActive
    BY <1>1, <2>1, <2>3
  <2> QED BY <1>3, <2>2, <2>4
<1>4. CASE job[j].op = "replace"
  <2> DEFINE rest == Active \ {x}
  <2>1. IsFiniteSet(rest) /\ Cardinality(rest) = Cardinality(Active) - 1
    BY <1>1, <1>4, FS_RemoveElement
  <2> HIDE DEF rest
  <2>2. IsFiniteSet(rest \cup {m}) /\ Cardinality(rest \cup {m}) \in {Cardinality(rest), Cardinality(rest) + 1}
    BY <2>1, FS_AddElement
  <2>3. Cardinality(rest \cup {m}) <= MaxActive
    BY <1>1, <2>1, <2>2
  <2> QED BY <1>4, <2>2, <2>3 DEF rest
<1> QED BY <1>2, <1>3, <1>4 DEF Publishing

LEMMA PublishKeeps ==
    ASSUME PublicationInv, NEW c \in Claim, Publish(c)
    PROVE  PublicationInv'
<1>1. /\ job \in [Job -> JobRow] /\ record \in [Request -> RecordRow] /\ task \in [Claim -> Task] /\ task[c] \in Task
      /\ TaskFit(c) /\ task[c].step = "publish" /\ Holds(c) /\ TypeOK
      /\ UNCHANGED <<cancels, asking, items, faults>>
      /\ \A n \in Request : RecordFit(n)
      /\ \A k \in Job : JobFit(k)
  BY DEF PublicationInv, TypeOK, TablesFit, Publish, Valid
<1>2. items' \subseteq Item /\ ItemsGo({c}) /\ faults' \in 0 .. MaxFaults
  BY <1>1, StoreSame DEF TypeOK
<1>3. CASE Raise(c, "fail") /\ UNCHANGED <<job, record>>
  BY <1>1, <1>2, <1>3, RaiseKeeps
<1>4. CASE HasRoom(c[1]) /\ Reserved(c[1])
  <2>1. PICK j, m, v, prev, x, h :
            j = c[1] /\ m = job[j].mem /\ v = VectorItem(c) /\ prev = task[c].prev /\ x = job[j].victim /\ h = Heir(j)
    OBVIOUS
  <2>2. /\ j \in Job /\ job[j].op \in Publishing /\ job[j].status = "running" /\ job[j].attempts = c[2] /\ j[2] = 0
        /\ m \in Request /\ record[m].pending = j
        /\ v \in Item /\ v[1] = m /\ v[2] \in Nat \ {0} /\ v[3] = c /\ prev # v /\ prev = record[m].item
        /\ job[j].op = "update" =>
             /\ record[m].state = "active" /\ x = None
             /\ prev \in Item /\ prev[1] = m /\ Succeeded(prev[3])
        /\ job[j].op \in {"create", "replace"} =>
             record[m].state = "placeholder" /\ prev = None /\ j = <<m, 0>>
        /\ job[j].op = "create" => x = None
        /\ job[j].op = "replace" =>
             /\ x \in Request /\ x # m /\ record[x].state = "active" /\ record[x].pending = j
             /\ record[x].version = job[j].version /\ record[x].hidden = None
    BY <1>1, <1>4, <2>1, PublishFinds
  <2>3. /\ h \in Job /\ h # j /\ h[2] # 0 /\ job[h].status = "absent"
        /\ Heir(h) # h /\ Heir(h) # j /\ (Heir(h) \in Job => job[Heir(h)].status = "absent")
    <3>1. j = <<j[1], 0>> /\ h = <<j[1], 1>> /\ Heir(h) = <<j[1], 2>> /\ j[1] \in Request
      BY <2>1, <2>2, JobNames DEF Heir
    <3>2. h \in Job
      BY <3>1, PublicationAssumption DEF Job
    <3>3. job[h].status = "absent"
      BY <1>1, <2>1, <2>2, <3>2 DEF JobFit, Ended
    <3>4. Heir(h) \in Job => job[Heir(h)].status = "absent"
      BY <1>1, <3>2, <3>3 DEF JobFit, Ended
    <3> QED BY <3>1, <3>2, <3>3, <3>4
  <2>4. PICK row, new : row = HeirOfPublication(c) /\ new = Published(c)
    OBVIOUS
  <2>5. /\ job[j].op = "replace" =>
             /\ row.op = "delete" /\ row.status = "pending" /\ row.attempts = 0 /\ row.mem = x
             /\ row.version = job[j].version /\ row.victim = None /\ row.staged = None /\ row \in JobRow
        /\ job[j].op = "update" =>
             /\ row = VectorCleanup(prev)
             /\ row.op = "vector" /\ row.status = "pending" /\ row.attempts = 0 /\ row.item = prev
             /\ row.victim = None /\ row.staged = None /\ row \in JobRow
        /\ job[j].op = "create" => row = job[h]
        /\ row \in JobRow
    <3>1. CASE job[j].op = "replace"
      <4>1. row = [NoJob EXCEPT !.op = "delete", !.status = "pending", !.mem = x, !.version = job[j].version]
        BY <2>1, <2>4, <3>1 DEF HeirOfPublication
      <4>2. NoJob \in JobRow /\ NoJob.victim = None /\ NoJob.staged = None /\ NoJob.attempts = 0
        BY NoRows
      <4>3. job[j].version \in Nat /\ x \in Request
        BY <1>1, <2>2, <3>1 DEF JobRow
      <4>4. row \in JobRow
        <5>1. /\ "delete" \in {"none"} \cup Publishing \cup Cleaning
              /\ "pending" \in Waiting \cup Ended \cup {"absent", "running"}
              /\ x \in Request \cup {None}
          BY <4>3 DEF Cleaning, Waiting
        <5> QED BY <4>1, <4>2, <4>3, <5>1 DEF JobRow
      <4> QED BY <3>1, <4>1, <4>2, <4>4 DEF NoJob
    <3>2. CASE job[j].op = "update"
      <4>1. row = VectorCleanup(prev)
        BY <2>1, <2>2, <2>4, <3>2, Kinds DEF HeirOfPublication
      <4>2. NoJob \in JobRow /\ NoJob.victim = None /\ NoJob.staged = None /\ NoJob.attempts = 0
        BY NoRows
      <4>3. row \in JobRow
        <5>1. /\ "vector" \in {"none"} \cup Publishing \cup Cleaning
              /\ "pending" \in Waiting \cup Ended \cup {"absent", "running"}
              /\ prev \in Item \cup {None}
          BY <2>2, <3>2 DEF Cleaning, Waiting
        <5> QED BY <4>1, <4>2, <5>1 DEF VectorCleanup, JobRow
      <4> QED BY <3>2, <4>1, <4>2, <4>3 DEF VectorCleanup, NoJob
    <3>3. CASE job[j].op = "create"
      BY <1>1, <2>1, <2>2, <2>3, <2>4, <3>3 DEF HeirOfPublication
    <3> QED BY <2>2, <3>1, <3>2, <3>3 DEF Publishing
  <2>6. job' = [job EXCEPT ![j].status = "succeeded", ![h] = row] /\ record' = RecordsAfter(c)
    BY <1>4, <2>1, <2>4 DEF Publish
  <2>7. /\ job'[j].status = "succeeded" /\ job'[j].attempts = job[j].attempts /\ job'[j].op = job[j].op
        /\ job'[j].mem = job[j].mem /\ job'[j].version = job[j].version /\ job'[j].victim = job[j].victim
        /\ job'[j].item = job[j].item /\ job'[j].staged = job[j].staged
        /\ job'[h] = row /\ \A k \in Job \ {j, h} : job'[k] = job[k]
        /\ job' \in [Job -> JobRow]
    <3>1. job'[j] = [job[j] EXCEPT !.status = "succeeded"] /\ job'[h] = row /\ \A k \in Job \ {j, h} : job'[k] = job[k]
      BY <1>1, <2>2, <2>3, <2>6
    <3>2. job'[j] \in JobRow /\ job[j] \in JobRow
      BY <1>1, <2>2, <3>1 DEF JobRow, Ended
    <3>3. job' \in [Job -> JobRow]
      BY <1>1, <2>5, <2>6, <3>1, <3>2
    <3> QED BY <3>1, <3>2, <3>3 DEF JobRow
  <2>8. /\ new \in RecordRow /\ new.state = "active" /\ new.version = v[2] /\ new.item = v /\ new.pending = None
        /\ new.hidden = None
    BY <2>1, <2>2, <2>4 DEF Published, RecordRow
  <2>9. /\ record'[m] = new
        /\ job[j].op = "replace" => record'[x] = [record[x] EXCEPT !.state = "deleted", !.pending = h]
        /\ \A n \in Request : n # m /\ (job[j].op = "replace" => n # x) => record'[n] = record[n]
    <3>1. job[j].op # "replace" => x \notin Request
      BY <2>2, Kinds DEF Publishing
    <3> QED BY <2>1, <2>2, <2>4, <2>6, <3>1 DEF RecordsAfter
  <2>10. job[j].op = "replace" =>
             /\ record'[x] \in RecordRow /\ record'[x].state = "deleted" /\ record'[x].pending = h
             /\ record'[x].version = record[x].version /\ record'[x].item = record[x].item
    BY <1>1, <2>2, <2>3, <2>9 DEF RecordRow
  <2>11. record' \in [Request -> RecordRow]
    <3>1. \A n \in Request : record'[n] \in RecordRow
      BY <1>1, <2>8, <2>9, <2>10
    <3> QED BY <2>6, <3>1 DEF RecordsAfter
  <2>12. \A k \in Job : job[k].status \in Ended => job'[k] = job[k]
    BY <2>2, <2>3, <2>7 DEF Ended
  <2>13. \A n \in Request : record'[n].state = "active" => n = m \/ (record'[n] = record[n] /\ n # x)
    BY <2>2, <2>9, <2>10, Kinds DEF Publishing
  <2>14. ASSUME NEW i, Dead(i) PROVE Dead(i)'
    <3>1. i \in Item /\ i[3][1] \in Job /\ job[i[3][1]].status \in Ended
      BY <2>14, ItemNames, ClaimNames DEF Dead
    <3>2. i # v
      BY <2>1, <2>2, <3>1 DEF Ended
    <3>3. ASSUME NEW n \in Request, record'[n].state = "active" PROVE record'[n].item # i
      <4>1. n = m \/ (record'[n] = record[n] /\ record[n].state = "active")
        BY <2>13, <3>3
      <4>2. record'[m].item = v
        BY <2>8, <2>9
      <4> QED BY <2>14, <3>2, <4>1, <4>2 DEF Dead, Active
    <3> QED BY <2>12, <3>1, <3>3 DEF Dead, Active
  <2>15. ASSUME job[j].op = "update" PROVE Dead(prev)'
    <3>1. prev \in Item /\ prev[1] = m /\ Succeeded(prev[3]) /\ prev[3][1] \in Job
      BY <2>2, <2>15, ItemNames, ClaimNames
    <3>2. job'[prev[3][1]].status \in Ended
      BY <2>12, <3>1 DEF Succeeded, Ended
    <3>3. ASSUME NEW n \in Request, record'[n].state = "active" PROVE record'[n].item # prev
      <4>1. CASE n = m
        BY <2>2, <2>8, <2>9, <4>1
      <4>2. CASE n # m
        <5>1. record'[n] = record[n] /\ record[n].state = "active"
          BY <2>13, <3>3, <4>2
        <5>2. RecordFit(n)
          BY <1>1
        <5>3. record[n].item[1] = n
          BY <5>1, <5>2 DEF RecordFit
        <5> QED BY <3>1, <4>2, <5>1, <5>3
      <4> QED BY <4>1, <4>2
    <3> QED BY <3>1, <3>2, <3>3 DEF Dead, Active
  <2>16. JobFit(j)'
    BY <1>1, <2>2, <2>7 DEF JobFit, Live, Waiting, Ended, Publishing
  <2>17. JobFit(h)'
    <3>0. Heir(h) \in Job => job'[Heir(h)].status = "absent"
      BY <2>3, <2>7
    <3>1. CASE job[j].op = "replace"
      <4>1. Reserves(h)'
        BY <2>2, <2>5, <2>7, <2>10, <3>1 DEF Reserves, Target
      <4> QED BY <2>2, <2>5, <2>7, <3>0, <3>1, <4>1, PublicationAssumption DEF JobFit, Publishing, Waiting, Ended
    <3>2. CASE job[j].op = "update"
      BY <2>5, <2>7, <2>15, <3>0, <3>2, PublicationAssumption DEF JobFit, Publishing, Waiting, Ended
    <3>3. CASE job[j].op = "create"
      <4>1. job'[h] = job[h] /\ JobFit(h) /\ job[h] = NoJob
        BY <1>1, <2>3, <2>5, <2>7, <3>3 DEF JobFit
      <4> QED BY <2>3, <3>0, <4>1, NoRows DEF JobFit, Live, Publishing, Waiting, Ended
    <3> QED BY <2>2, <3>1, <3>2, <3>3 DEF Publishing
  <2>18. RecordFit(m)'
    <3>1. Succeeded(v[3])'
      BY <2>1, <2>2, <2>7 DEF Succeeded
    <3>2. job'[<<m, 0>>].op \in {"create", "replace"} /\ job'[<<m, 0>>].mem = m /\ job'[<<m, 0>>].status = "succeeded"
      <4>1. CASE job[j].op = "update"
        <5>1. RecordFit(m)
          BY <1>1, <2>2
        <5>2. job[<<m, 0>>].op \in {"create", "replace"} /\ job[<<m, 0>>].mem = m /\ job[<<m, 0>>].status = "succeeded"
          BY <2>2, <4>1, <5>1 DEF RecordFit
        <5> QED BY <2>2, <2>12, <5>2, OwnJob DEF Ended
      <4>2. CASE job[j].op \in {"create", "replace"}
        BY <2>1, <2>2, <2>7, <4>2
      <4> QED BY <2>2, <4>1, <4>2 DEF Publishing
    <3> QED BY SMTT(30), <2>2, <2>8, <2>9, <3>1, <3>2 DEF RecordFit
  <2>19. ASSUME job[j].op = "replace" PROVE RecordFit(x)'
    <3>1. RecordFit(x) /\ x \in Request /\ record[x].state = "active"
      BY <1>1, <2>2, <2>19
    <3>2. PICK i : record[x].item = i /\ record'[x].item = i
      BY <2>10, <2>19
    <3>3. i \in Item /\ i[1] = x /\ Succeeded(i[3]) /\ i[3][1] \in Job /\ record[x].version > 0
      BY <3>1, <3>2, ItemNames, ClaimNames DEF RecordFit
    <3>4. Succeeded(i[3])'
      BY <2>12, <3>3 DEF Succeeded, Ended
    <3>5. job'[<<x, 0>>].op \in {"create", "replace"} /\ job'[<<x, 0>>].mem = x /\ job'[<<x, 0>>].status = "succeeded"
      <4>1. job[<<x, 0>>].op \in {"create", "replace"} /\ job[<<x, 0>>].mem = x /\ job[<<x, 0>>].status = "succeeded"
        BY <3>1 DEF RecordFit
      <4> QED BY <2>12, <3>1, <4>1, OwnJob DEF Ended
    <3>6. Live(h)' /\ Target(h)' = x /\ job'[h].op = "delete"
      BY <2>5, <2>7, <2>19 DEF Live, Waiting, Target
    <3> QED BY <2>10, <2>19, <3>2, <3>3, <3>4, <3>5, <3>6 DEF RecordFit
  <2>20. \A n \in Request :
            \/ RecordFit(n)'
            \/ /\ record'[n] = record[n]
               /\ record[n].pending = j /\ record[n].state \in {"active", "deleted"} => job'[j].status \notin Ended
    <3>1. ASSUME NEW n \in Request, n # m, job[j].op = "replace" => n # x, record[n].pending = j,
                 record[n].state \in {"active", "deleted"}
          PROVE  FALSE
      <4>1. RecordFit(n) /\ j # None
        BY <1>1, <2>2, Kinds
      <4>2. Target(j) = n /\ job[j].op \in {"update", "replace", "delete"}
        BY <3>1, <4>1 DEF RecordFit
      <4> QED BY <2>1, <3>1, <4>2 DEF Target
    <3> QED BY <2>9, <2>18, <2>19, <3>1
  <2>21. (IsFiniteSet(Active) /\ Cardinality(Active) <= MaxActive)'
    <3>1. \A n \in Request : n \in Active <=> record[n].state = "active"
      BY DEF Active
    <3>2. \A n \in Request : n \in Active' <=> record'[n].state = "active"
      BY DEF Active
    <3>3. Active \subseteq Request /\ Active' \subseteq Request
      BY DEF Active
    <3>4. record'[m].state = "active"
      BY <2>8, <2>9
    <3>5. job[j].op = "update" => record[m].state = "active" /\ Active' = Active
      <4>1. ASSUME job[j].op = "update", NEW n \in Request PROVE n \in Active' <=> n \in Active
        BY <2>2, <2>9, <3>1, <3>2, <3>4, <4>1
      <4> QED BY <2>2, <3>3, <4>1
    <3>6. job[j].op = "create" => Active' = Active \cup {m}
      <4>1. ASSUME job[j].op = "create", NEW n \in Request PROVE n \in Active' <=> n \in Active \cup {m}
        BY <2>9, <3>1, <3>2, <3>4, <4>1
      <4> QED BY <2>2, <3>3, <4>1
    <3>7. job[j].op = "replace" => x \in Active /\ m \notin Active /\ Active' = (Active \ {x}) \cup {m}
      <4>1. ASSUME job[j].op = "replace", NEW n \in Request PROVE n \in Active' <=> n \in (Active \ {x}) \cup {m}
        BY <2>9, <2>10, <3>1, <3>2, <3>4, <4>1
      <4>2. job[j].op = "replace" => x \in Active /\ m \notin Active
        BY <2>2, <3>1
      <4> QED BY <2>2, <3>3, <4>1, <4>2
    <3> QED BY <1>4, <2>1, <2>2, <3>5, <3>6, <3>7, PublishFitsIn
  <2>22. RecordsGo({c})
    <3>1. record[m].item # None => job'[Heir(j)] = VectorCleanup(record[m].item)
      <4>1. record[m].item # None => job[j].op = "update"
        BY <2>2 DEF Publishing
      <4> QED BY <2>1, <2>2, <2>5, <2>7, <4>1
    <3>2. record'[m].item = VectorItem(c)
      BY <2>1, <2>8, <2>9
    <3>3. \A n \in Request \ {m} :
              record'[n].item = record[n].item /\ (record'[n].state = "active" => record[n].state = "active")
      BY <2>9, <2>10, <2>13
    <3> QED BY <1>1, <2>1, <2>2, <3>1, <3>2, <3>3 DEF RecordsGo
  <2>23. About(j)
    <3>1. Onward(j)
      BY <2>2, <2>7 DEF Onward, Ended
    <3>2. job'[Heir(j)] = job[Heir(j)] \/ job'[Heir(j)].status = "pending"
      BY <2>1, <2>2, <2>5, <2>7 DEF Publishing
    <3>3. \A n \in Request : record'[n] = record[n] \/ record[n].pending = j
      BY <2>2, <2>9
    <3> QED BY <2>1, <2>2, <2>3, <2>7, <3>1, <3>2, <3>3 DEF About, Ended
  <2>24. PICK t \in Task : task' = [task EXCEPT ![c] = t] /\ TaskFit(c)'
    <3>1. CASE Raise(c, "none")
      <4>1. job'[c[1]].status # "absent" /\ job'[c[1]].attempts = job[c[1]].attempts
            /\ job'[c[1]].op = job[c[1]].op /\ job'[c[1]].mem = job[c[1]].mem
        BY <2>1, <2>7
      <4> QED BY <1>1, <3>1, <4>1, RaiseFits
    <3>2. CASE Goes(c, "drop") /\ job[j].op # "replace" /\ prev \notin {None, v}
      <4>1. job[j].op = "update"
        BY <2>2, <3>2 DEF Publishing
      <4>2. PICK t : t = [task[c] EXCEPT !.step = "drop"]
        OBVIOUS
      <4>3. t \in Task /\ t.step = "drop" /\ t.then = task[c].then /\ t.prev = prev
            /\ task' = [task EXCEPT ![c] = t] /\ task'[c] = t
        BY <1>1, <2>1, <3>2, <4>2 DEF Task, Goes
      <4>4. Dead(prev)'
        BY <2>15, <4>1
      <4>5. c[2] <= job[j].attempts /\ (task[c].then = "retry" => c[2] < MaxAttempts) /\ job[j].mem # None
        BY SMTT(30), <1>1, <2>1 DEF TaskFit
      <4>6. TaskFit(c)'
        BY <2>1, <2>2, <2>7, <4>3, <4>4, <4>5 DEF TaskFit
      <4> QED BY <4>3, <4>6
    <3>3. CASE Done(c)
      BY <3>3, DoneFits
    <3> QED BY <1>4, <2>1, <3>1, <3>2, <3>3 DEF Publish
  <2>25. TypeOK'
    BY <1>1, <2>7, <2>11, <2>24 DEF TypeOK
  <2>26. Heir(c[1]) \in Job => job'[Heir(c[1])] = job[Heir(c[1])] \/ JobFit(Heir(c[1]))'
    BY <2>1, <2>17
  <2>27. /\ Holds(c) /\ job'[c[1]].attempts = job[c[1]].attempts /\ job[c[1]].op # "vector"
         /\ task[c].step = "publish" /\ record'[job[c[1]].mem].item = VectorItem(c)
    BY <1>1, <2>1, <2>2, <2>7, <2>8, <2>9 DEF Publishing
  <2> QED BY <1>1, <1>2, <2>1, <2>16, <2>20, <2>21, <2>22, <2>23, <2>24, <2>25, <2>26, <2>27, Inside
<1> QED BY <1>3, <1>4 DEF Publish

-----------------------------------------------------------------------------
(* Theorems *)

LEMMA InitFits == Init => PublicationInv
<1> SUFFICES ASSUME Init PROVE PublicationInv
  OBVIOUS
<1>1. /\ job = [j \in Job |-> NoJob] /\ record = [m \in Request |-> NoRecord] /\ task = [c \in Claim |-> NoTask]
      /\ items = {} /\ asking = {} /\ cancels = {} /\ faults = 0
  BY DEF Init
<1>2. TypeOK
  BY <1>1, NoRows, PublicationAssumption DEF TypeOK
<1>3. \A j \in Job : JobFit(j)
  BY <1>1, NoRows DEF JobFit, Publishing, Live, Waiting, Ended
<1>4. \A m \in Request : RecordFit(m)
  BY <1>1, NoRows DEF RecordFit
<1>5. IsFiniteSet(Active) /\ Cardinality(Active) <= MaxActive
  <2>1. Active = {}
    BY <1>1, NoRows DEF Active
  <2> QED BY <2>1, FS_EmptySet, PublicationAssumption
<1>6. \A c \in Claim : TaskFit(c)
  <2> SUFFICES ASSUME NEW c \in Claim PROVE TaskFit(c)
    OBVIOUS
  <2>1. task[c].step = "none" /\ task[c].then = "none"
    BY <1>1 DEF NoTask
  <2> QED BY <2>1 DEF TaskFit
<1>7. ItemsFit
  <2>1. \A j \in Job : job[j].op = "none"
    BY <1>1, NoRows
  <2>2. Active = {}
    BY <1>1, NoRows DEF Active
  <2> QED BY <1>1, <2>1, <2>2 DEF ItemsFit, PublishedItemIsStored, SupersededIsCollected
<1> QED BY <1>1, <1>2, <1>3, <1>4, <1>5, <1>6, <1>7 DEF PublicationInv, TablesFit

LEMMA NextFits == PublicationInv /\ [Next]_vars => PublicationInv'
<1> SUFFICES ASSUME PublicationInv, [Next]_vars PROVE PublicationInv'
  OBVIOUS
<1>1. ASSUME NEW r \in Request, Create(r) \/ Resume(r) PROVE PublicationInv'
  BY <1>1, CreateKeeps, ResumeKeeps
<1>2. ASSUME NEW r \in Request, NEW m \in Request, CreateWithEviction(r, m) \/ Update(r, m) \/ Delete(r, m)
      PROVE  PublicationInv'
  BY <1>2, EvictionKeeps, UpdateKeeps
<1>3. ASSUME NEW j \in Job, RetryCleanup(j) \/ Claims(j) \/ Lose(j) \/ AskCancel(j) \/ Cancel(j) \/ CancelTooLate(j)
      PROVE  PublicationInv'
  BY <1>3, RetryCleanupKeeps, ClaimsKeeps, LoseKeeps, AskCancelKeeps, CancelKeeps, CancelTooLateKeeps
<1>4. ASSUME NEW c \in Claim,
             \/ Checkpoint(c) \/ Errs(c) \/ Interrupted(c)
             \/ Prepare(c) \/ Stage(c) \/ Upsert(c) \/ Publish(c) \/ Drop(c)
             \/ Undo(c) \/ Undoing(c)
             \/ PrepareCleanup(c) \/ Erase(c) \/ Finalize(c)
             \/ Mark(c)
      PROVE  PublicationInv'
  BY <1>4, CheckpointKeeps, ErrsKeeps, InterruptedKeeps, PrepareKeeps, StageKeeps, UpsertKeeps, PublishKeeps,
     DropKeeps, UndoKeeps, UndoingKeeps, PrepareCleanupKeeps, EraseKeeps, FinalizeKeeps, MarkKeeps
<1>5. CASE UNCHANGED vars
  <2>1. UNCHANGED <<job, cancels, asking, record, items, task, faults>>
    BY <1>5 DEF vars
  <2>2. /\ TypeOK /\ \A j \in Job : JobFit(j)
        /\ \A m \in Request : RecordFit(m)
        /\ \A j \in asking : job[j].op \in {"create", "replace"}
        /\ IsFiniteSet(Active) /\ Cardinality(Active) <= MaxActive
        /\ \A c \in Claim : TaskFit(c)
        /\ ItemsFit
    BY DEF PublicationInv, TablesFit
  <2>3. TypeOK'
    BY <2>1, <2>2 DEF TypeOK
  <2>4. \A j \in Job : JobFit(j)'
    BY <2>1, <2>2 DEF JobFit, Dead, Active, Live, Reserves, Target
  <2>5. \A m \in Request : RecordFit(m)'
    BY ZenonT(40), <2>1, <2>2 DEF RecordFit, Succeeded, Live, Target
  <2>6. (IsFiniteSet(Active) /\ Cardinality(Active) <= MaxActive)'
    BY <2>1, <2>2 DEF Active
  <2>7. TablesFit'
    BY <2>1, <2>2, <2>4, <2>5, <2>6 DEF TablesFit
  <2>8. Step({})
    <3>1. JobsGo
      BY <2>1, <2>2 DEF JobsGo, Onward, TypeOK, JobRow
    <3> QED BY <2>1, <3>1 DEF Step, RecordsGo, ItemsGo, Succeeds
  <2> QED BY <2>1, <2>3, <2>7, <2>8, Fitting
<1> QED BY <1>1, <1>2, <1>3, <1>4, <1>5 DEF Next

\* The tables agree with each other, with the store and with what every handler still
\* knows, whatever calls, lost claims, errors and cancellations interleave: the invariant
\* that the theorems below rest on.
THEOREM PublicationStaysFit == Spec => []PublicationInv
<1>1. Init => PublicationInv
  BY InitFits
<1>2. PublicationInv /\ [Next]_vars => PublicationInv'
  BY NextFits
<1> QED BY <1>1, <1>2, PTL DEF Spec

\* The job table, the record table, the vector store and the handlers have their types.
THEOREM TablesHaveTheirTypes == Spec => []TypeOK
<1>1. PublicationInv => TypeOK
  BY DEF PublicationInv
<1> QED BY <1>1, PublicationStaysFit, PTL

\* A memory that can be recalled has its vector in the store: no finally block, no zombie
\* and no late cleanup ever removes it (handler_execution.py, handler_vector.py,
\* vector_cleanup.py).
THEOREM RecalledItemsAreStored == Spec => []PublishedItemIsStored
<1>1. PublicationInv => PublishedItemIsStored
  BY DEF PublicationInv, ItemsFit
<1> QED BY <1>1, PublicationStaysFit, PTL

\* A vector that was published and is no record's any more is gone, or some job is left to
\* remove it (create_superseded_vector_cleanup_job, _handle_delete_cleanup).
THEOREM NoPublishedItemIsForgotten == Spec => []SupersededIsCollected
<1>1. PublicationInv => SupersededIsCollected
  BY DEF PublicationInv, ItemsFit
<1> QED BY <1>1, PublicationStaysFit, PTL

\* A job that is to change a record holds it until it ends, at the version it was asked for,
\* and a record with a version is held by no job that has ended (reserve_pending_mutation,
\* transfer_eviction_candidate_to_cleanup, _clear_pending_mutation_job_reference).
THEOREM ReservationsAreMutual == Spec => []ReservationIsMutual
<1>1. PublicationInv => ReservationIsMutual
  <2> SUFFICES ASSUME PublicationInv PROVE ReservationIsMutual
    OBVIOUS
  <2>1. /\ \A j \in Job : JobFit(j)
        /\ \A m \in Request : RecordFit(m) /\ record[m] \in RecordRow
    BY DEF PublicationInv, TablesFit, TypeOK
  <2>2. ASSUME NEW j \in Job, Live(j), job[j].op \in {"update", "delete", "replace"}
        PROVE  record[Target(j)].pending = j /\ record[Target(j)].version = job[j].version
    BY <2>1, <2>2 DEF JobFit, Reserves
  <2>3. ASSUME NEW m \in Request, record[m].version > 0, record[m].pending # None
        PROVE  Live(record[m].pending)
    <3>1. NoRecord.version = 0
      BY DEF NoRecord
    <3>2. RecordFit(m) /\ record[m].state \in {"absent", "placeholder", "active", "deleted"}
      BY <2>1 DEF RecordRow
    <3>3. record[m].state \in {"active", "deleted"}
      BY <2>3, <3>1, <3>2 DEF RecordFit
    <3> QED BY <2>3, <3>2, <3>3 DEF RecordFit
  <2> QED BY <2>2, <2>3 DEF ReservationIsMutual, Target
<1> QED BY <1>1, PublicationStaysFit, PTL

\* No interleaving of creates, replacements and deletes gets past the limit
\* (load_memory_capacity_snapshot).
THEOREM CapacityIsNeverExceeded == Spec => []CapacityKept
<1>1. PublicationInv => CapacityKept
  BY DEF PublicationInv, TablesFit, CapacityKept
<1> QED BY <1>1, PublicationStaysFit, PTL

\* A hidden memory is hidden for an update that is still to come, or that resume_current
\* can lift.
THEOREM HiddenMemoriesCanBeLifted == Spec => []HiddenCanBeLifted
<1>1. PublicationInv => HiddenCanBeLifted
  BY DEF PublicationInv, TablesFit, RecordFit, Active, HiddenCanBeLifted
<1> QED BY <1>1, PublicationStaysFit, PTL

\* No step but a publication gives a recalled record another version.
LEMMA OnlyPublicationsVersion ==
    ASSUME PublicationInv, [Next]_vars, \A c \in Claim : ~Publish(c), NEW m \in Request, record'[m].state = "active"
    PROVE  record'[m].version = record[m].version
<1>1. record \in [Request -> RecordRow] /\ NoRecord.state = "absent"
  BY NoRows DEF PublicationInv, TypeOK
<1>2. CASE UNCHANGED record
  BY <1>2
<1>3. ASSUME NEW j \in Job, NEW mem, record' = ClearPending(j, mem, record) PROVE record'[m].version = record[m].version
  BY <1>1, <1>3 DEF ClearPending, RecordRow
<1>4. ASSUME NEW n \in Request, NEW p, record' = [record EXCEPT ![n].pending = p] PROVE record'[m].version = record[m].version
  BY <1>1, <1>4 DEF RecordRow
<1>5. ASSUME NEW r \in Request, NEW n \in Request, Update(r, n) \/ Delete(r, n) PROVE record'[m].version = record[m].version
  <2>1. PICK row \in {record[n], [record[n] EXCEPT !.hidden = <<r, 0>>], [record[n] EXCEPT !.state = "deleted"]} :
            record' = [record EXCEPT ![n] = [row EXCEPT !.pending = <<r, 0>>]]
    BY <1>5 DEF Update, Delete, Mutate
  <2>2. record[n] \in RecordRow
    BY <1>1
  <2>3. row.version = record[n].version /\ [row EXCEPT !.pending = <<r, 0>>].version = row.version
    BY <2>2 DEF RecordRow
  <2>4. record'[n] = [row EXCEPT !.pending = <<r, 0>>] /\ (m # n => record'[m] = record[m])
    BY <1>1, <2>1
  <2> QED BY <2>3, <2>4
<1>6. ASSUME NEW r \in Request, Resume(r) PROVE record'[m].version = record[m].version
  BY <1>1, <1>6 DEF Resume, RecordRow
<1>7. ASSUME NEW j \in Job, RetryCleanup(j) PROVE record'[m].version = record[m].version
  BY <1>1, <1>7 DEF RetryCleanup, RecordRow
<1>8. ASSUME NEW c \in Claim, Prepare(c) PROVE record'[m].version = record[m].version
  <2>1. CASE UNCHANGED record
    BY <2>1
  <2>2. ASSUME NEW n, record' = [record EXCEPT ![n] = [NoRecord EXCEPT !.state = "placeholder", !.pending = c[1]]]
        PROVE  record'[m].version = record[m].version
    <3>1. [NoRecord EXCEPT !.state = "placeholder", !.pending = c[1]].state = "placeholder"
      BY DEF NoRecord
    <3> QED BY <1>1, <2>2, <3>1
  <2> QED BY <1>8, <2>1, <2>2 DEF Prepare
<1>9. ASSUME NEW c \in Claim, Finalize(c) PROVE record'[m].version = record[m].version
  BY <1>1, <1>9 DEF Finalize
<1>10. ASSUME NEW r \in Request, NEW n \in Request, CreateWithEviction(r, n) PROVE record'[m].version = record[m].version
  BY <1>1, <1>10 DEF CreateWithEviction, RecordRow
<1>11. ASSUME NEW j \in Job, Lose(j) \/ Cancel(j) PROVE record'[m].version = record[m].version
  BY <1>2, <1>3, <1>11 DEF Lose, Cancel
<1>12. ASSUME NEW c \in Claim, Mark(c) PROVE record'[m].version = record[m].version
  BY <1>2, <1>3, <1>12, ClaimNames DEF Mark
<1> QED BY <1>2, <1>5, <1>6, <1>7, <1>8, <1>9, <1>10, <1>11, <1>12
        DEF Next, vars, Create, Claims, AskCancel, CancelTooLate, Checkpoint, Errs, Interrupted, Stage, Upsert, Drop, Undo,
            Undoing, PrepareCleanup, Erase

\* A version is published by the claim that holds the job the record is reserved for and by
\* no zombie: it is the next one, and its vector is the one that claim wrote
\* (_publish_version, publish_pending_version).
THEOREM VersionsComeFromTheirClaims == Spec => PublishedByItsClaim
<1>1. ASSUME PublicationInv, [Next]_vars, NEW m \in Request, record'[m].state = "active",
             record'[m].version # record[m].version
      PROVE  /\ record'[m].version = record[m].version + 1
             /\ job[record[m].pending].status = "running" /\ job'[record[m].pending].status = "succeeded"
             /\ record[m].pending \notin cancels
             /\ record'[m].item[3] = <<record[m].pending, job[record[m].pending].attempts>>
  <2>1. PICK c \in Claim : Publish(c)
    BY <1>1, OnlyPublicationsVersion
  <2>2. HasRoom(c[1]) /\ Reserved(c[1]) /\ Valid(c) /\ task[c].step = "publish"
    BY <1>1, <2>1 DEF Publish
  <2>3. PICK j, n, v, prev, x :
            j = c[1] /\ n = job[j].mem /\ v = VectorItem(c) /\ prev = task[c].prev /\ x = job[j].victim
    OBVIOUS
  <2>4. /\ j \in Job /\ job[j].op \in Publishing /\ job[j].status = "running" /\ job[j].attempts = c[2]
        /\ n \in Request /\ record[n].pending = j /\ v[3] = c
        /\ job[j].op \in {"create", "replace"} => record[n].state = "placeholder"
    BY <1>1, <2>2, <2>3, PublishFinds DEF Valid
  <2>5. /\ job' = [job EXCEPT ![j].status = "succeeded", ![Heir(j)] = HeirOfPublication(c)]
        /\ record' = RecordsAfter(c)
    BY <2>1, <2>2, <2>3 DEF Publish
  <2>6. m = n
    <3>1. CASE m # n /\ m = x
      <4>0. record[m] \in RecordRow
        BY <1>1 DEF PublicationInv, TypeOK
      <4>1. record'[m] = [record[m] EXCEPT !.state = "deleted", !.pending = Heir(j)]
        BY <2>3, <2>5, <3>1 DEF RecordsAfter
      <4>2. record'[m].state = "deleted"
        BY <4>0, <4>1 DEF RecordRow
      <4> QED BY <1>1, <4>2
    <3>2. CASE m # n /\ m # x
      BY <1>1, <2>3, <2>5, <3>2 DEF RecordsAfter
    <3> QED BY <3>1, <3>2
  <2>7. record'[m] = Published(c)
    BY <2>3, <2>5, <2>6 DEF RecordsAfter
  <2>8. record'[m].version = v[2] /\ record'[m].item = v
    BY <2>3, <2>7 DEF Published
  <2>9. record'[m].version = record[m].version + 1
    <3>1. CASE job[j].op = "update"
      <4>1. v[2] = job[j].version + 1
        BY <2>3, <3>1 DEF VectorItem
      <4>2. record[m].version = job[j].version
        BY <2>2, <2>3, <2>6, <3>1 DEF Reserved
      <4> QED BY <2>8, <4>1, <4>2
    <3>2. CASE job[j].op \in {"create", "replace"}
      <4>1. v[2] = 1
        BY <2>3, <3>2 DEF VectorItem
      <4>2. record[m].version = 0
        BY <1>1, <2>4, <2>6, <3>2 DEF PublicationInv, TablesFit, RecordFit
      <4> QED BY <2>8, <4>1, <4>2
    <3> QED BY <2>4, <3>1, <3>2 DEF Publishing
  <2>10. job'[j].status = "succeeded" /\ j \notin cancels
    BY <1>1, <2>2, <2>3, <2>4, <2>5, JobNames DEF PublicationInv, TypeOK, JobRow, Valid
  <2>11. v[3] = <<j, job[j].attempts>>
    BY <2>3, <2>4, ClaimNames
  <2> QED BY <2>4, <2>6, <2>8, <2>9, <2>10, <2>11
<1>2. PublicationInv /\ [Next]_vars =>
          [\A m \in Request :
              record'[m].state = "active" /\ record'[m].version # record[m].version =>
                  LET j == record[m].pending IN
                  /\ record'[m].version = record[m].version + 1
                  /\ job[j].status = "running" /\ job'[j].status = "succeeded"
                  /\ j \notin cancels
                  /\ record'[m].item[3] = <<j, job[j].attempts>>]_vars
  BY <1>1
<1> QED BY <1>2, PublicationStaysFit, PTL DEF Spec, PublishedByItsClaim
=============================================================================
