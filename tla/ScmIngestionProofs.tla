------------------------- MODULE ScmIngestionProofs -------------------------
(***************************************************************************)
(* Proofs about ScmIngestion for any number of projects, deliveries and    *)
(* faults: the types, that a PROCESSED event missed no project, and that   *)
(* nothing is queued twice.                                                *)
(***************************************************************************)
EXTENDS ScmIngestion, TLAPS

-----------------------------------------------------------------------------
(* Types.                                                                  *)

JobType == [state : {"none", "waiting", "active", "completed", "failed"},
            attempts : 0 .. MaxAttempts, stalled : 0 .. MaxStalled + 1]

\* A job that may still run has an attempt left, and a step runs in one.
JobLive ==
    /\ job.state \in {"waiting", "active"} =>
          job.attempts < MaxAttempts /\ job.stalled <= MaxStalled
    /\ pc # "idle" => job.state = "active"

TypeInv == TypeOK /\ JobLive

\* The queue's record of a job, absent or waiting, is well typed.
LEMMA NoJobType == NoJob \in JobType /\ [NoJob EXCEPT !.state = "waiting"] \in JobType
  BY DEF NoJob, JobType, MaxAttempts, MaxStalled

\* The job's record stays one.
LEMMA RetryType ==
    ASSUME job \in JobType, job.attempts < MaxAttempts, Rethrow
    PROVE  job' \in JobType
<1>1. job.attempts + 1 \in 0 .. MaxAttempts
  BY DEF JobType, MaxAttempts
<1>2. CASE Retries
  BY <1>1, <1>2 DEF Rethrow, JobType
<1>3. CASE ~ Retries
  BY <1>1, <1>3 DEF Rethrow, JobType
<1> QED
  BY <1>2, <1>3

\* A crash that stalls the job keeps its record well typed.
LEMMA StallType ==
    ASSUME job \in JobType, JobLive, Crash
    PROVE  job' \in JobType
<1>1. CASE job.state # "active"
  BY <1>1 DEF Crash
<1>2. CASE job.state = "active"
  <2>1. job.stalled + 1 \in 0 .. MaxStalled + 1
    BY <1>2 DEF JobType, JobLive, MaxStalled
  <2>2. \E st \in {"waiting", "failed"} :
            job' = [job EXCEPT !.stalled = @ + 1, !.state = st]
    BY <1>2 DEF Crash
  <2> QED
    BY <2>1, <2>2 DEF JobType
<1> QED
  BY <1>1, <1>2

\* An event not yet delivered is well typed.
LEMMA InitType == Init => TypeInv
<1> SUFFICES ASSUME Init PROVE TypeInv
  OBVIOUS
<1>1. job \in JobType
  BY NoJobType DEF Init
<1>2. 1 \in Projects
  BY IngestionAssumption DEF Projects
<1>3. faults \in 0 .. MaxFaults
  BY IngestionAssumption DEF Init
<1>4. JobLive
  BY DEF Init, JobLive, NoJob
<1> QED
  BY <1>1, <1>2, <1>3, <1>4 DEF Init, TypeInv, TypeOK, JobType

\* Every step keeps the types, and a handler at work has an active job.
LEMMA NextType == TypeInv /\ [Next]_vars => TypeInv'
<1> SUFFICES ASSUME TypeInv, [Next]_vars PROVE TypeInv'
  OBVIOUS
<1> USE DEF TypeInv, TypeOK, JobLive, Projects
<1>1. ASSUME NEW d \in Deliveries, Arrive(d) PROVE TypeInv'
  BY <1>1 DEF Arrive
<1>2. ASSUME NEW d \in Deliveries, Recover(d) PROVE TypeInv'
  BY <1>2 DEF Recover
<1>3. ASSUME NEW d \in Deliveries, Add(d) PROVE TypeInv'
  BY <1>3 DEF Add, NoJob, MaxAttempts, MaxStalled
<1>4. ASSUME NEW d \in Deliveries, AddFails(d) PROVE TypeInv'
  BY <1>4, IngestionAssumption DEF AddFails, Fault
<1>5. CASE Take
  BY <1>5, IngestionAssumption DEF Take
<1>6. CASE CreateBatch
  <2>1. next' \in Projects /\ batches' \subseteq Projects
    <3>1. NextProject \in Projects
      BY IngestionAssumption DEF NextProject
    <3>2. next' \in {next, NextProject} /\ batches' \in {batches, batches \cup {next}}
      BY <1>6 DEF CreateBatch
    <3> QED
      BY <3>1, <3>2
  <2>2. pc = "create" /\ pc' \in {"failing", "enqueue", "processed", "create"}
    BY <1>6 DEF CreateBatch, AfterBatch
  <2>3. UNCHANGED <<size, extracts, status, request, job, queued, announced, faults>>
    BY <1>6 DEF CreateBatch
  <2> QED
    BY <2>1, <2>2, <2>3
<1>7. CASE Enqueue
  BY <1>7, IngestionAssumption DEF Enqueue, NextProject
<1>8. CASE MarkProcessed
  BY <1>8 DEF MarkProcessed
<1>9. CASE Complete
  BY <1>9 DEF Complete
<1>10. CASE MarkFailed
  BY <1>10 DEF MarkFailed
<1>11. CASE Announce
  BY <1>11 DEF Announce
<1>12. CASE Rethrow
  <2>1. job.state = "active" /\ job.attempts < MaxAttempts /\ job.stalled <= MaxStalled
    BY <1>12 DEF Rethrow
  <2>2. /\ job'.stalled = job.stalled /\ job'.attempts = job.attempts + 1
        /\ job'.state \in {"waiting", "failed"}
        /\ job'.state = "waiting" => job.attempts + 1 < MaxAttempts
    BY <1>12 DEF Rethrow, Retries
  <2>3. job' \in JobType
    BY <1>12, <2>1, RetryType DEF JobType
  <2>4. JobLive'
    BY <1>12, <2>1, <2>2 DEF Rethrow
  <2> QED
    BY <1>12, <2>3, <2>4 DEF Rethrow, JobType
<1>13. CASE CallFails
  BY <1>13, IngestionAssumption DEF CallFails, Fault
<1>14. CASE Crash
  <2>1. job' \in JobType
    BY <1>14, StallType DEF JobType
  <2>2. JobLive'
    BY <1>14 DEF Crash, JobType, MaxStalled
  <2>3. request' \in [Deliveries -> {"none", "recover", "add", "accepted", "duplicate", "error"}]
    BY <1>14 DEF Crash
  <2>4. faults' \in 0 .. MaxFaults
    BY <1>14, IngestionAssumption DEF Crash, Fault
  <2> QED
    BY <1>14, <2>1, <2>2, <2>3, <2>4 DEF Crash, JobType
<1>15. CASE Evict
  BY <1>15 DEF Evict, NoJob, MaxAttempts, MaxStalled
<1>16. CASE UNCHANGED vars
  BY <1>16 DEF vars
<1> QED
  BY <1>1, <1>2, <1>3, <1>4, <1>5, <1>6, <1>7, <1>8, <1>9, <1>10, <1>11, <1>12,
     <1>13, <1>14, <1>15, <1>16 DEF Next, Process, Handle

\* TypeOK of ScmIngestion: whatever is delivered again, fails or dies, a job is
\* tried no more than attempts: 3 allows (ingestion.tokens.ts:7).
THEOREM TypeCorrect == Spec => []TypeOK
<1>1. TypeInv => TypeOK
  BY DEF TypeInv
<1> QED
  BY InitType, NextType, <1>1, PTL DEF Spec

-----------------------------------------------------------------------------
(* What PROCESSED means.                                                   *)

\* What processing project p leaves behind.
Done(p) == /\ p \in batches
           /\ extracts /\ size[p] = "some" => queued[p] = 1

\* A run goes past a project only after it created that project's batch itself,
\* since an existing one makes it fail: the batch is the token that lets the
\* extraction be queued, and it is spent once.
IndInv ==
    /\ \A p \in Projects : queued[p] <= 1
    /\ \A p \in Projects : queued[p] = 1 => p \in batches
    /\ pc \in {"create", "enqueue"} => \A p \in Projects : p < next => Done(p)
    /\ pc = "enqueue" => extracts /\ next \in batches /\ queued[next] = 0
    /\ pc \in {"processed", "complete"} => \A p \in Projects : Done(p)
    /\ status = "PROCESSED" => \A p \in Projects : Done(p)

\* Nothing is queued before the event arrives.
LEMMA InitInd == Init => IndInv
  BY DEF Init, IndInv

\* A step that leaves the batches and the queued work alone needs to look only
\* at where it is.
LEMMA Untouched ==
    ASSUME IndInv, UNCHANGED <<size, extracts, batches, queued>>,
           status' = "PROCESSED" => status = "PROCESSED" \/ pc = "processed",
           \/ pc' = pc /\ next' = next
           \/ pc' = "create" /\ next' = 1
           \/ pc = "processed" /\ pc' = "complete"
           \/ pc' \in {"idle", "failing", "announce", "rethrow"}
    PROVE  IndInv'
<1>1. \A p \in Projects : Done(p)' <=> Done(p)
  BY DEF Done
<1>2. \A p \in Projects : ~ (p < 1)
  BY DEF Projects
<1> QED
  BY <1>1, <1>2 DEF IndInv

\* Every step keeps the batch a token spent once.
LEMMA NextInd == TypeInv /\ IndInv /\ [Next]_vars => IndInv'
<1> SUFFICES ASSUME TypeInv, IndInv, [Next]_vars PROVE IndInv'
  OBVIOUS
<1>a. /\ next \in Projects /\ queued \in [Projects -> Nat] /\ N \in Nat
      /\ \A p \in Projects : p \in Nat /\ p <= N
  BY IngestionAssumption DEF TypeInv, TypeOK, Projects
<1>1. ASSUME NEW d \in Deliveries, Arrive(d) \/ Recover(d) \/ Add(d) \/ AddFails(d)
      PROVE IndInv'
  <2>1. UNCHANGED <<size, extracts, batches, queued, pc, next>>
    BY <1>1 DEF Arrive, Recover, Add, AddFails
  <2>2. status' = "PROCESSED" => status = "PROCESSED"
    BY <1>1 DEF Arrive, Recover, Add, AddFails
  <2> QED
    BY <2>1, <2>2, Untouched
<1>2. CASE Take
  BY <1>2, Untouched DEF Take
<1>3. CASE CreateBatch /\ BatchExists
  BY <1>3, Untouched DEF CreateBatch
<1>4. CASE CreateBatch /\ ~ BatchExists
  <2>1. /\ pc = "create" /\ batches' = batches \cup {next} /\ next \notin batches
        /\ pc' = AfterBatch /\ next' = IF extracts THEN next ELSE NextProject
        /\ UNCHANGED <<size, extracts, status, queued>>
    BY <1>4 DEF CreateBatch, BatchExists
  <2>2. \A p \in Projects : p < next => Done(p)
    BY <2>1 DEF IndInv
  <2>3. queued[next] = 0
    <3>1. queued[next] <= 1 /\ queued[next] # 1 /\ queued[next] \in Nat
      BY <1>a, <2>1 DEF IndInv
    <3> QED
      BY <3>1
  <2>4. \A p \in Projects : Done(p) => Done(p)'
    BY <2>1, Zenon DEF Done
  <2>5. \A p \in Projects : queued'[p] <= 1 /\ (queued'[p] = 1 => p \in batches')
    BY <2>1, Zenon DEF IndInv
  <2>6. status' = "PROCESSED" => \A p \in Projects : Done(p)'
    BY <2>1, <2>4, Zenon DEF IndInv
  <2>7. CASE extracts
    <3>1. pc' = "enqueue" /\ next' = next /\ extracts'
      BY <2>1, <2>7, Zenon DEF AfterBatch
    <3>2. next' \in batches' /\ queued'[next'] = 0
      BY <2>1, <2>3, <3>1
    <3>3. \A p \in Projects : p < next' => Done(p)'
      BY <2>2, <2>4, <3>1
    <3> QED
      BY <2>5, <2>6, <3>1, <3>2, <3>3 DEF IndInv
  <2>8. CASE ~ extracts
    <3>1. next' = NextProject /\ pc' = IF next = N THEN "processed" ELSE "create"
      BY <2>1, <2>8, Zenon DEF AfterBatch
    <3>2. \A p \in Projects : p = next => Done(p)'
      BY <2>1, <2>8, Zenon DEF Done
    <3>3. \A p \in Projects : p <= next => Done(p)'
      BY <1>a, <2>2, <2>4, <3>2
    <3>4. CASE next = N
      <4>1. pc' = "processed" /\ \A p \in Projects : Done(p)'
        BY <1>a, <3>1, <3>3, <3>4
      <4> QED
        BY <2>5, <4>1 DEF IndInv
    <3>5. CASE next # N
      <4>1. pc' = "create" /\ next' = next + 1
        BY <3>1, <3>5 DEF NextProject
      <4>2. \A p \in Projects : p < next' => Done(p)'
        BY <1>a, <3>3, <4>1
      <4> QED
        BY <2>5, <2>6, <4>1, <4>2 DEF IndInv
    <3> QED
      BY <3>4, <3>5
  <2> QED
    BY <2>7, <2>8
<1>5. CASE Enqueue
  <2>1. /\ pc = "enqueue" /\ next \in batches /\ queued[next] = 0
        /\ \A p \in Projects : p < next => Done(p)
    BY <1>5 DEF Enqueue, IndInv
  <2>2. /\ queued' = IF size[next] = "some" THEN [queued EXCEPT ![next] = @ + 1] ELSE queued
        /\ pc' = (IF next = N THEN "processed" ELSE "create")
        /\ next' = NextProject
        /\ UNCHANGED <<size, extracts, status, batches>>
    BY <1>5 DEF Enqueue
  <2>3. \A p \in Projects : p # next => queued'[p] = queued[p]
    BY <1>a, <2>2
  <2>4. queued'[next] = IF size[next] = "some" THEN 1 ELSE 0
    BY <1>a, <2>1, <2>2
  <2>5. \A p \in Projects : p = next => Done(p)'
    BY <2>1, <2>2, <2>4, Zenon DEF Done
  <2>6. \A p \in Projects : Done(p) => Done(p)'
    BY <2>2, <2>3, <2>5, Zenon DEF Done
  <2>7. \A p \in Projects : queued'[p] <= 1 /\ (queued'[p] = 1 => p \in batches')
    <3>1. queued'[next] <= 1
      BY <2>4
    <3> QED
      BY <2>1, <2>2, <2>3, <3>1, Zenon DEF IndInv
  <2>8. \A p \in Projects : p <= next => Done(p)'
    BY <1>a, <2>1, <2>5, <2>6
  <2>9. status' = "PROCESSED" => \A p \in Projects : Done(p)'
    BY <2>2, <2>6, Zenon DEF IndInv
  <2>10. CASE next = N
    <3>1. pc' = "processed" /\ \A p \in Projects : Done(p)'
      BY <1>a, <2>2, <2>8, <2>10
    <3> QED
      BY <2>7, <3>1 DEF IndInv
  <2>11. CASE next # N
    <3>1. pc' = "create" /\ next' = next + 1
      BY <2>2, <2>11 DEF NextProject
    <3>2. \A p \in Projects : p < next' => Done(p)'
      BY <1>a, <2>8, <3>1
    <3> QED
      BY <2>7, <2>9, <3>1, <3>2 DEF IndInv
  <2> QED
    BY <2>10, <2>11
<1>6. CASE MarkProcessed
  BY <1>6, Untouched DEF MarkProcessed
<1>7. CASE Complete \/ MarkFailed \/ Announce \/ Rethrow
  <2>1. /\ UNCHANGED <<size, extracts, batches, queued>>
        /\ status' = "PROCESSED" => status = "PROCESSED"
        /\ pc' \in {"idle", "announce", "rethrow"}
    BY <1>7 DEF Complete, MarkFailed, Announce, Rethrow
  <2> QED
    BY <2>1, Untouched
<1>8. CASE CallFails \/ Crash
  <2>1. /\ UNCHANGED <<size, extracts, batches, queued, status>>
        /\ pc' \in {"idle", "failing", "rethrow"}
    BY <1>8 DEF CallFails, Crash
  <2> QED
    BY <2>1, Untouched
<1>9. CASE Evict
  BY <1>9, Untouched DEF Evict
<1>10. CASE UNCHANGED vars
  BY <1>10, Untouched DEF vars
<1> QED
  BY <1>1, <1>2, <1>3, <1>4, <1>5, <1>6, <1>7, <1>8, <1>9, <1>10 DEF Next, Process, Handle

\* ProcessedIsComplete of ScmIngestion, for any number of projects: an event
\* marked PROCESSED has a batch in each, and its extraction where it belongs.
THEOREM ProcessedTheorem == Spec => []ProcessedIsComplete
<1>1. IndInv => ProcessedIsComplete
  BY DEF IndInv, ProcessedIsComplete, Done
<1> QED
  BY InitType, NextType, InitInd, NextInd, <1>1, PTL DEF Spec

\* QueuedOnce of ScmIngestion: no history of deliveries, retries and crashes
\* queues the code changes of a project twice.
THEOREM QueuedOnceTheorem == Spec => []QueuedOnce
<1>1. IndInv => QueuedOnce
  BY DEF IndInv, QueuedOnce
<1> QED
  BY InitType, NextType, InitInd, NextInd, <1>1, PTL DEF Spec
=============================================================================
