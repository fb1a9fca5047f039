---------------------------- MODULE ScmIngestion ----------------------------
(***************************************************************************)
(* One push of a connected repository (apps/api/src/modules/ingestion):    *)
(* the provider delivers its webhook, perhaps more than once; the event is *)
(* stored and queued; a job records one batch of code changes per project  *)
(* of the connection and queues their extraction.  Steps of the API and of *)
(* the job interleave, any of them can fail, and the process can die       *)
(* between two of them.                                                    *)
(***************************************************************************)
EXTENDS Naturals, FiniteSets

CONSTANTS
    Deliveries,   \* the requests that carry the event
    N,            \* number of projects of the connection, taken in order
    MaxFaults     \* bound: failed calls and crashes

ASSUME IngestionAssumption == N \in Nat \ {0} /\ MaxFaults \in Nat

Projects    == 1 .. N
MaxAttempts == 3                  \* INGESTION_QUEUE_DEFAULT_JOB_OPTIONS
MaxStalled  == 1                  \* BullMQ's maxStalledCount

VARIABLES
    size,      \* project -> how many of its changed files match a test pattern
    extracts,  \* the push is to the default branch, or that is unknown
    status,    \* status of the scm_event row, "absent" before it is stored
    batches,   \* projects with an ingestion_batch of the event
    request,   \* delivery -> its step, or its answer
    job,       \* the event's job in the queue
    pc, next,  \* the step of the running job and the project it is at
    queued,    \* project -> times its code changes were queued for extraction
    announced, \* scm_event.failed was published
    faults

vars == <<size, extracts, status, batches, request, job, pc, next, queued, announced, faults>>

NoJob == [state |-> "none", attempts |-> 0, stalled |-> 0]

----------------------------------------------------------------------------
(* IngestionService.store                                                  *)

\* The row is created, or its unique (provider, eventId) says it was before.
Arrive(d) ==
    /\ request[d] = "none"
    /\ IF status = "absent"
       THEN status' = "PENDING" /\ request' = [request EXCEPT ![d] = "add"]
       ELSE request' = [request EXCEPT ![d] = "recover"] /\ UNCHANGED status
    /\ UNCHANGED <<size, extracts, batches, job, pc, next, queued, announced, faults>>

\* Mutant: a replay is always a duplicate.
ReplaysNever == FALSE
\* recoverReplay: only an event nobody processed is queued again.
Replays == status = "PENDING"

Recover(d) ==
    /\ request[d] = "recover"
    /\ request' = [request EXCEPT ![d] = IF Replays THEN "add" ELSE "duplicate"]
    /\ UNCHANGED <<size, extracts, status, batches, job, pc, next, queued, announced, faults>>

\* The queue ignores a job id it still holds.
Add(d) ==
    /\ request[d] = "add"
    /\ request' = [request EXCEPT ![d] = "accepted"]
    /\ job' = IF job.state = "none" THEN [NoJob EXCEPT !.state = "waiting"] ELSE job
    /\ UNCHANGED <<size, extracts, status, batches, pc, next, queued, announced, faults>>

----------------------------------------------------------------------------
(* IngestionProcessor.process                                              *)

\* The job starts; an event with changed files has its projects read.
Take ==
    /\ job.state = "waiting"
    /\ job' = [job EXCEPT !.state = "active"]
    /\ pc' = "create" /\ next' = 1
    /\ UNCHANGED <<size, extracts, status, batches, request, queued, announced, faults>>

\* Mutant: a push to another branch ends the loop.
AfterBatchStops == IF extracts THEN "enqueue" ELSE "processed"
\* After the batch of a project; a push to another branch is only recorded.
AfterBatch == IF extracts THEN "enqueue" ELSE IF next = N THEN "processed" ELSE "create"
NextProject == IF next = N THEN next ELSE next + 1

\* Mutant: a batch that is already there is taken as created.
BatchExistsNever == FALSE
BatchExists == next \in batches

\* The batch of the next project; unique (scmEventId, projectId).
CreateBatch ==
    /\ pc = "create"
    /\ IF BatchExists
       THEN pc' = "failing" /\ UNCHANGED <<batches, next>>
       ELSE /\ batches' = batches \cup {next}
            /\ pc' = AfterBatch
            /\ next' = IF extracts THEN next ELSE NextProject
    /\ UNCHANGED <<size, extracts, status, request, job, queued, announced, faults>>

\* enqueueCodeChanges: nothing to extract, more than a batch may hold, or one
\* job per matching file.
Enqueue ==
    /\ pc = "enqueue"
    /\ queued' = IF size[next] = "some" THEN [queued EXCEPT ![next] = @ + 1] ELSE queued
    /\ pc' = IF next = N THEN "processed" ELSE "create"
    /\ next' = NextProject
    /\ UNCHANGED <<size, extracts, status, batches, request, job, announced, faults>>

MarkProcessed ==
    /\ pc = "processed"
    /\ status' = "PROCESSED"
    /\ pc' = "complete"
    /\ UNCHANGED <<size, extracts, batches, request, job, next, queued, announced, faults>>

\* The record of a completed job stays (removeOnComplete: 100).
Complete ==
    /\ pc = "complete"
    /\ job' = [job EXCEPT !.state = "completed"]
    /\ pc' = "idle"
    /\ UNCHANGED <<size, extracts, status, batches, request, next, queued, announced, faults>>

\* The catch block writes FAILED, announces it, and rethrows.
MarkFailed ==
    /\ pc = "failing"
    /\ status' = "FAILED"
    /\ pc' = "announce"
    /\ UNCHANGED <<size, extracts, batches, request, job, next, queued, announced, faults>>

Announce ==
    /\ pc = "announce"
    /\ announced' = TRUE
    /\ pc' = "rethrow"
    /\ UNCHANGED <<size, extracts, status, batches, request, job, next, queued, faults>>

\* Mutant: one attempt too many.
RetriesOnceMore == job.attempts < MaxAttempts
Retries == job.attempts + 1 < MaxAttempts

Rethrow ==
    /\ pc = "rethrow"
    /\ job' = [job EXCEPT !.attempts = @ + 1, !.state = IF Retries THEN "waiting" ELSE "failed"]
    /\ pc' = "idle"
    /\ UNCHANGED <<size, extracts, status, batches, request, next, queued, announced, faults>>

----------------------------------------------------------------------------
(* Failures                                                                *)

Fault == faults < MaxFaults /\ faults' = faults + 1

\* A call of the job fails: the processor catches it; when the catch block's own
\* write fails, that error ends the attempt.  publishFailure never throws.
CallFails ==
    /\ Fault
    /\ \/ pc \in {"create", "enqueue", "processed"} /\ pc' = "failing"
       \/ pc \in {"failing", "announce"} /\ pc' = "rethrow"
    /\ UNCHANGED <<size, extracts, status, batches, request, job, next, queued, announced>>

\* The queue rejects the job: the request fails.
AddFails(d) ==
    /\ request[d] = "add" /\ Fault
    /\ request' = [request EXCEPT ![d] = "error"]
    /\ UNCHANGED <<size, extracts, status, batches, job, pc, next, queued, announced>>

\* The process dies: requests get no answer, an active job counts as stalled
\* and waits again, or fails the second time.
Crash ==
    /\ Fault
    /\ request' = [d \in Deliveries |->
                      IF request[d] \in {"add", "recover"} THEN "error" ELSE request[d]]
    /\ job' = IF job.state # "active" THEN job
              ELSE [job EXCEPT !.stalled = @ + 1,
                               !.state = IF job.stalled < MaxStalled THEN "waiting" ELSE "failed"]
    /\ pc' = "idle"
    /\ UNCHANGED <<size, extracts, status, batches, next, queued, announced>>

\* Other events push the record of a finished job out of the queue.
Evict ==
    /\ job.state \in {"completed", "failed"}
    /\ job' = NoJob
    /\ UNCHANGED <<size, extracts, status, batches, request, pc, next, queued, announced, faults>>

----------------------------------------------------------------------------

Init ==
    /\ size \in [Projects -> {"none", "some", "over"}]
    /\ extracts \in BOOLEAN
    /\ status = "absent" /\ batches = {}
    /\ request = [d \in Deliveries |-> "none"]
    /\ job = NoJob /\ pc = "idle" /\ next = 1
    /\ queued = [p \in Projects |-> 0]
    /\ announced = FALSE /\ faults = 0

Process == \/ Take \/ CreateBatch \/ Enqueue \/ MarkProcessed \/ Complete
           \/ MarkFailed \/ Announce \/ Rethrow
Handle(d) == Recover(d) \/ Add(d)

Next ==
    \/ \E d \in Deliveries : Arrive(d) \/ Handle(d) \/ AddFails(d)
    \/ Process
    \/ CallFails \/ Crash \/ Evict

\* The queue hands waiting jobs out and a job and a request run on; faults, the
\* provider's deliveries and evictions owe nothing.
Fairness == WF_vars(Process) /\ \A d \in Deliveries : WF_vars(Handle(d))

Spec == Init /\ [][Next]_vars /\ Fairness

----------------------------------------------------------------------------
(* Properties                                                              *)

\* Every variable has its type; a job is tried three times and no more.
TypeOK ==
    /\ size \in [Projects -> {"none", "some", "over"}]
    /\ extracts \in BOOLEAN
    /\ status \in {"absent", "PENDING", "PROCESSED", "FAILED"}
    /\ batches \subseteq Projects
    /\ request \in [Deliveries ->
                       {"none", "recover", "add", "accepted", "duplicate", "error"}]
    /\ job \in [state : {"none", "waiting", "active", "completed", "failed"},
                 attempts : 0 .. MaxAttempts, stalled : 0 .. MaxStalled + 1]
    /\ pc \in {"idle", "create", "enqueue", "processed", "complete",
               "failing", "announce", "rethrow"}
    /\ next \in Projects
    /\ queued \in [Projects -> Nat]
    /\ announced \in BOOLEAN
    /\ faults \in 0 .. MaxFaults

\* An event marked PROCESSED missed no project: each has its batch, and on the
\* default branch each with files to extract, and not too many, had them queued.
ProcessedIsComplete ==
    status = "PROCESSED" =>
        \A p \in Projects : /\ p \in batches
                            /\ extracts /\ size[p] = "some" => queued[p] = 1

\* Whatever is retried, replayed or interrupted, no project's code changes are
\* queued twice: each costs a credit (extraction.service.ts:184-186).
QueuedOnce == \A p \in Projects : queued[p] <= 1

\* No delivery is forgotten: it is refused, which tells the provider, or the event
\* leaves PENDING, or its job can be found among the failed ones (recoverReplay).
DeliveryIsHandled ==
    \A d \in Deliveries :
        request[d] \in {"add", "recover"} ~>
            (request[d] = "error" \/ status # "PENDING" \/ job.state = "failed")

\* docs/DOMAIN_EVENTS.md:124: the queue retries a failing job up to three
\* attempts, so an accepted event survives one failed call.
SurvivesOneFault ==
    (\E d \in Deliveries : request[d] = "accepted") ~> (status = "PROCESSED")
=============================================================================
