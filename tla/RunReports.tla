----------------------------- MODULE RunReports -----------------------------
(***************************************************************************)
(* One JUnit report on its way from CI to its notification                 *)
(* (apps/api/src/modules/runs).  The reporter splits the report into       *)
(* chunks and retries each request; the controller records the groups it   *)
(* rejects and queues an ingest job per accepted one; each job saves its   *)
(* run and records its result in a Redis batch shared by every request,    *)
(* whose last result, or else a 120 s timeout job, closes it and publishes *)
(* the one notification.                                                   *)
(*                                                                         *)
(* Lua scripts are atomic; between any two of the awaits a crash or an     *)
(* error may intervene, and everything else may happen.                    *)
(***************************************************************************)
EXTENDS Naturals, FiniteSets, Sequences

CONSTANTS
    Groups,        \* suite groups of the report
    Verdict,       \* group -> "pass", "fail", "running" or "rejected"
    Deliveries,    \* bound: HTTP requests that carry a chunk, retries included
    Chunk,         \* delivery -> the groups in its chunk
    ReportSize,    \* delivery -> the reportSize it states
    MaxAttempts,   \* attempts of an ingest job
    MaxFaults,     \* bound: crashes, failed calls and refused runs
    NoBatch

ASSUME ReportAssumption ==
    /\ IsFiniteSet(Groups) /\ "job" \notin Deliveries
    /\ NoBatch \notin [size : Nat, results : SUBSET Groups]
    /\ Verdict \in [Groups -> {"pass", "fail", "running", "rejected"}]
    /\ Chunk \in [Deliveries -> SUBSET Groups]
    /\ ReportSize \in [Deliveries -> Nat \ {0, 1}]   \* a lone group has no batch
    /\ MaxAttempts \in Nat \ {0} /\ MaxFaults \in Nat

Rejected == {g \in Groups : Verdict[g] = "rejected"}
Accepted == Groups \ Rejected

\* Who calls recordResultAndMaybePublish: a request for a group it rejects, or
\* a group's ingest job.
RequestCalls(d) == {<<d, g>> : g \in Chunk[d] \cap Rejected}
JobCall(g) == <<"job", g>>
Callers == (UNION {RequestCalls(d) : d \in Deliveries}) \cup {JobCall(g) : g \in Accepted}
GroupOf(x) == x[2]

VARIABLES
    http,       \* delivery -> how far its request is
    job,        \* accepted group -> its ingest job, by its deterministic id
    jobSize,    \* accepted group -> the reportSize its job carries
    attempts,   \* accepted group -> failed attempts of that job
    saved,      \* groups whose run is committed
    call,       \* caller -> where its call stands, with what it has to publish
    batch,      \* the Redis hash: its size and the groups that reported
    tombstone,  \* <key>:closed exists
    timeout,    \* the report-batch-timeout job
    published,  \* notifications of this report, as the groups they name
    faults

vars == <<http, job, jobSize, attempts, saved, call, batch, tombstone, timeout,
          published, faults>>

At(s) == [step |-> s, data |-> {}]
Steps == {"none", "save", "record", "schedule", "publish", "done"}
Busy  == {"save", "record", "schedule", "publish"}

MoveTo(x, s) == call' = [call EXCEPT ![x] = At(s)]
SizeFor(x)   == IF x[1] = "job" THEN jobSize[x[2]] ELSE ReportSize[x[1]]

----------------------------------------------------------------------------
(* The HTTP request: rejected groups are recorded, then jobs are added.     *)

\* The reporter sends a chunk, for the first time or again.
Post(d) ==
    /\ http[d] = "unsent"
    /\ http' = [http EXCEPT ![d] = "recording"]
    /\ call' = [x \in Callers |-> IF x \in RequestCalls(d) THEN At("record") ELSE call[x]]
    /\ UNCHANGED <<job, jobSize, attempts, saved, batch, tombstone, timeout,
                   published, faults>>

\* addBulk: BullMQ ignores a job whose id exists, in whatever state; failed
\* jobs are kept (removeOnFail: 500), completed ones are not.
Enqueued(d) == {g \in Chunk[d] \cap Accepted : job[g] = "none"}

\* Promise.all has settled: the accepted groups are queued, the answer is 202.
Answer(d) ==
    /\ http[d] = "recording"
    /\ \A x \in RequestCalls(d) : call[x].step = "done"
    /\ http' = [http EXCEPT ![d] = "answered"]
    /\ job' = [g \in Accepted |-> IF g \in Enqueued(d) THEN "queued" ELSE job[g]]
    /\ jobSize' = [g \in Accepted |->
                     IF g \in Enqueued(d) THEN ReportSize[d] ELSE jobSize[g]]
    /\ attempts' = [g \in Accepted |-> IF g \in Enqueued(d) THEN 0 ELSE attempts[g]]
    /\ UNCHANGED <<saved, call, batch, tombstone, timeout, published, faults>>

----------------------------------------------------------------------------
(* The ingest job                                                          *)

Take(g) ==
    /\ job[g] = "queued"
    /\ job' = [job EXCEPT ![g] = "active"]
    /\ MoveTo(JobCall(g), "save")
    /\ UNCHANGED <<http, jobSize, attempts, saved, batch, tombstone, timeout,
                   published, faults>>

\* RunsService.ingest up to the commit; only a finished run is then recorded.
Save(g) ==
    /\ call[JobCall(g)].step = "save"
    /\ saved' = saved \cup {g}
    /\ MoveTo(JobCall(g), IF Verdict[g] = "running" THEN "done" ELSE "record")
    /\ UNCHANGED <<http, job, jobSize, attempts, batch, tombstone, timeout,
                   published, faults>>

\* RunsService.ingest answers an Err (no such suite, a source not allowed):
\* an UnrecoverableError, the job fails without a retry and records nothing.
Refuse(g) ==
    /\ call[JobCall(g)].step = "save" /\ faults < MaxFaults
    /\ faults' = faults + 1
    /\ job' = [job EXCEPT ![g] = "failed"]
    /\ MoveTo(JobCall(g), "none")
    /\ UNCHANGED <<http, jobSize, attempts, saved, batch, tombstone, timeout, published>>

\* The processor returned: a completed job is removed at once.
JobCompletes(g) ==
    /\ call[JobCall(g)].step = "done"
    /\ job' = [job EXCEPT ![g] = "none"]
    /\ MoveTo(JobCall(g), "none")
    /\ UNCHANGED <<http, jobSize, attempts, saved, batch, tombstone, timeout,
                   published, faults>>

----------------------------------------------------------------------------
(* recordResultAndMaybePublish                                             *)

\* Mutant: the stated size is never raised.
RecordedSizeFixed(x) == IF batch = NoBatch THEN SizeFor(x) ELSE batch.size
\* The size after a result: the first one locks it, a larger one raises it.
RecordedSize(x) ==
    IF batch = NoBatch \/ SizeFor(x) > batch.size THEN SizeFor(x) ELSE batch.size
\* Mutant: a result replaces the others.
RecordedAlone(x) == {GroupOf(x)}
Recorded(x) == (IF batch = NoBatch THEN {} ELSE batch.results) \cup {GroupOf(x)}

FillsLate(x)    == Cardinality(Recorded(x)) > RecordedSize(x)        \* mutant
Fills(x)        == Cardinality(Recorded(x)) >= RecordedSize(x)
AfterNothing(x) == "done"                                            \* mutant
AfterFirst(x)   == IF batch = NoBatch THEN "schedule" ELSE "done"

\* Mutant: a closed batch is not looked for.
RecordReopening(x) ==
    /\ call[x].step = "record"
    /\ IF Fills(x)
       THEN /\ batch' = NoBatch
            /\ tombstone' = TRUE
            /\ call' = [call EXCEPT ![x] = [step |-> "publish", data |-> Recorded(x)]]
       ELSE /\ batch' = [size |-> RecordedSize(x), results |-> Recorded(x)]
            /\ MoveTo(x, AfterFirst(x))
            /\ UNCHANGED tombstone
    /\ UNCHANGED <<http, job, jobSize, attempts, saved, timeout, published, faults>>

\* RECORD_SUITE_RESULT_SCRIPT.  A first result never completes the batch, so a
\* call has a timeout to schedule or a notification to publish, never both.
Record(x) ==
    /\ call[x].step = "record"
    /\ \/ /\ tombstone
          /\ MoveTo(x, "done")
          /\ UNCHANGED <<batch, tombstone>>
       \/ /\ ~ tombstone /\ ~ Fills(x)
          /\ batch' = [size |-> RecordedSize(x), results |-> Recorded(x)]
          /\ MoveTo(x, AfterFirst(x))
          /\ UNCHANGED tombstone
       \/ /\ ~ tombstone /\ Fills(x)
          /\ batch' = NoBatch
          /\ tombstone' = TRUE
          /\ call' = [call EXCEPT ![x] = [step |-> "publish", data |-> Recorded(x)]]
    /\ UNCHANGED <<http, job, jobSize, attempts, saved, timeout, published, faults>>

\* queue.add of the timeout job, whose id is the batch's.
Schedule(x) ==
    /\ call[x].step = "schedule"
    /\ timeout' = IF timeout.step = "none" THEN At("delayed") ELSE timeout
    /\ MoveTo(x, "done")
    /\ UNCHANGED <<http, job, jobSize, attempts, saved, batch, tombstone, published,
                   faults>>

Publish(x) ==
    /\ call[x].step = "publish"
    /\ published' = Append(published, call[x].data)
    /\ MoveTo(x, "done")
    /\ UNCHANGED <<http, job, jobSize, attempts, saved, batch, tombstone, timeout, faults>>

----------------------------------------------------------------------------
(* The timeout job: flushIfPending                                         *)

TimeoutFires ==
    /\ timeout.step = "delayed"
    /\ timeout' = At("flush")
    /\ UNCHANGED <<http, job, jobSize, attempts, saved, call, batch, tombstone,
                   published, faults>>

\* Mutant: the flush deletes the batch and says nothing.
FlushSilent ==
    /\ timeout.step = "flush"
    /\ timeout' = At("none")
    /\ tombstone' = (tombstone \/ batch # NoBatch)
    /\ batch' = NoBatch
    /\ UNCHANGED <<http, job, jobSize, attempts, saved, call, published, faults>>

\* FLUSH_BATCH_SCRIPT
Flush ==
    /\ timeout.step = "flush"
    /\ timeout' = IF batch = NoBatch THEN At("none")
                  ELSE [step |-> "publish", data |-> batch.results]
    /\ tombstone' = (tombstone \/ batch # NoBatch)
    /\ batch' = NoBatch
    /\ UNCHANGED <<http, job, jobSize, attempts, saved, call, published, faults>>

PublishPartial ==
    /\ timeout.step = "publish"
    /\ published' = Append(published, timeout.data)
    /\ timeout' = At("none")
    /\ UNCHANGED <<http, job, jobSize, attempts, saved, call, batch, tombstone, faults>>

----------------------------------------------------------------------------
(* Faults and time                                                         *)

\* A call throws.  A job is retried, or kept as failed; a request answers 500
\* while the other calls of its Promise.all go on.
CallFails(x) ==
    /\ call[x].step \in Busy /\ faults < MaxFaults
    /\ faults' = faults + 1
    /\ IF x[1] = "job"
       THEN LET g == GroupOf(x) IN
            /\ attempts' = [attempts EXCEPT ![g] = @ + 1]
            /\ job' = [job EXCEPT ![g] =
                         IF attempts[g] + 1 < MaxAttempts THEN "queued" ELSE "failed"]
            /\ UNCHANGED http
       ELSE http' = [http EXCEPT ![x[1]] = "lost"] /\ UNCHANGED <<job, attempts>>
    /\ MoveTo(x, "none")
    /\ UNCHANGED <<jobSize, saved, batch, tombstone, timeout, published>>

TimeoutFails ==
    /\ timeout.step \in {"flush", "publish"} /\ faults < MaxFaults
    /\ faults' = faults + 1
    /\ timeout' = At("delayed")
    /\ UNCHANGED <<http, job, jobSize, attempts, saved, call, batch, tombstone, published>>

\* The process dies: its requests are gone, BullMQ's stalled check queues its
\* jobs again.
Crash ==
    /\ faults < MaxFaults
    /\ faults' = faults + 1
    /\ http' = [d \in Deliveries |-> IF http[d] = "recording" THEN "lost" ELSE http[d]]
    /\ job' = [g \in Accepted |-> IF job[g] = "active" THEN "queued" ELSE job[g]]
    /\ call' = [x \in Callers |-> At("none")]
    /\ timeout' = IF timeout.step = "none" THEN timeout ELSE At("delayed")
    /\ UNCHANGED <<jobSize, attempts, saved, batch, tombstone, published>>

\* Nothing of the report is in flight: no request, job, call or timeout.
Settled ==
    /\ \A d \in Deliveries : http[d] # "recording"
    /\ \A g \in Accepted : job[g] \in {"none", "failed"}
    /\ \A x \in Callers : call[x].step \notin Busy
    /\ timeout.step = "none"

\* 600 s without a result, far past the 120 s timeout: only a batch that lost
\* its timeout job lives to see it.
BatchExpires ==
    /\ batch # NoBatch /\ Settled
    /\ batch' = NoBatch
    /\ UNCHANGED <<http, job, jobSize, attempts, saved, call, tombstone, timeout,
                   published, faults>>

\* 300 s after closing: by then the reporter's retries (about 255 s at most),
\* the jobs and the timeout (120 s) are over.  What is sent later is a re-run.
TombstoneExpires ==
    /\ tombstone /\ Settled
    /\ tombstone' = FALSE
    /\ published' = << >>
    /\ UNCHANGED <<http, job, jobSize, attempts, saved, call, batch, timeout, faults>>

----------------------------------------------------------------------------

Init ==
    /\ http = [d \in Deliveries |-> "unsent"]
    /\ job = [g \in Accepted |-> "none"]
    /\ jobSize = [g \in Accepted |-> 0]
    /\ attempts = [g \in Accepted |-> 0]
    /\ saved = {}
    /\ call = [x \in Callers |-> At("none")]
    /\ batch = NoBatch /\ tombstone = FALSE /\ timeout = At("none")
    /\ published = << >>
    /\ faults = 0

Next ==
    \/ \E d \in Deliveries : Post(d) \/ Answer(d)
    \/ \E g \in Accepted : Take(g) \/ Save(g) \/ Refuse(g) \/ JobCompletes(g)
    \/ \E x \in Callers : Record(x) \/ Schedule(x) \/ Publish(x) \/ CallFails(x)
    \/ TimeoutFires \/ Flush \/ PublishPartial \/ TimeoutFails
    \/ Crash \/ BatchExpires \/ TombstoneExpires

\* The process and its workers go on with what they have; nothing is owed by
\* the reporter, by time running out or by faults.
Fairness ==
    /\ \A d \in Deliveries : WF_vars(Answer(d))
    /\ \A g \in Accepted : WF_vars(Take(g)) /\ WF_vars(Save(g)) /\ WF_vars(JobCompletes(g))
    /\ \A x \in Callers : WF_vars(Record(x)) /\ WF_vars(Schedule(x)) /\ WF_vars(Publish(x))
    /\ WF_vars(TimeoutFires) /\ WF_vars(Flush) /\ WF_vars(PublishPartial)

Spec     == Init /\ [][Next]_vars
FairSpec == Spec /\ Fairness

----------------------------------------------------------------------------
(* Properties                                                              *)

\* Every variable stays in its type; an open batch holds a result and is not
\* yet full.
TypeOK ==
    /\ http \in [Deliveries -> {"unsent", "recording", "answered", "lost"}]
    /\ job \in [Accepted -> {"none", "queued", "active", "failed"}]
    /\ jobSize \in [Accepted -> Nat] /\ attempts \in [Accepted -> 0 .. MaxAttempts]
    /\ saved \subseteq Accepted
    /\ call \in [Callers -> [step : Steps, data : SUBSET Groups]]
    /\ batch = NoBatch \/ /\ batch.size \in Nat
                          /\ batch.results \in (SUBSET Groups) \ {{}}
                          /\ Cardinality(batch.results) < batch.size
    /\ tombstone \in BOOLEAN
    /\ timeout \in [step : {"none", "delayed", "flush", "publish"}, data : SUBSET Groups]
    /\ published \in Seq(SUBSET Groups) /\ faults \in 0 .. MaxFaults

\* "Owes exactly one aggregated notification", the safety half: between two
\* runs of the report, no retry, late job or timeout publishes a second one.
AtMostOneNotification == Len(published) <= 1

\* A notification published by the last result, not by the timeout, names the
\* whole report, although the chunks may state different sizes.
CompleteNamesEveryGroup ==
    \A x \in Callers : call[x].step = "publish" => call[x].data = Groups

\* The liveness half: without a fault, a report of which one group reported is
\* notified.
ReportIsNotified ==
    [](faults = 0) => (batch # NoBatch ~> published # << >>)

\* The promise to the organization, whatever happens underneath.
Abstract == INSTANCE ReportNotification WITH
    open <- IF batch = NoBatch THEN {} ELSE batch.results,
    closed <- tombstone,
    notified <- published # << >>
ImplementsNotification == Abstract!ASpec
=============================================================================
