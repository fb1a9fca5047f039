-------------------------- MODULE RunReportsProofs --------------------------
(***************************************************************************)
(* Proofs about RunReports for any groups, verdicts, chunks, retries and   *)
(* faults: the types, that a report is never notified twice, and that it   *)
(* implements ReportNotification when every request states its true size.  *)
(***************************************************************************)
EXTENDS RunReports, FiniteSetTheorems, SequenceTheorems, TLAPS

-----------------------------------------------------------------------------
(* The callers.                                                            *)

\* The call of a job is a caller of the batch, and names the job's group.
LEMMA JobCaller ==
    \A g \in Accepted : /\ JobCall(g) \in Callers /\ JobCall(g)[1] = "job"
                        /\ GroupOf(JobCall(g)) = g
<1> SUFFICES ASSUME NEW g \in Accepted
             PROVE  /\ JobCall(g) \in Callers /\ JobCall(g)[1] = "job"
                    /\ GroupOf(JobCall(g)) = g
  OBVIOUS
<1>1. JobCall(g) \in Callers
  BY DEF Callers
<1>2. JobCall(g)[1] = "job" /\ GroupOf(JobCall(g)) = g
  BY DEF JobCall, GroupOf
<1> QED BY <1>1, <1>2

\* A caller of the batch is a job or a request, never both.
LEMMA CallerKinds ==
    ASSUME NEW x \in Callers
    PROVE  /\ GroupOf(x) \in Groups
           /\ \/ x[1] = "job" /\ GroupOf(x) \in Accepted /\ x = JobCall(GroupOf(x))
              \/ x[1] # "job" /\ x[1] \in Deliveries
<1>1. CASE \E d \in Deliveries : x \in RequestCalls(d)
  <2>1. PICK d \in Deliveries, g \in Groups : x = <<d, g>>
    BY <1>1 DEF RequestCalls, Rejected
  <2>2. x[1] = d /\ x[2] = g
    BY <2>1
  <2>3. d # "job"
    BY ReportAssumption
  <2> QED BY <2>2, <2>3 DEF GroupOf
<1>2. CASE \E g \in Accepted : x = JobCall(g)
  BY <1>2 DEF GroupOf, JobCall, Accepted
<1> QED BY <1>1, <1>2 DEF Callers

\* A request's calls are callers of the batch, and no job's.
LEMMA RequestCaller ==
    ASSUME NEW d \in Deliveries
    PROVE  RequestCalls(d) \subseteq Callers /\ \A g \in Accepted : JobCall(g) \notin RequestCalls(d)
<1>1. RequestCalls(d) \subseteq Callers
  BY DEF Callers
<1>2. \A g \in Accepted : JobCall(g) \notin RequestCalls(d)
  BY ReportAssumption DEF RequestCalls, JobCall
<1> QED BY <1>1, <1>2

-----------------------------------------------------------------------------
(* Types, and the attempts that bound them.                                *)

CallType == [step : Steps, data : SUBSET Groups]
BatchOK  == batch = NoBatch \/ /\ batch.size \in Nat
                               /\ batch.results \in (SUBSET Groups) \ {{}}
                               /\ Cardinality(batch.results) < batch.size

\* A job that may still run has an attempt left, and only an active job calls.
JobLive ==
    \A g \in Accepted :
        /\ job[g] \in {"queued", "active"} => attempts[g] < MaxAttempts
        /\ call[JobCall(g)].step # "none" => job[g] = "active"

TypeInv == TypeOK /\ JobLive

\* A call standing at a step, with nothing in hand, is well typed.
LEMMA AtType == \A s \in Steps : At(s) \in CallType /\ At(s).step = s
  BY DEF At, CallType

\* Moving a caller to a step changes that caller alone.
LEMMA MoveType ==
    ASSUME TypeOK, NEW x \in Callers, NEW s \in Steps, MoveTo(x, s)
    PROVE  /\ call' \in [Callers -> CallType]
           /\ call'[x] = At(s) /\ call'[x].step = s
           /\ \A y \in Callers : y # x => call'[y] = call[y]
  BY AtType DEF MoveTo, TypeOK, CallType

\* A report not yet sent is well typed.
LEMMA InitType == Init => TypeInv
<1> SUFFICES ASSUME Init PROVE TypeInv
  OBVIOUS
<1>1. call \in [Callers -> CallType] /\ \A x \in Callers : call[x].step = "none"
  BY AtType DEF Init, Steps
<1>2. timeout \in [step : {"none", "delayed", "flush", "publish"}, data : SUBSET Groups]
  BY DEF Init, At
<1>3. JobLive
  BY <1>1, JobCaller DEF Init, JobLive
<1>4. published \in Seq(SUBSET Groups)
  BY DEF Init
<1>5. 0 \in 0 .. MaxAttempts /\ 0 \in 0 .. MaxFaults
  BY ReportAssumption
<1>6. /\ attempts \in [Accepted -> 0 .. MaxAttempts] /\ jobSize \in [Accepted -> Nat]
      /\ faults \in 0 .. MaxFaults /\ saved \subseteq Accepted
  BY <1>5 DEF Init
<1>7. TypeOK
  BY <1>1, <1>2, <1>4, <1>6 DEF Init, TypeOK, CallType
<1> QED BY <1>3, <1>7 DEF TypeInv

\* What a result makes of the batch.
LEMMA RecordedType ==
    ASSUME TypeOK, NEW x \in Callers
    PROVE  /\ Recorded(x) \in (SUBSET Groups) \ {{}}
           /\ RecordedSize(x) \in Nat
           /\ Cardinality(Recorded(x)) \in Nat
<1>1. GroupOf(x) \in Groups /\ SizeFor(x) \in Nat
  <2>1. CASE x[1] = "job"
    BY <2>1, CallerKinds DEF SizeFor, TypeOK, GroupOf
  <2>2. CASE x[1] # "job"
    <3>1. x[1] \in Deliveries /\ GroupOf(x) \in Groups
      BY <2>2, CallerKinds
    <3>2. ReportSize[x[1]] \in Nat
      BY <3>1, ReportAssumption
    <3> QED BY <2>2, <3>1, <3>2 DEF SizeFor
  <2> QED BY <2>1, <2>2
<1>2. Recorded(x) \in (SUBSET Groups) \ {{}}
  BY <1>1 DEF Recorded, TypeOK
<1>3. RecordedSize(x) \in Nat
  BY <1>1 DEF RecordedSize, TypeOK
<1>4. Cardinality(Recorded(x)) \in Nat
  BY <1>2, ReportAssumption, FS_Subset, FS_CardinalityType
<1> QED BY <1>2, <1>3, <1>4

\* A call that moves on within its job leaves the jobs as they were.
LEMMA CallStep ==
    ASSUME TypeInv, NEW x \in Callers, NEW s \in Steps, MoveTo(x, s),
           call[x].step # "none", UNCHANGED <<job, attempts>>
    PROVE  call' \in [Callers -> CallType] /\ JobLive'
<1>1. call' \in [Callers -> CallType] /\ \A y \in Callers : y # x => call'[y] = call[y]
  BY MoveType DEF TypeInv
<1>2. \A g \in Accepted : call'[JobCall(g)].step # "none" => call[JobCall(g)].step # "none"
  BY <1>1, JobCaller
<1> QED BY <1>1, <1>2 DEF TypeInv, JobLive

\* A request arrives and calls for the groups it refuses.
LEMMA PostType == ASSUME TypeInv, NEW d \in Deliveries, Post(d) PROVE TypeInv'
<1>1. call' \in [Callers -> CallType]
  BY AtType DEF Post, TypeInv, TypeOK, CallType, Steps
<1>2. \A g \in Accepted : call'[JobCall(g)] = call[JobCall(g)]
  BY RequestCaller, JobCaller DEF Post
<1>3. http' \in [Deliveries -> {"unsent", "recording", "answered", "lost"}]
  BY DEF Post, TypeInv, TypeOK
<1> QED BY <1>1, <1>2, <1>3 DEF Post, TypeInv, TypeOK, JobLive, CallType

\* A request queues the jobs of its chunk and is answered.
LEMMA AnswerType == ASSUME TypeInv, NEW d \in Deliveries, Answer(d) PROVE TypeInv'
<1>1. 0 \in 0 .. MaxAttempts /\ 0 < MaxAttempts /\ ReportSize[d] \in Nat
  BY ReportAssumption
<1>2. /\ http' \in [Deliveries -> {"unsent", "recording", "answered", "lost"}]
      /\ job' \in [Accepted -> {"none", "queued", "active", "failed"}]
      /\ jobSize' \in [Accepted -> Nat] /\ attempts' \in [Accepted -> 0 .. MaxAttempts]
  BY <1>1 DEF Answer, TypeInv, TypeOK
<1>3. JobLive'
  BY <1>1 DEF Answer, TypeInv, JobLive, Enqueued
<1> QED BY <1>2, <1>3 DEF Answer, TypeInv, TypeOK

\* The worker takes a queued job.
LEMMA TakeType == ASSUME TypeInv, NEW g \in Accepted, Take(g) PROVE TypeInv'
<1>1. call' \in [Callers -> CallType] /\ \A y \in Callers : y # JobCall(g) => call'[y] = call[y]
  BY MoveType, JobCaller DEF Take, Steps, TypeInv
<1>2. \A h \in Accepted : h # g => call'[JobCall(h)] = call[JobCall(h)]
  BY <1>1, JobCaller
<1>3. JobLive'
  BY <1>2 DEF Take, TypeInv, TypeOK, JobLive
<1> QED BY <1>1, <1>3 DEF Take, TypeInv, TypeOK, CallType

\* A job's run is saved.
LEMMA SaveType == ASSUME TypeInv, NEW g \in Accepted, Save(g) PROVE TypeInv'
<1>1. call' \in [Callers -> CallType] /\ JobLive'
  BY CallStep, JobCaller DEF Save, Steps
<1> QED BY <1>1 DEF Save, TypeInv, TypeOK, CallType

\* A job's run is refused.
LEMMA RefuseType == ASSUME TypeInv, NEW g \in Accepted, Refuse(g) PROVE TypeInv'
<1>1. call' \in [Callers -> CallType] /\ call'[JobCall(g)].step = "none"
      /\ \A y \in Callers : y # JobCall(g) => call'[y] = call[y]
  BY MoveType, JobCaller DEF Refuse, Steps, TypeInv
<1>2. \A h \in Accepted : h # g => call'[JobCall(h)] = call[JobCall(h)]
  BY <1>1, JobCaller
<1>3. JobLive'
  BY <1>1, <1>2 DEF Refuse, TypeInv, TypeOK, JobLive
<1>4. faults' \in 0 .. MaxFaults
  BY ReportAssumption DEF Refuse, TypeInv, TypeOK
<1> QED BY <1>1, <1>3, <1>4 DEF Refuse, TypeInv, TypeOK, CallType

\* A job ends well.
LEMMA CompleteType == ASSUME TypeInv, NEW g \in Accepted, JobCompletes(g) PROVE TypeInv'
<1>1. call' \in [Callers -> CallType] /\ call'[JobCall(g)].step = "none"
      /\ \A y \in Callers : y # JobCall(g) => call'[y] = call[y]
  BY MoveType, JobCaller DEF JobCompletes, Steps, TypeInv
<1>2. \A h \in Accepted : h # g => call'[JobCall(h)] = call[JobCall(h)]
  BY <1>1, JobCaller
<1>3. JobLive'
  BY <1>1, <1>2 DEF JobCompletes, TypeInv, TypeOK, JobLive
<1> QED BY <1>1, <1>3 DEF JobCompletes, TypeInv, TypeOK, CallType

\* The record script runs.
LEMMA RecordType == ASSUME TypeInv, NEW x \in Callers, Record(x) PROVE TypeInv'
<1>1. CASE tombstone /\ MoveTo(x, "done") /\ UNCHANGED <<batch, tombstone>>
  <2>1. call' \in [Callers -> CallType] /\ JobLive'
    BY <1>1, CallStep DEF Record, Steps
  <2> QED BY <1>1, <2>1 DEF Record, TypeInv, TypeOK, CallType
<1>2. CASE /\ ~ tombstone /\ ~ Fills(x)
           /\ batch' = [size |-> RecordedSize(x), results |-> Recorded(x)]
           /\ MoveTo(x, AfterFirst(x))
           /\ UNCHANGED tombstone
  <2>1. call' \in [Callers -> CallType] /\ JobLive'
    BY <1>2, CallStep DEF Record, Steps, AfterFirst
  <2>2. BatchOK'
    BY <1>2, RecordedType DEF Fills, BatchOK, TypeInv
  <2> QED BY <1>2, <2>1, <2>2 DEF Record, TypeInv, TypeOK, CallType, BatchOK
<1>3. CASE /\ ~ tombstone /\ Fills(x)
           /\ batch' = NoBatch
           /\ tombstone' = TRUE
           /\ call' = [call EXCEPT ![x] = [step |-> "publish", data |-> Recorded(x)]]
  <2>1. [step |-> "publish", data |-> Recorded(x)] \in CallType
    BY RecordedType DEF CallType, Steps, TypeInv
  <2>2. call' \in [Callers -> CallType] /\ \A y \in Callers : y # x => call'[y] = call[y]
    BY <1>3, <2>1 DEF TypeInv, TypeOK, CallType
  <2>3. \A g \in Accepted : call'[JobCall(g)].step # "none" => call[JobCall(g)].step # "none"
    BY <2>2, JobCaller DEF Record
  <2> QED BY <1>3, <2>2, <2>3 DEF Record, TypeInv, TypeOK, CallType, JobLive
<1> QED BY <1>1, <1>2, <1>3 DEF Record

\* The timeout of a new batch is queued.
LEMMA ScheduleType == ASSUME TypeInv, NEW x \in Callers, Schedule(x) PROVE TypeInv'
<1>1. call' \in [Callers -> CallType] /\ JobLive'
  BY CallStep DEF Schedule, Steps
<1>2. timeout' \in [step : {"none", "delayed", "flush", "publish"}, data : SUBSET Groups]
  BY DEF Schedule, TypeInv, TypeOK, At
<1> QED BY <1>1, <1>2 DEF Schedule, TypeInv, TypeOK, CallType

\* The complete notification is published.
LEMMA PublishType == ASSUME TypeInv, NEW x \in Callers, Publish(x) PROVE TypeInv'
<1>1. call' \in [Callers -> CallType] /\ JobLive'
  BY CallStep DEF Publish, Steps
<1>2. published' \in Seq(SUBSET Groups)
  <2>1. call[x].data \in SUBSET Groups /\ published \in Seq(SUBSET Groups)
    BY DEF TypeInv, TypeOK
  <2> QED BY <2>1, AppendProperties DEF Publish
<1> QED BY <1>1, <1>2 DEF Publish, TypeInv, TypeOK, CallType

\* The timeout job fires, flushes, publishes or fails.
LEMMA TimeoutType ==
    ASSUME TypeInv, TimeoutFires \/ Flush \/ PublishPartial \/ TimeoutFails
    PROVE  TypeInv'
<1>1. UNCHANGED <<http, job, jobSize, attempts, saved, call>>
  BY DEF TimeoutFires, Flush, PublishPartial, TimeoutFails
<1>2. timeout' \in [step : {"none", "delayed", "flush", "publish"}, data : SUBSET Groups]
  BY DEF TimeoutFires, Flush, PublishPartial, TimeoutFails, At, TypeInv, TypeOK
<1>3. published' \in Seq(SUBSET Groups)
  <2>1. timeout.data \in SUBSET Groups /\ published \in Seq(SUBSET Groups)
    BY DEF TypeInv, TypeOK
  <2> QED BY <2>1, AppendProperties DEF TimeoutFires, Flush, PublishPartial, TimeoutFails
<1>4. BatchOK' /\ faults' \in 0 .. MaxFaults
  BY ReportAssumption
  DEF TimeoutFires, Flush, PublishPartial, TimeoutFails, TypeInv, TypeOK, BatchOK
<1>5. tombstone' \in BOOLEAN
  <2>1. CASE Flush
    BY <2>1, Zenon DEF Flush
  <2>2. CASE ~ Flush
    BY <2>2 DEF TimeoutFires, PublishPartial, TimeoutFails, TypeInv, TypeOK
  <2> QED BY <2>1, <2>2
<1> QED BY <1>1, <1>2, <1>3, <1>4, <1>5 DEF TypeInv, TypeOK, JobLive, BatchOK

\* A call fails, and with it the job or the request that made it.
LEMMA FailType == ASSUME TypeInv, NEW x \in Callers, CallFails(x) PROVE TypeInv'
<1>1. call' \in [Callers -> CallType] /\ call'[x].step = "none"
      /\ \A y \in Callers : y # x => call'[y] = call[y]
  BY MoveType DEF CallFails, Steps, TypeInv
<1>2. faults' \in 0 .. MaxFaults
  BY ReportAssumption DEF CallFails, TypeInv, TypeOK
<1>3. CASE x[1] = "job"
  <2> DEFINE g == GroupOf(x)
  <2>1. g \in Accepted /\ x = JobCall(g)
    BY <1>3, CallerKinds
  <2> HIDE DEF g
  <2>2. attempts[g] < MaxAttempts /\ attempts[g] + 1 \in 0 .. MaxAttempts
    BY <2>1, ReportAssumption DEF CallFails, Busy, TypeInv, TypeOK, JobLive
  <2>3. /\ attempts' = [attempts EXCEPT ![g] = @ + 1]
        /\ job' = [job EXCEPT ![g] = IF attempts[g] + 1 < MaxAttempts THEN "queued" ELSE "failed"]
        /\ UNCHANGED http
    BY <1>3 DEF CallFails, g
  <2>4. /\ attempts' \in [Accepted -> 0 .. MaxAttempts]
        /\ job' \in [Accepted -> {"none", "queued", "active", "failed"}]
    BY <2>1, <2>2, <2>3 DEF TypeInv, TypeOK
  <2>5. \A h \in Accepted : h # g => call'[JobCall(h)] = call[JobCall(h)]
    BY <1>1, <2>1, JobCaller
  <2>6. JobLive'
    BY <1>1, <2>1, <2>2, <2>3, <2>5 DEF TypeInv, TypeOK, JobLive
  <2> QED BY <1>1, <1>2, <2>3, <2>4, <2>6 DEF CallFails, TypeInv, TypeOK, CallType
<1>4. CASE x[1] # "job"
  <2>1. /\ http' = [http EXCEPT ![x[1]] = "lost"]
        /\ UNCHANGED <<job, attempts>>
    BY <1>4 DEF CallFails
  <2>2. http' \in [Deliveries -> {"unsent", "recording", "answered", "lost"}]
    BY <2>1 DEF TypeInv, TypeOK
  <2>3. \A g \in Accepted : call'[JobCall(g)] = call[JobCall(g)]
    BY <1>1, <1>4, JobCaller
  <2> QED BY <1>1, <1>2, <2>1, <2>2, <2>3 DEF CallFails, TypeInv, TypeOK, CallType, JobLive
<1> QED BY <1>3, <1>4

\* The process ends in the middle of anything.
LEMMA CrashType == ASSUME TypeInv, Crash PROVE TypeInv'
<1>1. call' \in [Callers -> CallType] /\ \A x \in Callers : call'[x].step = "none"
  BY AtType DEF Crash, Steps
<1>2. faults' \in 0 .. MaxFaults
  BY ReportAssumption DEF Crash, TypeInv, TypeOK
<1>3. /\ http' \in [Deliveries -> {"unsent", "recording", "answered", "lost"}]
      /\ job' \in [Accepted -> {"none", "queued", "active", "failed"}]
      /\ timeout' \in [step : {"none", "delayed", "flush", "publish"}, data : SUBSET Groups]
  BY DEF Crash, TypeInv, TypeOK, At
<1>4. JobLive'
  BY <1>1, JobCaller DEF Crash, TypeInv, TypeOK, JobLive
<1> QED BY <1>1, <1>2, <1>3, <1>4 DEF Crash, TypeInv, TypeOK, CallType

\* Every step keeps the types, and a caller at work belongs to an active job.
LEMMA NextType == TypeInv /\ [Next]_vars => TypeInv'
<1> SUFFICES ASSUME TypeInv, [Next]_vars PROVE TypeInv'
  OBVIOUS
<1>1. CASE BatchExpires
  BY <1>1 DEF BatchExpires, TypeInv, TypeOK, JobLive
<1>2. CASE TombstoneExpires
  <2>1. published' \in Seq(SUBSET Groups)
    BY <1>2 DEF TombstoneExpires
  <2> QED BY <1>2, <2>1 DEF TombstoneExpires, TypeInv, TypeOK, JobLive
<1>3. CASE UNCHANGED vars
  BY <1>3 DEF vars, TypeInv, TypeOK, JobLive
<1> QED
  BY <1>1, <1>2, <1>3, PostType, AnswerType, TakeType, SaveType, RefuseType,
     CompleteType, RecordType, ScheduleType, PublishType, TimeoutType, FailType, CrashType
  DEF Next

\* Types, and the bound on the attempts of every job, hold.
THEOREM TypeCorrect == Spec => []TypeOK
<1>1. TypeInv => TypeOK
  BY DEF TypeInv
<1> QED BY <1>1, InitType, NextType, PTL DEF Spec

-----------------------------------------------------------------------------
(* One notification at most.                                               *)

\* The right to publish: a caller that closed the batch, or the timeout job
\* that flushed it, holds it alone, and the notification spends it.  The
\* tombstone keeps a second one from being made.
Once ==
    /\ batch # NoBatch => ~ tombstone
    /\ \A x \in Callers : call[x].step = "publish" =>
          /\ tombstone /\ published = << >> /\ timeout.step # "publish"
          /\ \A y \in Callers : call[y].step = "publish" => y = x
    /\ timeout.step = "publish" => tombstone /\ published = << >>
    /\ published # << >> => tombstone
    /\ Len(published) <= 1

OnceInv == TypeInv /\ Once

\* Nothing is closed or published before the report is sent.
LEMMA InitOnce == Init => OnceInv
<1> SUFFICES ASSUME Init PROVE Once
  BY InitType DEF OnceInv
<1>1. \A x \in Callers : call[x].step = "none"
  BY DEF Init, At
<1>2. timeout.step = "none" /\ published = << >> /\ batch = NoBatch
  BY DEF Init, At
<1>3. Len(published) <= 1
  BY <1>2
<1> QED BY <1>1, <1>2, <1>3 DEF Once

\* Nothing new to publish: no caller gets the right, and none is spent.
LEMMA QuietOnce ==
    ASSUME OnceInv, UNCHANGED <<batch, tombstone, published>>,
           \A x \in Callers : call'[x] = call[x] \/ call'[x].step # "publish",
           timeout' = timeout \/ timeout'.step # "publish"
    PROVE  Once'
<1>1. \A x \in Callers : call'[x].step = "publish" => call[x].step = "publish"
  OBVIOUS
<1>2. timeout'.step = "publish" => timeout.step = "publish"
  OBVIOUS
<1> QED BY <1>1, <1>2 DEF OnceInv, Once

\* Moving a caller anywhere but to publish gives nobody the right to publish.
LEMMA MoveQuiet ==
    ASSUME OnceInv, NEW x \in Callers, NEW s \in Steps, s # "publish", MoveTo(x, s)
    PROVE  \A y \in Callers : call'[y] = call[y] \/ call'[y].step # "publish"
  BY MoveType DEF OnceInv, TypeInv

\* The record script gives the right to publish to whom closes the batch.
LEMMA RecordOnce == ASSUME OnceInv, NEW x \in Callers, Record(x) PROVE Once'
<1>1. CASE tombstone /\ MoveTo(x, "done") /\ UNCHANGED <<batch, tombstone>>
  BY <1>1, MoveQuiet, QuietOnce DEF Record, Steps
<1>2. CASE ~ tombstone /\ ~ Fills(x) /\ MoveTo(x, AfterFirst(x)) /\ UNCHANGED tombstone
  <2>1. \A y \in Callers : call'[y] = call[y] \/ call'[y].step # "publish"
    BY <1>2, MoveQuiet DEF AfterFirst, Steps
  <2>2. \A y \in Callers : call'[y].step # "publish"
    BY <1>2, <2>1 DEF OnceInv, Once
  <2> QED BY <1>2, <2>2 DEF Record, OnceInv, Once
<1>3. CASE /\ ~ tombstone /\ Fills(x) /\ batch' = NoBatch /\ tombstone' = TRUE
           /\ call' = [call EXCEPT ![x] = [step |-> "publish", data |-> Recorded(x)]]
  <2>1. \A y \in Callers : y # x => call'[y] = call[y]
    BY <1>3 DEF OnceInv, TypeInv, TypeOK
  <2>2. \A y \in Callers : y # x => call'[y].step # "publish"
    BY <1>3, <2>1 DEF OnceInv, Once
  <2>3. published = << >> /\ timeout.step # "publish" /\ UNCHANGED <<published, timeout>>
    BY <1>3 DEF Record, OnceInv, Once
  <2> QED BY <1>3, <2>2, <2>3 DEF OnceInv, Once
<1> QED BY <1>1, <1>2, <1>3 DEF Record

\* Publishing spends the right.
LEMMA PublishOnce == ASSUME OnceInv, NEW x \in Callers, Publish(x) PROVE Once'
<1>1. call[x].step = "publish" /\ tombstone /\ published = << >> /\ timeout.step # "publish"
      /\ \A y \in Callers : call[y].step = "publish" => y = x
  BY DEF Publish, OnceInv, Once
<1>2. \A y \in Callers : call'[y].step # "publish"
  BY <1>1, MoveType DEF Publish, Steps, OnceInv, TypeInv
<1>3. Len(published') = 1
  BY <1>1 DEF Publish
<1> QED BY <1>1, <1>2, <1>3 DEF Publish, OnceInv, Once

\* The flush script gives it to the timeout job, if the batch was still open.
LEMMA FlushOnce == ASSUME OnceInv, Flush PROVE Once'
<1>1. CASE batch = NoBatch
  <2>1. tombstone' = tombstone
    BY <1>1, Zenon DEF Flush, OnceInv, TypeInv, TypeOK
  <2> QED BY <1>1, <2>1, QuietOnce DEF Flush, At
<1>2. CASE batch # NoBatch
  <2>1. ~ tombstone /\ published = << >> /\ \A x \in Callers : call[x].step # "publish"
    BY <1>2 DEF OnceInv, Once
  <2>2. tombstone'
    BY <1>2 DEF Flush
  <2>3. Len(published') <= 1
    BY DEF Flush, OnceInv, Once
  <2> QED BY <2>1, <2>2, <2>3 DEF Flush, Once
<1> QED BY <1>1, <1>2

\* The timeout job spends it.
LEMMA PublishPartialOnce == ASSUME OnceInv, PublishPartial PROVE Once'
<1>1. tombstone /\ published = << >> /\ \A x \in Callers : call[x].step # "publish"
  BY DEF PublishPartial, OnceInv, Once
<1>2. Len(published') = 1
  BY <1>1 DEF PublishPartial
<1> QED BY <1>1, <1>2 DEF PublishPartial, At, OnceInv, Once

\* Keys expire only once nobody is at work on the report.
LEMMA ExpireOnce == ASSUME OnceInv, BatchExpires \/ TombstoneExpires PROVE Once'
<1>1. timeout.step = "none" /\ \A x \in Callers : call[x].step # "publish"
  BY DEF BatchExpires, TombstoneExpires, Settled, Busy
<1>2. Len(published') <= 1
  BY DEF BatchExpires, TombstoneExpires, OnceInv, Once
<1> QED BY <1>1, <1>2 DEF BatchExpires, TombstoneExpires, OnceInv, Once

\* Every step keeps the right to publish single.
LEMMA NextOnce == OnceInv /\ [Next]_vars => OnceInv'
<1> SUFFICES ASSUME OnceInv, [Next]_vars PROVE Once'
  BY NextType DEF OnceInv
<1>1. ASSUME NEW d \in Deliveries, Post(d) PROVE Once'
  BY <1>1, QuietOnce DEF Post, At
<1>2. ASSUME NEW d \in Deliveries, Answer(d) PROVE Once'
  BY <1>2, QuietOnce DEF Answer
<1>3. ASSUME NEW g \in Accepted, Take(g) \/ Save(g) \/ Refuse(g) \/ JobCompletes(g)
      PROVE  Once'
  <2>1. PICK s \in Steps : MoveTo(JobCall(g), s) /\ s # "publish"
    BY <1>3 DEF Take, Save, Refuse, JobCompletes, Steps
  <2>2. UNCHANGED <<batch, tombstone, published, timeout>>
    BY <1>3 DEF Take, Save, Refuse, JobCompletes
  <2> QED BY <2>1, <2>2, JobCaller, MoveQuiet, QuietOnce
<1>4. ASSUME NEW x \in Callers, Schedule(x) PROVE Once'
  <2>1. timeout' = timeout \/ timeout'.step # "publish"
    BY <1>4 DEF Schedule, At
  <2> QED BY <1>4, <2>1, MoveQuiet, QuietOnce DEF Schedule, Steps
<1>5. ASSUME NEW x \in Callers, CallFails(x) PROVE Once'
  BY <1>5, MoveQuiet, QuietOnce DEF CallFails, Steps
<1>6. CASE TimeoutFires \/ TimeoutFails
  BY <1>6, QuietOnce DEF TimeoutFires, TimeoutFails, At
<1>7. CASE Crash
  <2>1. \A x \in Callers : call'[x].step # "publish"
    BY <1>7 DEF Crash, At
  <2>2. timeout' = timeout \/ timeout'.step # "publish"
    BY <1>7 DEF Crash, At
  <2> QED BY <1>7, <2>1, <2>2, QuietOnce DEF Crash
<1>8. CASE UNCHANGED vars
  BY <1>8, QuietOnce DEF vars
<1> QED
  BY <1>1, <1>2, <1>3, <1>4, <1>5, <1>6, <1>7, <1>8, RecordOnce, PublishOnce,
     FlushOnce, PublishPartialOnce, ExpireOnce
  DEF Next

\* The strengthened invariant of AtMostOneNotification: the batch, its tombstone and
\* the callers that closed it hold together one right to publish (report-batch.lua.ts).
THEOREM OnceTheorem == Spec => []OnceInv
  BY InitOnce, NextOnce, PTL DEF Spec

\* However the report is chunked, retried, timed out and interrupted, it is
\* notified once at most.
THEOREM AtMostOneTheorem == Spec => []AtMostOneNotification
<1>1. OnceInv => AtMostOneNotification
  BY DEF OnceInv, Once, AtMostOneNotification
<1> QED BY <1>1, OnceTheorem, PTL

-----------------------------------------------------------------------------
(* Requests may state different sizes of one report: a larger one raises    *)
(* the size the batch waits for ("a safety net against an undercounted       *)
(* client total", report-batch.service.spec.ts:252).                         *)

\* The groups that requests which state at most n carry.
StatedUpTo(n) == UNION {Chunk[d] : d \in {e \in Deliveries : ReportSize[e] <= n}}

\* The net holds: requests that state n groups, or fewer, of a larger report
\* carry fewer than n, so they cannot fill a batch by themselves.
SizesSuffice == \A n \in 1 .. Cardinality(Groups) - 1 : Cardinality(StatedUpTo(n)) < n

NoneOverstates == \A d \in Deliveries : ReportSize[d] <= Cardinality(Groups)

\* The reporter's chunks, which all state the number of groups of the file.
TrueSizes == \A d \in Deliveries : ReportSize[d] = Cardinality(Groups)

LEMMA TrueSizesSuffice == TrueSizes => SizesSuffice /\ NoneOverstates
<1> SUFFICES ASSUME TrueSizes PROVE SizesSuffice /\ NoneOverstates
  OBVIOUS
<1>1. Cardinality(Groups) \in Nat
  BY ReportAssumption, FS_CardinalityType
<1>2. ASSUME NEW n \in 1 .. Cardinality(Groups) - 1 PROVE Cardinality(StatedUpTo(n)) < n
  <2>1. {e \in Deliveries : ReportSize[e] <= n} = {}
    BY <1>1 DEF TrueSizes
  <2>2. StatedUpTo(n) = {}
    BY <2>1 DEF StatedUpTo
  <2>3. Cardinality(StatedUpTo(n)) = 0
    BY <2>2, FS_EmptySet
  <2> QED BY <1>1, <2>3
<1>3. NoneOverstates
  BY <1>1 DEF TrueSizes, NoneOverstates
<1> QED BY <1>2, <1>3 DEF SizesSuffice

\* A job carries the size that a request for its group stated; the batch waits
\* for a stated size, and for no less than any of its results asked for.
Sized ==
    /\ \A g \in Accepted : job[g] # "none" =>
          \E d \in Deliveries : g \in Chunk[d] /\ jobSize[g] = ReportSize[d]
    /\ batch # NoBatch => /\ \E d \in Deliveries : batch.size = ReportSize[d]
                          /\ batch.results \subseteq StatedUpTo(batch.size)

SizedInv == OnceInv /\ Sized

\* A result comes with the size that some request for its group stated.
LEMMA SizeStated ==
    ASSUME SizedInv, NEW x \in Callers, call[x].step = "record"
    PROVE  \E d \in Deliveries : GroupOf(x) \in Chunk[d] /\ SizeFor(x) = ReportSize[d]
<1>1. CASE x[1] = "job"
  <2>1. GroupOf(x) \in Accepted /\ job[GroupOf(x)] = "active"
    BY <1>1, CallerKinds DEF SizedInv, OnceInv, TypeInv, JobLive
  <2>2. SizeFor(x) = jobSize[GroupOf(x)]
    BY <1>1 DEF SizeFor, GroupOf
  <2> QED BY <2>1, <2>2 DEF SizedInv, Sized
<1>2. CASE x[1] # "job"
  <2>1. PICK d \in Deliveries : x \in RequestCalls(d)
    BY <1>2 DEF Callers, JobCall
  <2>2. x[1] = d /\ GroupOf(x) \in Chunk[d]
    BY <2>1 DEF RequestCalls, GroupOf
  <2> QED BY <1>2, <2>2 DEF SizeFor
<1> QED BY <1>1, <1>2

\* What the batch holds after a result was stated at sizes up to the one it waits for.
LEMMA RecordedStated ==
    ASSUME SizedInv, NEW x \in Callers, call[x].step = "record"
    PROVE  /\ \E d \in Deliveries : RecordedSize(x) = ReportSize[d]
           /\ Recorded(x) \subseteq StatedUpTo(RecordedSize(x))
<1>1. PICK d \in Deliveries : GroupOf(x) \in Chunk[d] /\ SizeFor(x) = ReportSize[d]
  BY SizeStated
<1>2. \A e \in Deliveries : ReportSize[e] \in Nat
  BY ReportAssumption
<1>3. CASE batch = NoBatch
  <2>1. RecordedSize(x) = ReportSize[d] /\ Recorded(x) = {GroupOf(x)}
    BY <1>1, <1>3 DEF RecordedSize, Recorded
  <2> QED BY <1>1, <1>2, <2>1 DEF StatedUpTo
<1>4. CASE batch # NoBatch
  <2>1. PICK e \in Deliveries : batch.size = ReportSize[e]
    BY <1>4 DEF SizedInv, Sized
  <2>2. /\ RecordedSize(x) \in {ReportSize[d], ReportSize[e]}
        /\ ReportSize[d] <= RecordedSize(x) /\ batch.size <= RecordedSize(x)
    BY <1>1, <1>2, <1>4, <2>1 DEF RecordedSize
  <2>3. StatedUpTo(batch.size) \subseteq StatedUpTo(RecordedSize(x))
    BY <1>2, <2>1, <2>2 DEF StatedUpTo
  <2>4. GroupOf(x) \in StatedUpTo(RecordedSize(x))
    BY <1>1, <2>2 DEF StatedUpTo
  <2>5. Recorded(x) = batch.results \cup {GroupOf(x)}
    BY <1>4 DEF Recorded
  <2> QED BY <1>4, <2>2, <2>3, <2>4, <2>5 DEF SizedInv, Sized
<1> QED BY <1>3, <1>4

\* A batch is full only with every group: a smaller size would be stated by
\* requests that carry too few groups to reach it.
LEMMA FullIsComplete ==
    ASSUME SizesSuffice, SizedInv, NEW x \in Callers, call[x].step = "record", Fills(x)
    PROVE  Recorded(x) = Groups
<1> DEFINE n == RecordedSize(x)
<1>1. Cardinality(Groups) \in Nat /\ IsFiniteSet(Groups)
  BY ReportAssumption, FS_CardinalityType
<1>2. PICK d \in Deliveries : n = ReportSize[d]
  BY RecordedStated
<1>3. n \in Nat /\ n >= 1
  BY <1>2, ReportAssumption
<1>4. Recorded(x) \subseteq Groups /\ Cardinality(Recorded(x)) \in Nat
  BY RecordedType DEF SizedInv, OnceInv, TypeInv
<1>5. Cardinality(Recorded(x)) >= n
  BY DEF Fills
<1>6. CASE n < Cardinality(Groups)
  <2>1. StatedUpTo(n) \subseteq Groups
    BY ReportAssumption DEF StatedUpTo
  <2>2. IsFiniteSet(StatedUpTo(n)) /\ Cardinality(StatedUpTo(n)) \in Nat
    BY <1>1, <2>1, FS_Subset, FS_CardinalityType
  <2>3. Recorded(x) \subseteq StatedUpTo(n)
    BY RecordedStated
  <2>4. Cardinality(Recorded(x)) <= Cardinality(StatedUpTo(n))
    BY <2>2, <2>3, FS_Subset
  <2>5. n \in 1 .. Cardinality(Groups) - 1
    BY <1>1, <1>3, <1>6
  <2>6. Cardinality(StatedUpTo(n)) < n
    BY <2>5 DEF SizesSuffice
  <2> HIDE DEF n
  <2> QED BY <1>3, <1>4, <1>5, <2>2, <2>4, <2>6
<1>7. CASE n >= Cardinality(Groups)
  <2>1. /\ Cardinality(Recorded(x)) <= Cardinality(Groups)
        /\ Cardinality(Recorded(x)) = Cardinality(Groups) => Recorded(x) = Groups
    BY <1>1, <1>4, FS_Subset
  <2> HIDE DEF n
  <2> QED BY <1>1, <1>3, <1>4, <1>5, <1>7, <2>1
<1> HIDE DEF n
<1> QED BY <1>1, <1>3, <1>6, <1>7

\* A batch with every group is full, unless a request overstates the report.
LEMMA CompleteIsFull ==
    ASSUME NoneOverstates, SizedInv, NEW x \in Callers, call[x].step = "record",
           Recorded(x) = Groups
    PROVE  Fills(x)
<1>1. PICK d \in Deliveries : RecordedSize(x) = ReportSize[d]
  BY RecordedStated
<1>2. ReportSize[d] <= Cardinality(Groups)
  BY DEF NoneOverstates
<1> QED BY <1>1, <1>2 DEF Fills

\* No size is recorded before the report is sent.
LEMMA InitSized == Init => SizedInv
  BY InitOnce DEF Init, SizedInv, Sized

\* No job is queued and no size set.
LEMMA QuietSized ==
    ASSUME SizedInv, UNCHANGED jobSize, batch' = batch \/ batch' = NoBatch,
           \A g \in Accepted : job'[g] # "none" => job[g] # "none"
    PROVE  Sized'
<1>1. StatedUpTo(batch.size)' = StatedUpTo(batch'.size)
  BY DEF StatedUpTo
<1> QED BY <1>1 DEF SizedInv, Sized

\* A job carries the size its request states.
LEMMA AnswerSized ==
    ASSUME SizedInv, NEW d \in Deliveries, Answer(d) PROVE Sized'
<1>1. \A g \in Accepted : job'[g] # "none" =>
        \E e \in Deliveries : g \in Chunk[e] /\ jobSize'[g] = ReportSize[e]
  <2> SUFFICES ASSUME NEW g \in Accepted, job'[g] # "none"
               PROVE  \E e \in Deliveries : g \in Chunk[e] /\ jobSize'[g] = ReportSize[e]
    OBVIOUS
  <2>1. CASE g \in Enqueued(d)
    <3>1. g \in Chunk[d] /\ jobSize'[g] = ReportSize[d]
      BY <2>1 DEF Answer, Enqueued
    <3> QED BY <3>1
  <2>2. CASE g \notin Enqueued(d)
    <3>1. jobSize'[g] = jobSize[g] /\ job'[g] = job[g]
      BY <2>2 DEF Answer
    <3> QED BY <3>1 DEF SizedInv, Sized
  <2> QED BY <2>1, <2>2
<1>2. UNCHANGED batch
  BY DEF Answer
<1> QED BY <1>1, <1>2 DEF SizedInv, Sized, StatedUpTo

\* The batch waits for the largest size its results asked for.
LEMMA RecordSized ==
    ASSUME SizedInv, NEW x \in Callers, Record(x) PROVE Sized'
<1>1. UNCHANGED <<job, jobSize>> /\ call[x].step = "record"
  BY DEF Record
<1>2. CASE batch' = batch \/ batch' = NoBatch
  BY <1>1, <1>2, QuietSized
<1>3. CASE batch' = [size |-> RecordedSize(x), results |-> Recorded(x)]
  <2>1. batch'.size = RecordedSize(x) /\ batch'.results = Recorded(x)
    BY <1>3
  <2>2. batch'.results \subseteq StatedUpTo(batch'.size)
    BY <1>1, <2>1, RecordedStated
  <2>3. \E d \in Deliveries : batch'.size = ReportSize[d]
    BY <1>1, <2>1, RecordedStated
  <2> QED BY <1>1, <2>2, <2>3 DEF SizedInv, Sized, StatedUpTo
<1> QED BY <1>2, <1>3 DEF Record

\* Every step keeps the sizes true.
LEMMA NextSized == SizedInv /\ [Next]_vars => SizedInv'
<1> SUFFICES ASSUME SizedInv, [Next]_vars PROVE Sized'
  BY NextOnce DEF SizedInv
<1>1. ASSUME NEW d \in Deliveries, Post(d) PROVE Sized'
  BY <1>1, QuietSized DEF Post
<1>2. ASSUME NEW g \in Accepted, Take(g) \/ Save(g) \/ Refuse(g) \/ JobCompletes(g)
      PROVE  Sized'
  <2>1. UNCHANGED <<batch, jobSize>>
    BY <1>2 DEF Take, Save, Refuse, JobCompletes
  <2>2. \A h \in Accepted : job'[h] # "none" => job[h] # "none"
    <3>1. job[g] # "none"
      BY <1>2 DEF Take, Save, Refuse, JobCompletes, SizedInv, OnceInv, TypeInv, JobLive
    <3>2. \A h \in Accepted : h # g => job'[h] = job[h]
      BY <1>2 DEF Take, Save, Refuse, JobCompletes, SizedInv, OnceInv, TypeInv, TypeOK
    <3> QED BY <3>1, <3>2
  <2> QED BY <2>1, <2>2, QuietSized
<1>3. ASSUME NEW x \in Callers, Schedule(x) \/ Publish(x) \/ CallFails(x) PROVE Sized'
  <2>1. UNCHANGED <<batch, jobSize>>
    BY <1>3 DEF Schedule, Publish, CallFails
  <2>2. \A h \in Accepted : job'[h] # "none" => job[h] # "none"
    <3>1. CASE UNCHANGED job
      BY <3>1
    <3>2. CASE CallFails(x) /\ x[1] = "job"
      <4>1. GroupOf(x) \in Accepted /\ job[GroupOf(x)] = "active"
        BY <3>2, CallerKinds DEF CallFails, Busy, SizedInv, OnceInv, TypeInv, JobLive
      <4>2. \A h \in Accepted : h # GroupOf(x) => job'[h] = job[h]
        BY <3>2 DEF CallFails, SizedInv, OnceInv, TypeInv, TypeOK
      <4> QED BY <4>1, <4>2
    <3> QED BY <1>3, <3>1, <3>2 DEF Schedule, Publish, CallFails
  <2> QED BY <2>1, <2>2, QuietSized
<1>4. CASE TimeoutFires \/ Flush \/ PublishPartial \/ TimeoutFails
           \/ BatchExpires \/ TombstoneExpires \/ UNCHANGED vars
  <2>1. UNCHANGED <<job, jobSize>> /\ (batch' = batch \/ batch' = NoBatch)
    BY <1>4 DEF TimeoutFires, Flush, PublishPartial, TimeoutFails, BatchExpires,
                TombstoneExpires, vars
  <2> QED BY <2>1, QuietSized
<1>5. CASE Crash
  <2>1. \A g \in Accepted : job'[g] # "none" => job[g] # "none"
    BY <1>5 DEF Crash
  <2> QED BY <1>5, <2>1, QuietSized DEF Crash
<1> QED BY <1>1, <1>2, <1>3, <1>4, <1>5, AnswerSized, RecordSized DEF Next

\* So it is in every reachable state.
LEMMA SizedAlways == Spec => []SizedInv
<1>1. Init => SizedInv
  BY InitSized
<1>2. SizedInv /\ [Next]_vars => SizedInv'
  BY NextSized
<1> QED BY <1>1, <1>2, PTL DEF Spec

\* Only the record script makes a caller publish, with what filled the batch.
LEMMA NextComplete ==
    ASSUME SizesSuffice, SizedInv, CompleteNamesEveryGroup, [Next]_vars
    PROVE  CompleteNamesEveryGroup'
<1>0. OnceInv
  BY DEF SizedInv
<1>1. ASSUME \A x \in Callers : call'[x] = call[x] \/ call'[x].step # "publish"
      PROVE  CompleteNamesEveryGroup'
  BY <1>1 DEF CompleteNamesEveryGroup
<1>2. CASE \E d \in Deliveries : Post(d)
  BY <1>1, <1>2 DEF Post, At
<1>3. ASSUME NEW g \in Accepted, Take(g) \/ Save(g) \/ Refuse(g) \/ JobCompletes(g)
      PROVE  CompleteNamesEveryGroup'
  <2>1. PICK s \in Steps : MoveTo(JobCall(g), s) /\ s # "publish"
    BY <1>3 DEF Take, Save, Refuse, JobCompletes, Steps
  <2> QED BY <1>0, <1>1, <2>1, JobCaller, MoveQuiet
<1>4. ASSUME NEW x \in Callers, Schedule(x) \/ Publish(x) \/ CallFails(x)
      PROVE  CompleteNamesEveryGroup'
  <2>1. PICK s \in Steps : MoveTo(x, s) /\ s # "publish"
    BY <1>4 DEF Schedule, Publish, CallFails, Steps
  <2> QED BY <1>0, <1>1, <2>1, MoveQuiet
<1>5. ASSUME NEW x \in Callers, Record(x) PROVE CompleteNamesEveryGroup'
  <2>1. CASE MoveTo(x, "done") \/ MoveTo(x, AfterFirst(x))
    <3>1. PICK s \in Steps : MoveTo(x, s) /\ s # "publish"
      BY <2>1 DEF AfterFirst, Steps
    <3> QED BY <1>0, <1>1, <3>1, MoveQuiet
  <2>2. CASE Fills(x) /\ call' = [call EXCEPT ![x] = [step |-> "publish", data |-> Recorded(x)]]
    <3>1. Recorded(x) = Groups
      BY <1>5, <2>2, FullIsComplete DEF Record
    <3>2. call'[x].data = Groups /\ \A y \in Callers : y # x => call'[y] = call[y]
      BY <1>0, <2>2, <3>1 DEF OnceInv, TypeInv, TypeOK
    <3> QED BY <3>2 DEF CompleteNamesEveryGroup
  <2> QED BY <1>5, <2>1, <2>2 DEF Record
<1>6. CASE \/ \E d \in Deliveries : Answer(d)
           \/ TimeoutFires \/ Flush \/ PublishPartial \/ TimeoutFails
           \/ BatchExpires \/ TombstoneExpires \/ UNCHANGED vars
  <2>1. UNCHANGED call
    BY <1>6 DEF Answer, TimeoutFires, Flush, PublishPartial, TimeoutFails, BatchExpires,
                TombstoneExpires, vars
  <2> QED BY <1>1, <2>1
<1>7. CASE Crash
  BY <1>1, <1>7 DEF Crash, At
<1> QED BY <1>2, <1>3, <1>4, <1>5, <1>6, <1>7 DEF Next

\* A notification that the last result publishes names every group, although
\* requests understate the report, as long as those that do cannot fill it.
THEOREM CompleteTheorem == ASSUME SizesSuffice PROVE Spec => []CompleteNamesEveryGroup
<1>1. Init => CompleteNamesEveryGroup
  BY DEF Init, At, CompleteNamesEveryGroup
<1>2. SizedInv /\ CompleteNamesEveryGroup /\ [Next]_vars => CompleteNamesEveryGroup'
  BY NextComplete
<1> QED BY <1>1, <1>2, SizedAlways, PTL DEF Spec

-----------------------------------------------------------------------------
(* The report keeps its promise: RunReports implements ReportNotification. *)

AbsOpen == IF batch = NoBatch THEN {} ELSE batch.results

\* What a step leaves alone, the abstract report does not see.
LEMMA Unseen ==
    ASSUME UNCHANGED <<batch, tombstone, published>>
    PROVE  UNCHANGED Abstract!avars
  BY DEF Abstract!avars

\* The record script opens, fills or closes the abstract report, or is not seen.
LEMMA RecordRefines ==
    ASSUME SizesSuffice, NoneOverstates, SizedInv, NEW x \in Callers, Record(x)
    PROVE  Abstract!ANext \/ UNCHANGED Abstract!avars
<1>1. Recorded(x) = AbsOpen \cup {GroupOf(x)} /\ GroupOf(x) \in Groups
  BY CallerKinds DEF Recorded, AbsOpen
<1>2. UNCHANGED published
  BY DEF Record
<1>3. CASE tombstone /\ UNCHANGED <<batch, tombstone>>
  BY <1>2, <1>3, Unseen
<1>4. CASE /\ ~ tombstone /\ ~ Fills(x) /\ UNCHANGED tombstone
           /\ batch' = [size |-> RecordedSize(x), results |-> Recorded(x)]
  <2>1. Recorded(x) # Groups
    BY <1>4, CompleteIsFull DEF Record
  <2>2. batch' # NoBatch /\ batch'.results = Recorded(x)
    <3>1. batch' \in [size : Nat, results : SUBSET Groups]
      BY <1>4, RecordedType DEF SizedInv, OnceInv, TypeInv
    <3> QED BY <1>4, <3>1, ReportAssumption
  <2>3. AbsOpen' = Recorded(x)
    BY <2>2 DEF AbsOpen
  <2>4. Abstract!Report(GroupOf(x))
    BY <1>1, <1>2, <1>4, <2>1, <2>3 DEF Abstract!Report, AbsOpen
  <2> QED BY <1>1, <2>4 DEF Abstract!ANext
<1>5. CASE ~ tombstone /\ Fills(x) /\ batch' = NoBatch /\ tombstone' = TRUE
  <2>1. Recorded(x) = Groups
    BY <1>5, FullIsComplete DEF Record
  <2>2. AbsOpen' = {}
    BY <1>5 DEF AbsOpen
  <2>3. Abstract!Report(GroupOf(x))
    BY <1>1, <1>2, <1>5, <2>1, <2>2 DEF Abstract!Report, AbsOpen
  <2> QED BY <1>1, <2>3 DEF Abstract!ANext
<1> QED BY <1>3, <1>4, <1>5 DEF Record

\* Spending the right to publish is the abstract notification.
LEMMA NotifyRefines ==
    ASSUME OnceInv, NEW data \in SUBSET Groups, published = << >>, tombstone,
           published' = Append(published, data), UNCHANGED <<batch, tombstone>>
    PROVE  Abstract!Notify
<1>1. published' # << >>
  BY DEF OnceInv
<1> QED BY <1>1 DEF Abstract!Notify

\* The flush script closes an open report, or is not seen.
LEMMA FlushRefines ==
    ASSUME OnceInv, Flush
    PROVE  Abstract!ANext \/ UNCHANGED Abstract!avars
<1>1. CASE batch = NoBatch
  <2>1. tombstone' = tombstone
    BY <1>1, Zenon DEF Flush, OnceInv, TypeInv, TypeOK
  <2> QED BY <1>1, <2>1, Unseen DEF Flush
<1>2. CASE batch # NoBatch
  <2>1. ~ tombstone /\ tombstone' = TRUE /\ batch' = NoBatch /\ published' = published
    BY <1>2 DEF Flush, OnceInv, Once
  <2>2. batch.results # {}
    BY <1>2 DEF OnceInv, TypeInv, TypeOK
  <2>3. Abstract!GiveUp
    BY <1>2, <2>1, <2>2 DEF Abstract!GiveUp
  <2> QED BY <2>3 DEF Abstract!ANext
<1> QED BY <1>1, <1>2

\* An expired key forgets an unfinished report, or a notified one.
LEMMA ExpireRefines ==
    ASSUME OnceInv, BatchExpires \/ TombstoneExpires
    PROVE  Abstract!ANext
<1>1. CASE BatchExpires
  <2>1. batch # NoBatch /\ batch.results # {} /\ ~ tombstone
    BY <1>1 DEF BatchExpires, OnceInv, Once, TypeInv, TypeOK
  <2>2. Abstract!Drop
    BY <1>1, <2>1 DEF BatchExpires, Abstract!Drop
  <2> QED BY <2>2 DEF Abstract!ANext
<1>2. CASE TombstoneExpires
  <2>1. Abstract!Forget
    BY <1>2 DEF TombstoneExpires, Abstract!Forget
  <2> QED BY <2>1 DEF Abstract!ANext
<1> QED BY <1>1, <1>2

\* Every step is a step of the abstract report, or is not seen.
LEMMA StepRefines ==
    ASSUME SizesSuffice, NoneOverstates
    PROVE  SizedInv /\ [Next]_vars => [Abstract!ANext]_(Abstract!avars)
<1> SUFFICES ASSUME SizedInv, [Next]_vars
             PROVE  Abstract!ANext \/ UNCHANGED Abstract!avars
  OBVIOUS
<1>0. OnceInv
  BY DEF SizedInv
<1>1. ASSUME NEW x \in Callers, Publish(x) PROVE Abstract!ANext
  <2>1. published = << >> /\ tombstone /\ call[x].data \in SUBSET Groups
    BY <1>0, <1>1 DEF Publish, OnceInv, Once, TypeInv, TypeOK
  <2>2. Abstract!Notify
    BY <1>0, <1>1, <2>1, NotifyRefines DEF Publish
  <2> QED BY <2>2 DEF Abstract!ANext
<1>2. CASE PublishPartial
  <2>1. published = << >> /\ tombstone /\ timeout.data \in SUBSET Groups
    BY <1>0, <1>2 DEF PublishPartial, OnceInv, Once, TypeInv, TypeOK
  <2>2. Abstract!Notify
    BY <1>0, <1>2, <2>1, NotifyRefines DEF PublishPartial
  <2> QED BY <2>2 DEF Abstract!ANext
<1>3. CASE \/ \E d \in Deliveries : Post(d) \/ Answer(d)
           \/ \E g \in Accepted : Take(g) \/ Save(g) \/ Refuse(g) \/ JobCompletes(g)
           \/ \E x \in Callers : Schedule(x) \/ CallFails(x)
           \/ TimeoutFires \/ TimeoutFails \/ Crash \/ UNCHANGED vars
  <2>1. UNCHANGED <<batch, tombstone, published>>
    BY <1>3 DEF Post, Answer, Take, Save, Refuse, JobCompletes, Schedule, CallFails,
                TimeoutFires, TimeoutFails, Crash, vars
  <2> QED BY <2>1, Unseen
<1> QED
  BY <1>0, <1>1, <1>2, <1>3, RecordRefines, FlushRefines, ExpireRefines DEF Next

\* The report starts as the abstract one does.
LEMMA InitRefines == Init => Abstract!AInit
  BY DEF Init, Abstract!AInit

\* The report of the code is a report of the promise: it closes once, is
\* notified once after that at most, and a late result does not count.
THEOREM RefinementTheorem ==
    ASSUME SizesSuffice, NoneOverstates PROVE Spec => ImplementsNotification
<1>1. SizedInv /\ [Next]_vars => [Abstract!ANext]_(Abstract!avars)
  BY StepRefines
<1>2. Spec => []SizedInv
  BY SizedAlways
<1> QED BY <1>1, <1>2, InitRefines, PTL DEF Spec, ImplementsNotification, Abstract!ASpec
=============================================================================
