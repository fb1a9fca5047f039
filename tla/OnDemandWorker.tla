--------------------------- MODULE OnDemandWorker ---------------------------
(***************************************************************************)
(* The lifecycle of one queue's worker in the API process                  *)
(* (apps/api/src/common/queue/on-demand-worker.ts): it is started when the *)
(* process enqueues a job or finds work at boot, and closed once the queue *)
(* holds nothing for an idle grace.                                        *)
(*                                                                         *)
(* The process is single threaded, so each action is one uninterrupted run *)
(* of JavaScript: from an event or the resumption of an await to the next  *)
(* await.  The queue itself (BullMQ over Redis) is external: it outlives   *)
(* the process, and only a worker that is fetching takes jobs, promotes    *)
(* delayed ones and recovers those a dead process left active.             *)
(***************************************************************************)
EXTENDS Naturals, FiniteSets

CONSTANTS
    Jobs,            \* the jobs that may be enqueued
    ExternalJobs,    \* those of them that another process enqueues
    Workers,         \* identities of BullMQ Worker objects, reused once closed
    NoWorker,        \* `undefined` for this.worker, and "no owner" of a job
    CheckSlots,      \* bound: idle checks that may be counting at once
    MaxAttempts,     \* attempts BullMQ gives a job
    MaxFaults,       \* bound: crashes, shutdowns and failed counts
    MaxRunFailures   \* bound: Worker.run() promises that reject

ASSUME ConstantsAssumption ==
    /\ ExternalJobs \subseteq Jobs
    /\ NoWorker \notin Workers
    /\ MaxAttempts \in Nat \ {0}
    /\ MaxFaults \in Nat
    /\ MaxRunFailures \in Nat

VARIABLES
    \* the queue in Redis
    job,             \* job -> its BullMQ state; "ended": completed or failed
    owner,           \* job -> the worker processing it
    attempts,        \* job -> attempts made so far
    \* the API process
    up,              \* the process runs
    announce,        \* jobs stored whose local `waiting` event is still to come
    boot,            \* bootstrap(): "counting", then the count, then "done"
    worker,          \* this.worker
    stops,           \* stop() calls awaiting close(); this.stopping is set iff > 0
    idleTimer,       \* this.idleTimer is armed
    wakeAfterStop,
    shutDown,
    check,           \* slot -> the checkIdle() awaiting its count
    phase,           \* Worker object -> what it is doing
    \* bounds
    faults, runFailures

queueVars   == <<job, owner, attempts>>
lifeVars    == <<worker, stops, idleTimer, wakeAfterStop, phase>>
boundVars   == <<faults, runFailures>>
vars == <<job, owner, attempts, up, announce, boot, worker, stops, idleTimer,
          wakeAfterStop, shutDown, check, phase, faults, runFailures>>

JobStates    == {"absent", "waiting", "active", "delayed", "ended"}
\* PENDING_JOB_STATES; the states BullMQ uses for priorities and flows never
\* occur here, no caller sets either.
PendingStatesNoActive == {"waiting", "delayed"}               \* mutant
PendingStates == {"waiting", "active", "delayed"}
PhaseStates  == {"closed", "running", "drained", "failed", "closing"}
BootStates   == {"done", "counting", "pending", "empty"}

Idle == [worker |-> NoWorker, count |-> "none"]
CheckStates == [worker : Workers \cup {NoWorker},
                count : {"none", "unread", "pending", "empty"}]

OwnJobs    == Jobs \ ExternalJobs
Pending(j) == job[j] \in PendingStates
QueueEmpty == \A j \in Jobs : ~ Pending(j)
\* Mutant: the counts of an empty queue are taken for no answer.
CountedNothing == IF QueueEmpty THEN "none" ELSE "pending"
Counted    == IF QueueEmpty THEN "empty" ELSE "pending"
Fetching(w) == phase[w] \in {"running", "drained"}
Open(w)    == phase[w] # "closed"

\* Identities a new Worker object may take: no live object and no suspended
\* checkIdle() holds them, so `this.worker === worker` compares as in the code.
Free == {w \in Workers : ~ Open(w) /\ \A c \in CheckSlots : check[c].worker # w}

----------------------------------------------------------------------------
(* What the methods do when called: each operator constrains lifeVars'.    *)

\* start(): a new object, run() not yet failed, and the idle check armed.
Start ==
    \E w \in Free :
        /\ worker' = w
        /\ phase' = [phase EXCEPT ![w] = "running"]
        /\ idleTimer' = TRUE
        /\ UNCHANGED <<stops, wakeAfterStop>>

\* Mutant: wake() that does not ask whether the worker is being stopped.
WakeIgnoringStop ==
    \/ /\ shutDown \/ stops > 0
       /\ UNCHANGED lifeVars
    \/ /\ ~ shutDown /\ worker # NoWorker /\ stops = 0
       /\ idleTimer' = TRUE
       /\ UNCHANGED <<worker, stops, wakeAfterStop, phase>>
    \/ /\ ~ shutDown /\ (worker = NoWorker \/ stops > 0)
       /\ Start

\* Mutant: wake() that does not ask whether the process is shutting down.
WakeIgnoringShutdown ==
    \/ /\ stops > 0
       /\ wakeAfterStop' = TRUE
       /\ UNCHANGED <<worker, stops, idleTimer, phase>>
    \/ /\ stops = 0 /\ worker # NoWorker
       /\ idleTimer' = TRUE
       /\ UNCHANGED <<worker, stops, wakeAfterStop, phase>>
    \/ /\ stops = 0 /\ worker = NoWorker
       /\ Start

\* wake()
Wake ==
    \/ /\ shutDown
       /\ UNCHANGED lifeVars
    \/ /\ ~ shutDown /\ stops > 0
       /\ wakeAfterStop' = TRUE
       /\ UNCHANGED <<worker, stops, idleTimer, phase>>
    \/ /\ ~ shutDown /\ stops = 0 /\ worker # NoWorker
       /\ idleTimer' = TRUE
       /\ UNCHANGED <<worker, stops, wakeAfterStop, phase>>
    \/ /\ ~ shutDown /\ stops = 0 /\ worker = NoWorker
       /\ Start

\* stop(worker) up to its await: it is only called with w = this.worker.
Stop(w) ==
    /\ idleTimer' = FALSE
    /\ stops' = stops + 1
    /\ phase' = [phase EXCEPT ![w] = "closing"]
    /\ UNCHANGED <<worker, wakeAfterStop>>

----------------------------------------------------------------------------
(* Enqueueing: the job is stored first, the local event follows.           *)

Add(j) ==
    /\ up /\ j \in OwnJobs /\ job[j] = "absent"
    /\ job' = [job EXCEPT ![j] = "waiting"]
    /\ announce' = announce \cup {j}
    /\ UNCHANGED <<owner, attempts, up, boot, lifeVars, shutDown, check, boundVars>>

\* Another process adds a job: no event reaches this one.
AddElsewhere(j) ==
    /\ j \in ExternalJobs /\ job[j] = "absent"
    /\ job' = [job EXCEPT ![j] = "waiting"]
    /\ UNCHANGED <<owner, attempts, up, announce, boot, lifeVars, shutDown,
                   check, boundVars>>

\* The `waiting` listener, or the line after addBulk's await.
Announce(j) ==
    /\ j \in announce
    /\ announce' = announce \ {j}
    /\ Wake
    /\ UNCHANGED <<queueVars, up, boot, shutDown, check, boundVars>>

----------------------------------------------------------------------------
(* bootstrap()                                                             *)

\* Redis answers getJobCounts with the counts of that moment.
BootCount ==
    /\ boot = "counting"
    /\ boot' = Counted
    /\ UNCHANGED <<queueVars, up, announce, lifeVars, shutDown, check, boundVars>>

BootCountFails ==
    /\ boot = "counting" /\ faults < MaxFaults
    /\ boot' = "pending"
    /\ faults' = faults + 1
    /\ UNCHANGED <<queueVars, up, announce, lifeVars, shutDown, check, runFailures>>

BootResume ==
    /\ boot \in {"pending", "empty"}
    /\ boot' = "done"
    /\ IF boot = "pending" THEN Wake ELSE UNCHANGED lifeVars
    /\ UNCHANGED <<queueVars, up, announce, shutDown, check, boundVars>>

----------------------------------------------------------------------------
(* checkIdle()                                                             *)

\* The timer fires: checkIdle() up to its await.
IdleTimerFires(c) ==
    /\ idleTimer /\ check[c] = Idle
    /\ idleTimer' = FALSE
    /\ check' = IF worker = NoWorker \/ stops > 0
                THEN check
                ELSE [check EXCEPT ![c] = [worker |-> worker, count |-> "unread"]]
    /\ UNCHANGED <<queueVars, up, announce, boot, worker, stops, wakeAfterStop,
                   shutDown, phase, boundVars>>

CheckCount(c) ==
    /\ check[c].count = "unread"
    /\ check' = [check EXCEPT ![c].count = Counted]
    /\ UNCHANGED <<queueVars, up, announce, boot, lifeVars, shutDown, boundVars>>

CheckCountFails(c) ==
    /\ check[c].count = "unread" /\ faults < MaxFaults
    /\ check' = [check EXCEPT ![c].count = "pending"]
    /\ faults' = faults + 1
    /\ UNCHANGED <<queueVars, up, announce, boot, lifeVars, shutDown, runFailures>>

\* What checkIdle() does with the count it got.
OvertakenByWorkerOnly(c) == worker # check[c].worker              \* mutant
Overtaken(c) == idleTimer \/ worker # check[c].worker
\* Mutant: pending work does not re-arm the idle check.
ActOnCountOnce(c) ==
    \/ /\ Overtaken(c) \/ shutDown \/ check[c].count = "pending"
       /\ UNCHANGED lifeVars
    \/ /\ ~ Overtaken(c) /\ ~ shutDown /\ check[c].count = "empty"
       /\ Stop(worker)

ActOnCount(c) ==
    \/ /\ Overtaken(c) \/ shutDown
       /\ UNCHANGED lifeVars
    \/ /\ ~ Overtaken(c) /\ ~ shutDown /\ check[c].count = "pending"
       /\ idleTimer' = TRUE
       /\ UNCHANGED <<worker, stops, wakeAfterStop, phase>>
    \/ /\ ~ Overtaken(c) /\ ~ shutDown /\ check[c].count = "empty"
       /\ Stop(worker)

CheckResume(c) ==
    /\ check[c].count \in {"pending", "empty"}
    /\ check' = [check EXCEPT ![c] = Idle]
    /\ ActOnCount(c)
    /\ UNCHANGED <<queueVars, up, announce, boot, shutDown, boundVars>>

----------------------------------------------------------------------------
(* The rest of stop() and the end of the process                           *)

\* close() settles once the worker's jobs have finished, and every stop()
\* awaiting it resumes in the same turn, one after the other.  The first
\* may restart the worker; a later one still forgets this.worker.
CloseSettles ==
    /\ stops > 0
    /\ \A j \in Jobs : owner[j] # worker
    /\ stops' = 0
    /\ wakeAfterStop' = FALSE
    /\ IF wakeAfterStop /\ ~ shutDown
       THEN \E w \in Free :
                /\ worker' = IF stops = 1 THEN w ELSE NoWorker
                /\ phase' = [phase EXCEPT ![worker] = "closed", ![w] = "running"]
                /\ idleTimer' = TRUE
       ELSE /\ worker' = NoWorker
            /\ phase' = [phase EXCEPT ![worker] = "closed"]
            /\ UNCHANGED idleTimer
    /\ UNCHANGED <<queueVars, up, announce, boot, shutDown, check, boundVars>>

Shutdown ==
    /\ up /\ ~ shutDown /\ faults < MaxFaults
    /\ faults' = faults + 1
    /\ shutDown' = TRUE
    /\ IF stops = 0 /\ worker # NoWorker
       THEN Stop(worker)
       ELSE idleTimer' = FALSE /\ UNCHANGED <<worker, stops, wakeAfterStop, phase>>
    /\ UNCHANGED <<queueVars, up, announce, boot, check, runFailures>>

\* The process is gone: jobs it was processing stay active, without an owner.
Gone ==
    /\ up' = FALSE
    /\ announce' = {} /\ boot' = "done"
    /\ worker' = NoWorker /\ stops' = 0 /\ idleTimer' = FALSE
    /\ wakeAfterStop' = FALSE /\ shutDown' = FALSE
    /\ check' = [c \in CheckSlots |-> Idle]
    /\ phase' = [w \in Workers |-> "closed"]
    /\ owner' = [j \in Jobs |-> NoWorker]
    /\ UNCHANGED <<job, attempts, runFailures>>

\* Nest awaits every lifecycle's shutdown() before the process ends.
Exit  == up /\ shutDown /\ stops = 0 /\ Gone /\ UNCHANGED faults
Crash == up /\ faults < MaxFaults /\ Gone /\ faults' = faults + 1

Restart ==
    /\ ~ up
    /\ up' = TRUE /\ boot' = "counting"
    /\ UNCHANGED <<queueVars, announce, lifeVars, shutDown, check, boundVars>>

----------------------------------------------------------------------------
(* BullMQ's Worker                                                         *)

Take(w, j) ==
    /\ Fetching(w) /\ job[j] = "waiting"
    /\ job' = [job EXCEPT ![j] = "active"]
    /\ owner' = [owner EXCEPT ![j] = w]
    /\ phase' = [phase EXCEPT ![w] = "running"]
    /\ UNCHANGED <<attempts, up, announce, boot, worker, stops, idleTimer,
                   wakeAfterStop, shutDown, check, boundVars>>

\* A fetch that finds nothing emits `drained`, once until the next job.
Drained(w) ==
    /\ phase[w] = "running" /\ \A j \in Jobs : job[j] # "waiting"
    /\ phase' = [phase EXCEPT ![w] = "drained"]
    /\ idleTimer' = (idleTimer \/ worker = w)
    /\ UNCHANGED <<queueVars, up, announce, boot, worker, stops, wakeAfterStop,
                   shutDown, check, boundVars>>

\* The processor returns, or throws: then BullMQ schedules a backoff retry
\* while attempts are left.
Settle(j) ==
    /\ job[j] = "active" /\ owner[j] # NoWorker
    /\ attempts' = [attempts EXCEPT ![j] = @ + 1]
    /\ \/ job' = [job EXCEPT ![j] = "ended"]
       \/ attempts[j] + 1 < MaxAttempts /\ job' = [job EXCEPT ![j] = "delayed"]
    /\ owner' = [owner EXCEPT ![j] = NoWorker]
    /\ UNCHANGED <<up, announce, boot, lifeVars, shutDown, check, boundVars>>

\* A fetching worker promotes delayed jobs that are due ...
Promote(w, j) ==
    /\ Fetching(w) /\ job[j] = "delayed"
    /\ job' = [job EXCEPT ![j] = "waiting"]
    /\ UNCHANGED <<owner, attempts, up, announce, boot, lifeVars, shutDown,
                   check, boundVars>>

\* ... and its stalled checker returns an active job nobody owns.
RecoverStalled(w, j) ==
    /\ Fetching(w) /\ job[j] = "active" /\ owner[j] = NoWorker
    /\ job' = [job EXCEPT ![j] = "waiting"]
    /\ UNCHANGED <<owner, attempts, up, announce, boot, lifeVars, shutDown,
                   check, boundVars>>

\* Mutant: the catch handler only logs.
RunRejectsIgnored(w) ==
    /\ Fetching(w) /\ runFailures < MaxRunFailures
    /\ runFailures' = runFailures + 1
    /\ phase' = [phase EXCEPT ![w] = "failed"]
    /\ UNCHANGED <<worker, stops, idleTimer, wakeAfterStop, queueVars, up, announce,
                   boot, shutDown, check, faults>>

\* run() rejects: the object fetches no more; the catch handler stops it.
RunRejects(w) ==
    /\ Fetching(w) /\ runFailures < MaxRunFailures
    /\ runFailures' = runFailures + 1
    /\ IF worker = w /\ stops = 0
       THEN Stop(w)
       ELSE /\ phase' = [phase EXCEPT ![w] = "failed"]
            /\ UNCHANGED <<worker, stops, idleTimer, wakeAfterStop>>
    /\ UNCHANGED <<queueVars, up, announce, boot, shutDown, check, faults>>

----------------------------------------------------------------------------

Init ==
    /\ job = [j \in Jobs |-> "absent"]
    /\ owner = [j \in Jobs |-> NoWorker]
    /\ attempts = [j \in Jobs |-> 0]
    /\ up = FALSE /\ announce = {} /\ boot = "done"
    /\ worker = NoWorker /\ stops = 0 /\ idleTimer = FALSE
    /\ wakeAfterStop = FALSE /\ shutDown = FALSE
    /\ check = [c \in CheckSlots |-> Idle]
    /\ phase = [w \in Workers |-> "closed"]
    /\ faults = 0 /\ runFailures = 0

Next ==
    \/ \E j \in Jobs : Add(j) \/ AddElsewhere(j) \/ Announce(j) \/ Settle(j)
    \/ BootCount \/ BootCountFails \/ BootResume
    \/ \E c \in CheckSlots : \/ IdleTimerFires(c) \/ CheckCount(c)
                             \/ CheckCountFails(c) \/ CheckResume(c)
    \/ CloseSettles \/ Shutdown \/ Exit \/ Crash \/ Restart
    \/ \E w \in Workers : Drained(w) \/ RunRejects(w)
    \/ \E w \in Workers, j \in Jobs :
          Take(w, j) \/ Promote(w, j) \/ RecoverStalled(w, j)

\* Everything the process, Redis and BullMQ owe; no arrival and no fault.
Fairness ==
    /\ \A j \in Jobs : /\ WF_vars(Announce(j)) /\ WF_vars(Settle(j))
                       /\ WF_vars(\E w \in Workers : Take(w, j))
                       /\ WF_vars(\E w \in Workers : Promote(w, j))
                       /\ WF_vars(\E w \in Workers : RecoverStalled(w, j))
    /\ WF_vars(BootCount) /\ WF_vars(BootResume)
    /\ \A c \in CheckSlots : WF_vars(CheckCount(c)) /\ WF_vars(CheckResume(c))
    /\ WF_vars(\E c \in CheckSlots : IdleTimerFires(c))
    /\ \A w \in Workers : WF_vars(Drained(w))
    /\ WF_vars(CloseSettles) /\ WF_vars(Exit) /\ WF_vars(Restart)

Spec     == Init /\ [][Next]_vars
FairSpec == Spec /\ Fairness

----------------------------------------------------------------------------
(* Properties                                                              *)

\* Every variable stays in its type, and stop() calls and checks stay within
\* the slots that can hold them.
TypeOK ==
    /\ job \in [Jobs -> JobStates]
    /\ owner \in [Jobs -> Workers \cup {NoWorker}]
    /\ attempts \in [Jobs -> Nat]
    /\ up \in BOOLEAN /\ announce \subseteq Jobs /\ boot \in BootStates
    /\ worker \in Workers \cup {NoWorker} /\ stops \in Nat
    /\ idleTimer \in BOOLEAN /\ wakeAfterStop \in BOOLEAN /\ shutDown \in BOOLEAN
    /\ check \in [CheckSlots -> CheckStates]
    /\ phase \in [Workers -> PhaseStates]
    /\ faults \in 0 .. MaxFaults /\ runFailures \in 0 .. MaxRunFailures

\* README "manages one worker per queue": two live Worker objects would double
\* the queue's concurrency, and only the one in this.worker is ever closed.
OneWorkerPerQueue ==
    \A w \in Workers : Open(w) => worker = w

\* A job this process stored is never left behind: until it has ended, its own
\* event or the boot check is still to come, or a worker runs for it, or one
\* is closing with a restart recorded.  A count read before the job was stored
\* must not close the worker for good.
NoStrandedJob ==
    up /\ ~ shutDown /\ boot = "done" =>
        \A j \in OwnJobs : Pending(j) /\ j \notin announce =>
            /\ worker # NoWorker
            /\ stops = 0 \/ wakeAfterStop

\* "Closed on shutdown": once shutdown() has returned no worker still runs,
\* whatever wake, boot check or idle check was under way when it was called.
ShutdownLeavesNoWorker ==
    shutDown /\ stops = 0 => \A w \in Workers : ~ Open(w)

\* A worker that is not being stopped always has an idle check to come or
\* under way; without one it would poll Redis for ever.
IdleCheckPending ==
    worker # NoWorker /\ stops = 0 =>
        idleTimer \/ \E c \in CheckSlots : check[c].worker = worker

\* While this.worker is set and not being stopped, it is a worker that still
\* fetches jobs: wake() would trust a failed one for ever and only re-arm the
\* idle check.
WakeFindsLiveWorker ==
    worker # NoWorker /\ stops = 0 => Fetching(worker)

\* A worker is only ever closed with a job of this process in the queue when
\* the process is going down or a restart is due (one event still to come, or
\* recorded): README "delayed jobs keep it running until they are processed".
NoCloseOverWork ==
    [][stops' > stops /\ ~ shutDown' =>
         \A j \in OwnJobs : Pending(j) => j \in announce]_vars

\* Every job the process enqueued is processed to its end, across crashes.
JobsAreProcessed ==
    \A j \in OwnJobs : Pending(j) ~> job[j] = "ended"

\* Once nothing is left in the queue, the worker goes away.
IdleWorkerCloses ==
    <>[]QueueEmpty => <>[](\A w \in Workers : ~ Open(w))
============================================================================
