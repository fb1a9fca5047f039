------------------------------ MODULE ManualRuns ------------------------------
(***************************************************************************)
(* A manual run and the requests that record its results                   *)
(* (run-queries.service.ts, createManual and updateCaseStatus), with the   *)
(* notifications it raises on their way to the members.                    *)
(*                                                                         *)
(* updateCaseStatus opens no transaction: it reads the run, writes the     *)
(* case, reads the cases again, writes the run from them and publishes,    *)
(* and requests for the same run interleave between any two of these.      *)
(***************************************************************************)
EXTENDS NotificationDelivery

CONSTANTS
    Cases,         \* active manual cases of the suite
    PassedBefore,  \* those that passed in the suite's previous finished run
    Outcomes,      \* bound: the results given, of pass, fail, skip and blocked
    Requests,      \* bound: PATCH requests
    EndJob,        \* request -> the job of the run's end it may publish
    RegressJob     \* request -> the job of the regression it may publish

\* Notifications this run may raise: its ends, and a regression per case.
RunKeys == {"run_failed", "run_completed"} \cup Cases

ASSUME ManualAssumption ==
    /\ IsFiniteSet(Cases) /\ Cases # {} /\ PassedBefore \subseteq Cases
    /\ EndJob \in [Requests -> RunJobs] /\ RegressJob \in [Requests -> RunJobs]
    /\ Outcomes \subseteq {"pass", "fail", "skip", "blocked"}   \* what the endpoint accepts
    /\ PlainKeys = RunKeys

VARIABLES
    result,    \* case -> its status in the run
    run,       \* the run row: its status, and whether finishedAt is set
    req        \* request -> its step and what it has read

runVars == <<result, run, req>>
vars    == <<notifyVars, runVars>>

Open     == {"pending", "running"}
Unread   == [step |-> "idle", of |-> "none", seen |-> "none", wasFinished |-> FALSE,
             status |-> "none", open |-> TRUE]

\* Mutant: an open case outweighs a failed one.
RunningFirst(r) == IF \E c \in Cases : r[c] \in Open THEN "running"
                   ELSE IF \E c \in Cases : r[c] = "fail" THEN "fail" ELSE "pass"
\* deriveRunStatus: a failure decides at once; a run of blocked cases fails.
DeriveStatus(r) ==
    CASE \E c \in Cases : r[c] = "fail"              -> "fail"
      [] (\A c \in Cases : r[c] # "fail") /\ (\E c \in Cases : r[c] \in Open) -> "running"
      [] \A c \in Cases : r[c] = "blocked"           -> "fail"
      [] OTHER                                       -> "pass"

Init ==
    /\ NotificationInit
    /\ result = [c \in Cases |-> "none"]
    /\ run = [status |-> "none", finished |-> FALSE]
    /\ req \in [Requests -> {Unread, [Unread EXCEPT !.step = "absent"]}]

InFlight(q) == req[q].step \notin {"absent", "idle", "done"}

----------------------------------------------------------------------------
\* createManual: the run and its cases in one transaction.
CreateManual ==
    /\ run.status = "none"
    /\ run' = [run EXCEPT !.status = "pending"]
    /\ result' = [c \in Cases |-> "pending"]
    /\ UNCHANGED <<notifyVars, req>>

\* updateCaseStatus reads the run and finds the case.
ReadRun(q, c) ==
    /\ req[q].step = "idle" /\ run.status # "none"
    /\ req' = [req EXCEPT ![q] = [Unread EXCEPT !.step = "case", !.of = c, !.seen = run.status,
                                                !.wasFinished = run.finished]]
    /\ UNCHANGED <<notifyVars, result, run>>

\* The case takes its outcome; a failure is then looked up in the previous run.
SetCase(q, s) ==
    /\ req[q].step = "case"
    /\ result' = [result EXCEPT ![req[q].of] = s]
    /\ req' = [req EXCEPT ![q].step =
                 IF s = "fail" /\ req[q].of \in PassedBefore THEN "regression" ELSE "reload"]
    /\ UNCHANGED <<notifyVars, run>>

\* checkRegression
PublishRegression(q) ==
    /\ req[q].step = "regression"
    /\ Publish(RegressJob[q], req[q].of)
    /\ req' = [req EXCEPT ![q].step = "reload"]
    /\ UNCHANGED <<attempts, stalled, waiting, work, deliverVars, faults, result, run>>

\* The cases are read again, and the run's status derived from them.
Reload(q) ==
    /\ req[q].step = "reload"
    /\ req' = [req EXCEPT ![q].step = "run", ![q].status = DeriveStatus(result),
                          ![q].open = \E c \in Cases : result[c] \in Open]
    /\ UNCHANGED <<notifyVars, result, run>>

\* Mutant: finished as soon as the status is final.
FinishesEarly(q) == req[q].status \in {"fail", "pass"}
\* finishedAt, once no case is open; one already read as finished is kept.
Finishes(q) == ~ req[q].open /\ ~ req[q].wasFinished

\* Mutant: the end is announced when the run was finished before.
EndsIfFinished(q) == req[q].wasFinished
\* publishTerminalTransition, against the status read at the start.
Ends(q) == req[q].status # req[q].seen /\ req[q].status \in {"fail", "pass"}

SetRun(q) ==
    /\ req[q].step = "run"
    /\ run' = [status |-> req[q].status, finished |-> run.finished \/ Finishes(q)]
    /\ req' = [req EXCEPT ![q].step = IF Ends(q) THEN "publish" ELSE "done"]
    /\ UNCHANGED <<notifyVars, result>>

EndKey(s) == IF s = "fail" THEN "run_failed" ELSE "run_completed"

PublishEnd(q) ==
    /\ req[q].step = "publish"
    /\ Publish(EndJob[q], EndKey(req[q].status))
    /\ req' = [req EXCEPT ![q].step = "done"]
    /\ UNCHANGED <<attempts, stalled, waiting, work, deliverVars, faults, result, run>>

\* A call fails, or the process stops: what was written stays.
RequestFails(q) ==
    /\ InFlight(q) /\ PublisherFails
    /\ req' = [req EXCEPT ![q].step = "done"]
    /\ UNCHANGED <<result, run>>

----------------------------------------------------------------------------
RequestStep(q) ==
    \/ \E s \in Outcomes : SetCase(q, s)
    \/ PublishRegression(q) \/ Reload(q) \/ SetRun(q) \/ PublishEnd(q)

DeliveryStep ==
    /\ WorkerStep \/ NotificationFault \/ Decide \/ \E j \in Jobs : PushStep(j)
    /\ UNCHANGED runVars

Next ==
    \/ CreateManual
    \/ \E q \in Requests : \/ \E c \in Cases : ReadRun(q, c)
                           \/ RequestStep(q) \/ RequestFails(q)
    \/ DeliveryStep

Spec == Init /\ [][Next]_vars

\* A request that was accepted goes on to its end, and the worker to that of the
\* queue; nothing obliges a person to send a request or to decide a proposal.
Fairness ==
    /\ \A q \in Requests : WF_vars(RequestStep(q))
    /\ WF_vars(WorkerStep /\ UNCHANGED runVars)

FairSpec == Spec /\ Fairness

----------------------------------------------------------------------------
RequestType == [step : {"absent", "idle", "case", "regression", "reload", "run", "publish", "done"},
                of : Cases \cup {"none"}, seen : {"none", "pending", "running", "fail", "pass"},
                wasFinished : BOOLEAN, status : {"none", "running", "fail", "pass"},
                open : BOOLEAN]

TypeOK ==
    /\ NotificationTypeOK
    /\ result \in [Cases -> Outcomes \cup Open \cup {"none"}]
    /\ run \in [status : {"none", "pending", "running", "fail", "pass"}, finished : BOOLEAN]
    /\ req \in [Requests -> RequestType]

Quiet == \A q \in Requests : ~ InFlight(q)

\* RUN_QUERIES.md, step 3: a run is finished only when no case is open, and once
\* the last request has answered one with no open case is, in whatever order
\* they read and wrote.
FinishedWhenClosed ==
    /\ run.finished => \A c \in Cases : result[c] \notin Open
    /\ Quiet /\ faults = 0 /\ run.status # "none"
         /\ (\A c \in Cases : result[c] \notin Open) => run.finished

\* A run that ends, in either way, is told to every member, failures aside:
\* whichever request saw the transition publishes it.
EndIsTold ==
    [](faults = 0) =>
        \A s \in {"fail", "pass"} :
            run.status = s ~> \A m \in Members : inbox[m][EndKey(s)] > 0
=============================================================================
