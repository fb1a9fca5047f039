------------------------ MODULE OnDemandWorkerProofs ------------------------
(***************************************************************************)
(* Proofs about OnDemandWorker, for any sets of jobs, workers and check    *)
(* slots, any number of attempts, crashes and shutdowns.                   *)
(***************************************************************************)
EXTENDS OnDemandWorker, TLAPS

\* The worker object in this.worker is live, it is the only one, and
\* this.stopping tells whether it is closing.
OneWorker ==
    /\ \A w \in Workers : Open(w) => worker = w
    /\ stops \in {0, 1}
    /\ stops = 1 => worker # NoWorker /\ phase[worker] = "closing"
    /\ stops = 0 /\ worker # NoWorker => Fetching(worker)
    /\ wakeAfterStop => stops = 1
    /\ shutDown /\ stops = 0 => worker = NoWorker

\* A checkIdle() that awaits its count still speaks about this.worker, which
\* nobody else is stopping: that is what lets it stop the worker unasked.
ChecksCurrent ==
    \A c \in CheckSlots :
        /\ check[c].worker = NoWorker <=> check[c].count = "none"
        /\ check[c].count # "none" /\ ~ shutDown =>
              check[c].worker = worker /\ stops = 0

ProcessDown ==
    ~ up => /\ announce = {} /\ boot = "done" /\ worker = NoWorker
            /\ stops = 0 /\ ~ idleTimer /\ ~ shutDown
            /\ \A c \in CheckSlots : check[c].count = "none"

\* A job of this process is looked after: by the boot check, or by a worker
\* that no count from before the job was stored can close for good.
LookedAfter(j) ==
    \/ boot \in {"counting", "pending"}
    \/ /\ worker # NoWorker
       /\ stops = 0 \/ wakeAfterStop
       /\ \A c \in CheckSlots : check[c].count = "empty" => idleTimer

OwnJobsLookedAfter ==
    up /\ ~ shutDown =>
        \A j \in OwnJobs : Pending(j) /\ j \notin announce => LookedAfter(j)

IndInv == /\ TypeOK /\ runFailures = 0
          /\ OneWorker /\ ChecksCurrent /\ ProcessDown
          /\ OwnJobsLookedAfter /\ IdleCheckPending


-----------------------------------------------------------------------------
(* Type correctness, whatever fails and however many checks overlap.        *)

\* wake() leaves the worker's own variables in their types.
LEMMA WakeType ==
    ASSUME TypeOK, Wake
    PROVE  /\ worker' \in Workers \cup {NoWorker} /\ stops' \in Nat
           /\ idleTimer' \in BOOLEAN /\ wakeAfterStop' \in BOOLEAN
           /\ phase' \in [Workers -> PhaseStates]
  BY DEF TypeOK, Wake, Start, Free, lifeVars, PhaseStates

\* So does stop().
LEMMA StopType ==
    ASSUME TypeOK, NEW w, Stop(w)
    PROVE  /\ worker' \in Workers \cup {NoWorker} /\ stops' \in Nat
           /\ idleTimer' \in BOOLEAN /\ wakeAfterStop' \in BOOLEAN
           /\ phase' \in [Workers -> PhaseStates]
<1>1. worker' \in Workers \cup {NoWorker} /\ stops' \in Nat
  BY SMT DEF TypeOK, Stop
<1>2. idleTimer' \in BOOLEAN /\ wakeAfterStop' \in BOOLEAN
  BY Zenon DEF TypeOK, Stop
<1>3. phase' \in [Workers -> PhaseStates]
  BY Zenon DEF TypeOK, Stop, PhaseStates
<1> QED BY <1>1, <1>2, <1>3

\* What the actions store in a check slot.
LEMMA RecordTypes ==
    /\ Idle \in CheckStates
    /\ \A w \in Workers : [worker |-> w, count |-> "unread"] \in CheckStates
    /\ \A r \in CheckStates, n \in {"pending", "empty"} :
          [r EXCEPT !.count = n] \in CheckStates
  BY DEF Idle, CheckStates

\* Every step keeps the types.
LEMMA TypeStep == ASSUME TypeOK, [Next]_vars PROVE TypeOK'
<1> USE ConstantsAssumption DEF TypeOK, JobStates, BootStates, PhaseStates,
        boundVars, queueVars
<1>1. ASSUME NEW j \in Jobs, Add(j) \/ AddElsewhere(j) PROVE TypeOK'
  BY <1>1 DEF Add, AddElsewhere, lifeVars, OwnJobs
<1>2. ASSUME NEW j \in Jobs, Announce(j) PROVE TypeOK'
  <2>1. /\ worker' \in Workers \cup {NoWorker} /\ stops' \in Nat
        /\ idleTimer' \in BOOLEAN /\ wakeAfterStop' \in BOOLEAN
        /\ phase' \in [Workers -> PhaseStates]
    BY <1>2, WakeType DEF Announce
  <2> QED BY <1>2, <2>1 DEF Announce
<1>3. ASSUME NEW j \in Jobs, Settle(j) PROVE TypeOK'
  BY <1>3 DEF Settle, lifeVars
<1>4. CASE BootCount \/ BootCountFails
  BY <1>4 DEF BootCount, BootCountFails, Counted, lifeVars
<1>5. CASE BootResume
  <2>1. CASE boot = "pending"
    <3>1. /\ worker' \in Workers \cup {NoWorker} /\ stops' \in Nat
          /\ idleTimer' \in BOOLEAN /\ wakeAfterStop' \in BOOLEAN
          /\ phase' \in [Workers -> PhaseStates]
      BY <1>5, <2>1, WakeType DEF BootResume
    <3> QED BY <1>5, <3>1 DEF BootResume
  <2>2. CASE boot # "pending"
    BY <1>5, <2>2 DEF BootResume, lifeVars
  <2> QED BY <2>1, <2>2
<1>6. ASSUME NEW c \in CheckSlots,
             IdleTimerFires(c) \/ CheckCount(c) \/ CheckCountFails(c)
      PROVE  TypeOK'
  <2>1. CASE IdleTimerFires(c)
    BY <2>1, RecordTypes DEF IdleTimerFires
  <2>2. CASE CheckCount(c)
    BY <2>2, RecordTypes DEF CheckCount, Counted, lifeVars
  <2>3. CASE CheckCountFails(c)
    <3>1. up' \in BOOLEAN /\ idleTimer' \in BOOLEAN /\ wakeAfterStop' \in BOOLEAN
          /\ shutDown' \in BOOLEAN
      BY <2>3, Zenon DEF CheckCountFails, lifeVars
    <3>2. check' \in [CheckSlots -> CheckStates]
      BY <2>3, RecordTypes DEF CheckCountFails
    <3>3. faults' \in 0 .. MaxFaults
      BY <2>3 DEF CheckCountFails
    <3>4. UNCHANGED <<job, owner, attempts, announce, boot, worker, stops, phase,
                      runFailures>>
      BY <2>3 DEF CheckCountFails, lifeVars
    <3> QED BY <3>1, <3>2, <3>3, <3>4
  <2> QED BY <1>6, <2>1, <2>2, <2>3
<1>7. ASSUME NEW c \in CheckSlots, CheckResume(c) PROVE TypeOK'
  <2>1. /\ worker' \in Workers \cup {NoWorker} /\ stops' \in Nat
        /\ idleTimer' \in BOOLEAN /\ wakeAfterStop' \in BOOLEAN
        /\ phase' \in [Workers -> PhaseStates]
    BY <1>7, StopType DEF CheckResume, ActOnCount, lifeVars
  <2> QED BY <1>7, <2>1, RecordTypes DEF CheckResume
<1>8. CASE CloseSettles
  BY <1>8 DEF CloseSettles, Free, lifeVars
<1>9. CASE Shutdown
  <2>1. /\ worker' \in Workers \cup {NoWorker} /\ stops' \in Nat
        /\ idleTimer' \in BOOLEAN /\ wakeAfterStop' \in BOOLEAN
        /\ phase' \in [Workers -> PhaseStates]
    BY <1>9, StopType DEF Shutdown
  <2> QED BY <1>9, <2>1 DEF Shutdown
<1>10. CASE Exit \/ Crash \/ Restart
  <2>1. CASE Exit \/ Crash
    <3>1. up' \in BOOLEAN /\ idleTimer' \in BOOLEAN /\ wakeAfterStop' \in BOOLEAN
          /\ shutDown' \in BOOLEAN
      BY <2>1, Zenon DEF Exit, Crash, Gone
    <3>2. /\ announce' \subseteq Jobs /\ boot' \in BootStates
          /\ worker' \in Workers \cup {NoWorker} /\ stops' \in Nat
          /\ owner' \in [Jobs -> Workers \cup {NoWorker}]
          /\ phase' \in [Workers -> PhaseStates]
          /\ check' \in [CheckSlots -> CheckStates]
          /\ UNCHANGED <<job, attempts, runFailures>>
      BY <2>1, RecordTypes DEF Exit, Crash, Gone
    <3>3. faults' \in 0 .. MaxFaults
      BY <2>1 DEF Exit, Crash
    <3> QED BY <3>1, <3>2, <3>3
  <2>2. CASE Restart
    BY <2>2 DEF Restart, lifeVars
  <2> QED BY <1>10, <2>1, <2>2
<1>11. ASSUME NEW w \in Workers, Drained(w) \/ RunRejects(w) PROVE TypeOK'
  <2>1. CASE Drained(w)
    BY <2>1 DEF Drained
  <2>2. CASE RunRejects(w)
    <3>1. /\ worker' \in Workers \cup {NoWorker} /\ stops' \in Nat
          /\ idleTimer' \in BOOLEAN /\ wakeAfterStop' \in BOOLEAN
          /\ phase' \in [Workers -> PhaseStates]
      BY <2>2, StopType DEF RunRejects
    <3> QED BY <2>2, <3>1 DEF RunRejects
  <2> QED BY <1>11, <2>1, <2>2
<1>12. ASSUME NEW w \in Workers, NEW j \in Jobs,
              Take(w, j) \/ Promote(w, j) \/ RecoverStalled(w, j)
       PROVE  TypeOK'
  BY <1>12 DEF Take, Promote, RecoverStalled, lifeVars
<1>13. CASE UNCHANGED vars
  BY <1>13 DEF vars
<1> QED
  BY <1>1, <1>2, <1>3, <1>4, <1>5, <1>6, <1>7, <1>8, <1>9, <1>10, <1>11, <1>12,
     <1>13 DEF Next

\* A process starts well typed.
LEMMA TypeInit == ASSUME Init PROVE TypeOK
<1>1. up \in BOOLEAN /\ idleTimer \in BOOLEAN /\ wakeAfterStop \in BOOLEAN
      /\ shutDown \in BOOLEAN
  BY Zenon DEF Init
<1>2. /\ job \in [Jobs -> JobStates] /\ attempts \in [Jobs -> Nat]
      /\ owner \in [Jobs -> Workers \cup {NoWorker}]
      /\ phase \in [Workers -> PhaseStates]
      /\ check \in [CheckSlots -> CheckStates]
  BY RecordTypes DEF Init, JobStates, PhaseStates
<1>3. /\ announce \subseteq Jobs /\ boot \in BootStates
      /\ worker \in Workers \cup {NoWorker} /\ stops \in Nat
      /\ faults \in 0 .. MaxFaults /\ runFailures \in 0 .. MaxRunFailures
  BY ConstantsAssumption, SMT DEF Init, BootStates
<1> QED BY <1>1, <1>2, <1>3 DEF TypeOK

\* Every reachable state is well typed.
THEOREM TypeCorrect == Spec => []TypeOK
<1>1. Init => TypeOK
  BY TypeInit
<1>2. TypeOK /\ [Next]_vars => TypeOK'
  BY TypeStep
<1> QED BY <1>1, <1>2, PTL DEF Spec

-----------------------------------------------------------------------------
(* The lifecycle, when run() never rejects and a count returns before the   *)
(* next idle check is due.                                                   *)

\* After wake() there is a worker, unless the process shuts down, and it is the one
\* that was there if there was one; its next idle check or its restart is due.
LEMMA WakeInv ==
    ASSUME TypeOK, OneWorker, Wake, shutDown' = shutDown
    PROVE  /\ OneWorker'
           /\ worker # NoWorker => worker' = worker /\ stops' = stops
           /\ ~ shutDown => /\ worker' # NoWorker
                            /\ stops' = 0 \/ wakeAfterStop'
                            /\ stops' = 0 => idleTimer'
           /\ shutDown => UNCHANGED <<worker, stops, idleTimer, wakeAfterStop>>
<1>1. CASE shutDown /\ UNCHANGED lifeVars
  BY <1>1 DEF OneWorker, lifeVars, Open, Fetching
<1>2. CASE ~ shutDown /\ stops > 0 /\ wakeAfterStop' = TRUE
           /\ UNCHANGED <<worker, stops, idleTimer, phase>>
  <2>1. stops = 1 /\ worker # NoWorker
    BY <1>2 DEF OneWorker
  <2> QED BY <1>2, <2>1, Zenon DEF OneWorker, Open, Fetching
<1>3. CASE ~ shutDown /\ stops = 0 /\ worker # NoWorker /\ idleTimer' = TRUE
           /\ UNCHANGED <<worker, stops, wakeAfterStop, phase>>
  BY <1>3 DEF OneWorker, Open, Fetching
<1>4. CASE ~ shutDown /\ stops = 0 /\ worker = NoWorker /\ Start
  <2>1. PICK w \in Workers :
             /\ worker' = w /\ phase' = [phase EXCEPT ![w] = "running"]
             /\ idleTimer' = TRUE /\ stops' = stops
             /\ wakeAfterStop' = wakeAfterStop
    BY <1>4 DEF Start, Free
  <2>2. w # NoWorker /\ \A v \in Workers : phase[v] = "closed"
    BY <1>4, ConstantsAssumption DEF OneWorker, Open
  <2>3. phase'[w] = "running" /\ \A v \in Workers : phase'[v] # "closed" => v = w
    BY <2>1, <2>2 DEF TypeOK
  <2>4. ~ wakeAfterStop
    BY <1>4 DEF OneWorker
  <2>5. OneWorker'
    BY <1>4, <2>1, <2>2, <2>3, <2>4 DEF OneWorker, Open, Fetching
  <2> QED BY <1>4, <2>1, <2>2, <2>5
<1> QED BY <1>1, <1>2, <1>3, <1>4 DEF Wake

\* stop() on the running worker, no other close in flight, leaves one close in flight.
LEMMA StopInv ==
    ASSUME TypeOK, OneWorker, stops = 0, worker # NoWorker, Stop(worker)
    PROVE  OneWorker' /\ stops' = 1
<1>1. worker \in Workers /\ worker' = worker /\ stops' = 1
      /\ phase' = [phase EXCEPT ![worker] = "closing"]
      /\ phase \in [Workers -> PhaseStates]
  BY DEF Stop, TypeOK
<1>2. wakeAfterStop' = wakeAfterStop
  BY Zenon DEF Stop
<1>3. ~ wakeAfterStop
  BY DEF OneWorker
<1>4. \A w \in Workers : phase'[w] # "closed" => worker' = w
  BY <1>1 DEF OneWorker, Open
<1> QED BY <1>1, <1>2, <1>3, <1>4 DEF OneWorker, Open

\* Steps of Redis, of BullMQ and of callers that only touch jobs: the live
\* worker keeps its role, the idle timer is at most re-armed, and no job of
\* this process becomes pending without its event to come.
Quiet ==
    /\ UNCHANGED <<up, boot, worker, stops, wakeAfterStop, shutDown, check,
                   runFailures>>
    /\ \A w \in Workers : /\ Open(w)' => Open(w)
                          /\ Fetching(w) => Fetching(w)'
                          /\ phase[w] = "closing" => phase'[w] = "closing"
    /\ idleTimer => idleTimer'
    /\ ~ up => announce' = announce /\ idleTimer' = idleTimer
    /\ \A j \in OwnJobs :
          Pending(j)' /\ j \notin announce' => Pending(j) /\ j \notin announce

\* A step that leaves the lifecycle alone and makes no job pending keeps the invariant.
LEMMA QuietInv == ASSUME IndInv, TypeOK', Quiet PROVE IndInv'
<1> USE DEF IndInv, Quiet
<1>0. worker \in Workers \cup {NoWorker}
  BY DEF TypeOK
<1>1. OneWorker'
  BY <1>0, Zenon DEF OneWorker
<1>2. ChecksCurrent'
  BY Zenon DEF ChecksCurrent
<1>3. ProcessDown'
  BY Zenon DEF ProcessDown
<1>4. OwnJobsLookedAfter'
  <2> SUFFICES ASSUME up, ~ shutDown, NEW j \in OwnJobs, Pending(j)', j \notin announce'
               PROVE  LookedAfter(j)'
    BY Zenon DEF OwnJobsLookedAfter
  <2>1. LookedAfter(j)
    BY Zenon DEF OwnJobsLookedAfter
  <2> QED BY <2>1, Zenon DEF LookedAfter
<1>5. IdleCheckPending'
  BY Zenon DEF IdleCheckPending
<1> QED BY <1>1, <1>2, <1>3, <1>4, <1>5, Zenon

\* Steps that call wake(), and change nothing else of the lifecycle.
LEMMA AfterWake ==
    ASSUME IndInv, TypeOK', Wake, up,
           UNCHANGED <<job, up, shutDown, check, runFailures>>
    PROVE  IndInv'
<1> USE DEF IndInv
<1>1. /\ OneWorker'
      /\ worker # NoWorker => worker' = worker /\ stops' = stops
      /\ ~ shutDown => /\ worker' # NoWorker
                       /\ stops' = 0 \/ wakeAfterStop'
                       /\ stops' = 0 => idleTimer'
      /\ shutDown => UNCHANGED <<worker, stops, idleTimer, wakeAfterStop>>
  BY WakeInv, Zenon
<1>2. ChecksCurrent'
  BY <1>1, Zenon DEF ChecksCurrent
<1>3. ProcessDown'
  BY Zenon DEF ProcessDown
<1>4. OwnJobsLookedAfter'
  <2> SUFFICES ASSUME ~ shutDown, NEW j \in OwnJobs PROVE LookedAfter(j)'
    BY Zenon DEF OwnJobsLookedAfter
  <2>1. \A c \in CheckSlots : check[c].count = "empty" => idleTimer'
    <3> SUFFICES ASSUME NEW c \in CheckSlots, check[c].count = "empty" PROVE idleTimer'
      BY Zenon
    <3>1. stops = 0 /\ worker # NoWorker
      BY Zenon DEF ChecksCurrent
    <3> QED BY <1>1, <3>1, Zenon
  <2> QED BY <1>1, <2>1, Zenon DEF LookedAfter
<1>5. IdleCheckPending'
  BY <1>1, Zenon DEF IdleCheckPending, OneWorker
<1> QED BY <1>1, <1>2, <1>3, <1>4, <1>5, Zenon

\* One step per action.  The assumptions: run() does not reject, and no two
\* idle checks overlap.
LEMMA InvStep ==
    ASSUME MaxRunFailures = 0, \A c, d \in CheckSlots : c = d,
           IndInv, [Next]_vars
    PROVE  IndInv'
<1>0. TypeOK'
  BY TypeStep DEF IndInv
<1>1. ASSUME NEW j \in Jobs, \/ Add(j) \/ AddElsewhere(j) \/ Settle(j)
                             \/ \E w \in Workers : Promote(w, j) \/ RecoverStalled(w, j)
      PROVE  IndInv'
  <2>1. /\ UNCHANGED <<up, boot, worker, stops, wakeAfterStop, shutDown, check,
                       runFailures, phase, idleTimer>>
        /\ ~ up => announce' = announce
        /\ announce \subseteq announce'
    BY <1>1, Zenon DEF Add, AddElsewhere, Settle, Promote, RecoverStalled, lifeVars,
                       boundVars
  <2>2. \A k \in OwnJobs : Pending(k)' /\ k \notin announce' => Pending(k)
    <3>1. CASE Add(j)
      BY <3>1 DEF Add, Pending, PendingStates, OwnJobs, IndInv, TypeOK
    <3>2. CASE AddElsewhere(j)
      BY <3>2 DEF AddElsewhere, Pending, PendingStates, OwnJobs, IndInv, TypeOK
    <3>3. CASE Settle(j)
      BY <3>3 DEF Settle, Pending, PendingStates, OwnJobs, IndInv, TypeOK
    <3>4. CASE \E w \in Workers : Promote(w, j) \/ RecoverStalled(w, j)
      BY <3>4 DEF Promote, RecoverStalled, Pending, PendingStates, OwnJobs, IndInv,
                  TypeOK
    <3> QED BY <1>1, <3>1, <3>2, <3>3, <3>4
  <2>3. Quiet
    BY <2>1, <2>2, Zenon DEF Quiet, Open, Fetching
  <2> QED BY <1>0, <2>3, QuietInv
<1>2. ASSUME NEW j \in Jobs, NEW w \in Workers, Take(w, j) PROVE IndInv'
  <2>1. /\ UNCHANGED <<up, boot, worker, stops, wakeAfterStop, shutDown, check,
                       runFailures, announce, idleTimer>>
        /\ Fetching(w) /\ phase' = [phase EXCEPT ![w] = "running"]
        /\ phase \in [Workers -> PhaseStates]
        /\ job' = [job EXCEPT ![j] = "active"] /\ job[j] = "waiting"
    BY <1>2, Zenon DEF Take, boundVars, IndInv, TypeOK
  <2>2. \A v \in Workers : phase'[v] = IF v = w THEN "running" ELSE phase[v]
    BY <2>1
  <2>3. \A v \in Workers : /\ Open(v)' => Open(v)
                           /\ Fetching(v) => Fetching(v)'
                           /\ phase[v] = "closing" => phase'[v] = "closing"
    BY <2>1, <2>2 DEF Open, Fetching
  <2>4. \A k \in OwnJobs : Pending(k)' => Pending(k)
    BY <2>1 DEF Pending, PendingStates, OwnJobs, IndInv, TypeOK
  <2>5. Quiet
    BY <2>1, <2>3, <2>4, Zenon DEF Quiet
  <2> QED BY <1>0, <2>5, QuietInv
<1>3. ASSUME NEW w \in Workers, Drained(w) PROVE IndInv'
  <2>1. /\ UNCHANGED <<up, boot, worker, stops, wakeAfterStop, shutDown, check,
                       runFailures, announce, job>>
        /\ phase[w] = "running" /\ phase' = [phase EXCEPT ![w] = "drained"]
        /\ phase \in [Workers -> PhaseStates]
    BY <1>3, Zenon DEF Drained, boundVars, queueVars, IndInv, TypeOK
  <2>2. \A v \in Workers : phase'[v] = IF v = w THEN "drained" ELSE phase[v]
    BY <2>1
  <2>3. \A v \in Workers : /\ Open(v)' => Open(v)
                           /\ Fetching(v) => Fetching(v)'
                           /\ phase[v] = "closing" => phase'[v] = "closing"
    BY <2>1, <2>2 DEF Open, Fetching
  <2>4. idleTimer' = (idleTimer \/ worker = w)
    BY <1>3, Zenon DEF Drained
  <2>5. worker = w
    BY <2>1, Zenon DEF IndInv, OneWorker, Open
  <2>6. up
    BY <2>5, ConstantsAssumption, Zenon DEF IndInv, ProcessDown
  <2>7. Quiet
    BY <2>1, <2>3, <2>4, <2>6, Zenon DEF Quiet, Pending
  <2> QED BY <1>0, <2>7, QuietInv
<1>4. ASSUME NEW w \in Workers, RunRejects(w) PROVE FALSE
  BY <1>4 DEF RunRejects, IndInv
<1>5. ASSUME NEW j \in Jobs, Announce(j) PROVE IndInv'
  <2>1. Wake /\ UNCHANGED <<job, up, boot, shutDown, check, runFailures>>
        /\ j \in announce
    BY <1>5, Zenon DEF Announce, queueVars, boundVars
  <2>2. up
    BY <2>1, Zenon DEF IndInv, ProcessDown
  <2> QED BY <1>0, <2>1, <2>2, AfterWake, Zenon
<1>6. CASE BootCount \/ BootCountFails
  <2>1. /\ UNCHANGED <<job, up, announce, worker, stops, idleTimer, wakeAfterStop,
                       phase, shutDown, check, runFailures>>
        /\ boot = "counting"
        /\ boot' = Counted \/ boot' = "pending"
    BY <1>6, Zenon DEF BootCount, BootCountFails, lifeVars, queueVars, boundVars
  <2>2. up
    BY <2>1 DEF IndInv, ProcessDown
  <2>3. OneWorker' /\ ChecksCurrent' /\ ProcessDown' /\ IdleCheckPending'
    BY <2>1, <2>2, Zenon DEF IndInv, OneWorker, Open, Fetching, ChecksCurrent,
                             ProcessDown, IdleCheckPending
  <2>4. OwnJobsLookedAfter'
    <3> SUFFICES ASSUME NEW j \in OwnJobs, Pending(j)' PROVE LookedAfter(j)'
      BY Zenon DEF OwnJobsLookedAfter
    <3>1. ~ QueueEmpty
      BY <2>1, Zenon DEF QueueEmpty, Pending, OwnJobs
    <3>2. boot' = "pending"
      BY <2>1, <3>1 DEF Counted
    <3> QED BY <3>2, Zenon DEF LookedAfter
  <2> QED BY <1>0, <2>1, <2>3, <2>4, Zenon DEF IndInv
<1>7. CASE BootResume
  <2>1. up
    BY <1>7 DEF BootResume, IndInv, ProcessDown
  <2>2. CASE boot = "pending"
    <3>1. Wake /\ UNCHANGED <<job, up, shutDown, check, runFailures>>
      BY <1>7, <2>2, Zenon DEF BootResume, queueVars, boundVars
    <3> QED BY <1>0, <2>1, <3>1, AfterWake, Zenon
  <2>3. CASE boot # "pending"
    <3>1. /\ UNCHANGED <<job, up, announce, worker, stops, idleTimer,
                         wakeAfterStop, phase, shutDown, check, runFailures>>
          /\ boot = "empty"
      BY <1>7, <2>3, Zenon DEF BootResume, queueVars, boundVars, lifeVars
    <3>2. OneWorker' /\ ChecksCurrent' /\ ProcessDown' /\ IdleCheckPending'
      BY <2>1, <3>1, Zenon DEF IndInv, OneWorker, Open, Fetching, ChecksCurrent,
                               ProcessDown, IdleCheckPending
    <3>3. OwnJobsLookedAfter'
      BY <3>1 DEF IndInv, OwnJobsLookedAfter, LookedAfter, Pending
    <3> QED BY <1>0, <3>1, <3>2, <3>3, Zenon DEF IndInv
  <2> QED BY <2>2, <2>3
<1>8. ASSUME NEW c \in CheckSlots, IdleTimerFires(c) PROVE IndInv'
  <2>1. /\ UNCHANGED <<job, up, announce, boot, worker, stops, wakeAfterStop,
                       phase, shutDown, runFailures>>
        /\ idleTimer /\ ~ idleTimer' /\ check[c] = Idle
        /\ worker = NoWorker \/ stops > 0 => check' = check
        /\ ~ (worker = NoWorker \/ stops > 0) =>
              check' = [check EXCEPT ![c] = [worker |-> worker, count |-> "unread"]]
    BY <1>8, Zenon DEF IdleTimerFires, queueVars, boundVars
  <2>2. up /\ check[c].count = "none" /\ \A d \in CheckSlots : d = c
    <3>1. check[c].count = "none"
      BY <2>1 DEF Idle
    <3> QED BY <2>1, <3>1, Zenon DEF IndInv, ProcessDown
  <2>3. OneWorker' /\ ProcessDown'
    BY <2>1, <2>2, Zenon DEF IndInv, OneWorker, Open, Fetching, ProcessDown
  <2>4. \/ /\ check' = check
           /\ worker = NoWorker \/ stops # 0
        \/ /\ worker # NoWorker /\ stops = 0
           /\ check'[c].worker = worker /\ check'[c].count = "unread"
    BY <2>1 DEF IndInv, TypeOK
  <2>5. ChecksCurrent'
    BY <2>1, <2>2, <2>4 DEF IndInv, ChecksCurrent
  <2>6. OwnJobsLookedAfter'
    <3>1. \A d \in CheckSlots : check'[d].count # "empty"
      BY <2>2, <2>4
    <3>2. \A j \in OwnJobs : LookedAfter(j) => LookedAfter(j)'
      BY <2>1, <3>1 DEF LookedAfter
    <3> QED BY <2>1, <3>2, Zenon DEF IndInv, OwnJobsLookedAfter, Pending
  <2>7. IdleCheckPending'
    BY <2>1, <2>4, Zenon DEF IdleCheckPending
  <2> QED BY <1>0, <2>1, <2>3, <2>5, <2>6, <2>7, Zenon DEF IndInv
<1>9. ASSUME NEW c \in CheckSlots, CheckCount(c) \/ CheckCountFails(c) PROVE IndInv'
  <2>1. /\ UNCHANGED <<job, up, announce, boot, worker, stops, wakeAfterStop,
                       phase, shutDown, runFailures, idleTimer>>
        /\ check[c].count = "unread"
        /\ check \in [CheckSlots -> CheckStates]
        /\ \/ check' = [check EXCEPT ![c].count = Counted]
           \/ check' = [check EXCEPT ![c].count = "pending"]
    BY <1>9, Zenon DEF CheckCount, CheckCountFails, queueVars, boundVars, lifeVars,
                       IndInv, TypeOK
  <2>2. /\ \A d \in CheckSlots : check'[d].worker = check[d].worker
        /\ check'[c].count = Counted \/ check'[c].count = "pending"
    BY <2>1 DEF CheckStates
  <2>3. Counted \in {"pending", "empty"} /\ \A d \in CheckSlots : d = c
    BY DEF Counted
  <2>4. up
    BY <2>1 DEF IndInv, ProcessDown
  <2>5. OneWorker' /\ ProcessDown'
    BY <2>1, <2>4, Zenon DEF IndInv, OneWorker, Open, Fetching, ProcessDown
  <2>6. ChecksCurrent'
    BY <2>1, <2>2, <2>3 DEF IndInv, ChecksCurrent
  <2>7. OwnJobsLookedAfter'
    <3> SUFFICES ASSUME ~ shutDown, NEW j \in OwnJobs, Pending(j)', j \notin announce'
                 PROVE  LookedAfter(j)'
      BY <2>1, Zenon DEF OwnJobsLookedAfter
    <3>1. Pending(j) /\ LookedAfter(j)
      BY <2>1, <2>4, Zenon DEF IndInv, OwnJobsLookedAfter, Pending
    <3>2. Counted = "pending"
      BY <3>1, Zenon DEF Counted, QueueEmpty, OwnJobs
    <3>3. \A d \in CheckSlots : check'[d].count # "empty"
      BY <2>2, <2>3, <3>2
    <3> QED BY <2>1, <3>1, <3>3 DEF LookedAfter
  <2>8. IdleCheckPending'
    BY <2>1, <2>2, Zenon DEF IndInv, IdleCheckPending
  <2> QED BY <1>0, <2>1, <2>5, <2>6, <2>7, <2>8, Zenon DEF IndInv
<1>10. ASSUME NEW c \in CheckSlots, CheckResume(c) PROVE IndInv'
  <2>1. /\ UNCHANGED <<job, up, announce, boot, shutDown, runFailures>>
        /\ check[c].count \in {"pending", "empty"}
        /\ check' = [check EXCEPT ![c] = Idle]
        /\ ActOnCount(c)
    BY <1>10, Zenon DEF CheckResume, queueVars, boundVars
  <2>2. up /\ \A d \in CheckSlots : d = c
    BY <2>1 DEF IndInv, ProcessDown
  <2>3. /\ \A d \in CheckSlots : check'[d].worker = NoWorker /\ check'[d].count = "none"
    BY <2>1, <2>2 DEF IndInv, TypeOK, Idle
  <2>4. ChecksCurrent'
    BY <2>3 DEF ChecksCurrent
  <2>5. ProcessDown'
    BY <2>1, <2>2 DEF ProcessDown
  <2>6. ~ shutDown => worker = check[c].worker /\ stops = 0 /\ worker # NoWorker
    BY <2>1 DEF IndInv, ChecksCurrent
  <2>7. CASE (Overtaken(c) \/ shutDown) /\ UNCHANGED lifeVars
    <3>1. UNCHANGED <<worker, stops, idleTimer, wakeAfterStop, phase>>
      BY <2>7, Zenon DEF lifeVars
    <3>2. OneWorker'
      BY <2>1, <3>1, Zenon DEF IndInv, OneWorker, Open, Fetching
    <3>3. OwnJobsLookedAfter'
      <4>1. \A j \in OwnJobs : LookedAfter(j) => LookedAfter(j)'
        BY <2>1, <2>3, <3>1 DEF LookedAfter
      <4> QED BY <2>1, <4>1, Zenon DEF IndInv, OwnJobsLookedAfter, Pending
    <3>4. IdleCheckPending'
      BY <2>6, <2>7, <3>1, Zenon DEF IndInv, IdleCheckPending, Overtaken, OneWorker
    <3> QED BY <1>0, <2>1, <2>4, <2>5, <3>2, <3>3, <3>4, Zenon DEF IndInv
  <2>8. CASE /\ ~ Overtaken(c) /\ ~ shutDown
             /\ idleTimer' = TRUE
             /\ UNCHANGED <<worker, stops, wakeAfterStop, phase>>
    <3>1. OneWorker'
      BY <2>1, <2>8, Zenon DEF IndInv, OneWorker, Open, Fetching
    <3>2. OwnJobsLookedAfter'
      <4>1. \A j \in OwnJobs : LookedAfter(j) => LookedAfter(j)'
        BY <2>1, <2>3, <2>8 DEF LookedAfter
      <4> QED BY <2>1, <4>1, Zenon DEF IndInv, OwnJobsLookedAfter, Pending
    <3>3. IdleCheckPending'
      BY <2>8, Zenon DEF IdleCheckPending
    <3> QED BY <1>0, <2>1, <2>4, <2>5, <3>1, <3>2, <3>3, Zenon DEF IndInv
  <2>9. CASE /\ ~ Overtaken(c) /\ ~ shutDown /\ check[c].count = "empty"
             /\ Stop(worker)
    <3>1. OneWorker' /\ stops' = 1
      BY <2>6, <2>9, StopInv, Zenon DEF IndInv
    <3>2. ~ idleTimer /\ worker' = worker
      BY <2>9, Zenon DEF Overtaken, Stop
    <3>3. OwnJobsLookedAfter'
      <4> SUFFICES ASSUME NEW j \in OwnJobs, Pending(j)', j \notin announce'
                   PROVE  LookedAfter(j)'
        BY Zenon DEF OwnJobsLookedAfter
      <4>1. LookedAfter(j)
        BY <2>1, <2>2, <2>9, Zenon DEF IndInv, OwnJobsLookedAfter, Pending
      <4>2. boot \in {"counting", "pending"}
        BY <2>9, <3>2, <4>1, Zenon DEF LookedAfter
      <4> QED BY <2>1, <4>2, Zenon DEF LookedAfter
    <3>4. IdleCheckPending'
      BY <3>1 DEF IdleCheckPending
    <3> QED BY <1>0, <2>1, <2>4, <2>5, <3>1, <3>3, <3>4, Zenon DEF IndInv
  <2> QED BY <2>1, <2>7, <2>8, <2>9, Zenon DEF ActOnCount
<1>11. CASE CloseSettles
  <2>1. /\ UNCHANGED <<job, up, announce, boot, shutDown, check, runFailures>>
        /\ stops > 0 /\ stops' = 0 /\ wakeAfterStop' = FALSE
        /\ stops = 1 /\ worker \in Workers /\ worker # NoWorker
        /\ phase \in [Workers -> PhaseStates]
    BY <1>11 DEF CloseSettles, queueVars, boundVars, IndInv, OneWorker, TypeOK
  <2>2. up /\ (~ shutDown => \A c \in CheckSlots : check[c].count = "none")
    BY <2>1 DEF IndInv, ProcessDown, ChecksCurrent, TypeOK, CheckStates
  <2>3. \A w \in Workers : phase[w] # "closed" => w = worker
    BY <2>1, Zenon DEF IndInv, OneWorker, Open
  <2>4. CASE wakeAfterStop /\ ~ shutDown
    <3>1. PICK w \in Workers :
             /\ w \in Free /\ worker' = w /\ idleTimer' = TRUE
             /\ phase' = [phase EXCEPT ![worker] = "closed", ![w] = "running"]
      BY <1>11, <2>1, <2>4 DEF CloseSettles, Free
    <3>2. w # NoWorker /\ phase'[w] = "running"
          /\ \A v \in Workers : phase'[v] # "closed" => v = w
      BY <2>1, <2>3, <3>1, ConstantsAssumption
    <3>3. OneWorker'
      BY <2>1, <2>4, <3>1, <3>2 DEF OneWorker, Open, Fetching
    <3>4. ChecksCurrent' /\ ProcessDown'
      BY <2>1, <2>2, <2>4, Zenon DEF IndInv, ChecksCurrent, ProcessDown
    <3>5. OwnJobsLookedAfter'
      BY <2>1, <3>1, <3>2, Zenon DEF OwnJobsLookedAfter, LookedAfter
    <3>6. IdleCheckPending'
      BY <3>1, Zenon DEF IdleCheckPending
    <3> QED BY <1>0, <2>1, <3>3, <3>4, <3>5, <3>6, Zenon DEF IndInv
  <2>5. CASE ~ (wakeAfterStop /\ ~ shutDown)
    <3>1. /\ worker' = NoWorker /\ idleTimer' = idleTimer
          /\ phase' = [phase EXCEPT ![worker] = "closed"]
      BY <1>11, <2>5, Zenon DEF CloseSettles
    <3>2. \A v \in Workers : phase'[v] = "closed"
      BY <2>1, <2>3, <3>1
    <3>3. OneWorker'
      BY <2>1, <3>1, <3>2 DEF OneWorker, Open, Fetching
    <3>4. ChecksCurrent' /\ ProcessDown'
      BY <2>1, <2>2, Zenon DEF IndInv, ChecksCurrent, ProcessDown
    <3>5. OwnJobsLookedAfter'
      <4> SUFFICES ASSUME ~ shutDown, NEW j \in OwnJobs, Pending(j)', j \notin announce'
                   PROVE  LookedAfter(j)'
        BY <2>1, Zenon DEF OwnJobsLookedAfter
      <4>1. LookedAfter(j)
        BY <2>1, <2>2, Zenon DEF IndInv, OwnJobsLookedAfter, Pending
      <4>2. boot \in {"counting", "pending"}
        BY <2>1, <2>5, <4>1 DEF LookedAfter
      <4> QED BY <2>1, <4>2, Zenon DEF LookedAfter
    <3>6. IdleCheckPending'
      BY <3>1, Zenon DEF IdleCheckPending
    <3> QED BY <1>0, <2>1, <3>3, <3>4, <3>5, <3>6, Zenon DEF IndInv
  <2> QED BY <2>4, <2>5
<1>12. CASE Shutdown
  <2>1. /\ UNCHANGED <<job, up, announce, boot, check, runFailures>>
        /\ up /\ ~ shutDown /\ shutDown'
    BY <1>12, Zenon DEF Shutdown, queueVars
  <2>2. ChecksCurrent' /\ ProcessDown' /\ OwnJobsLookedAfter'
    BY <2>1, Zenon DEF IndInv, ChecksCurrent, ProcessDown, OwnJobsLookedAfter
  <2>3. CASE stops = 0 /\ worker # NoWorker
    <3>1. OneWorker' /\ stops' = 1
      BY <1>12, <2>3, StopInv, Zenon DEF Shutdown, IndInv
    <3>2. IdleCheckPending'
      BY <3>1 DEF IdleCheckPending
    <3> QED BY <1>0, <2>1, <2>2, <3>1, <3>2, Zenon DEF IndInv
  <2>4. CASE ~ (stops = 0 /\ worker # NoWorker)
    <3>1. UNCHANGED <<worker, stops, wakeAfterStop, phase>>
      BY <1>12, <2>4, Zenon DEF Shutdown
    <3>2. OneWorker' /\ IdleCheckPending'
      BY <2>4, <3>1, Zenon DEF IndInv, OneWorker, Open, Fetching, IdleCheckPending
    <3> QED BY <1>0, <2>1, <2>2, <3>1, <3>2, Zenon DEF IndInv
  <2> QED BY <2>3, <2>4
<1>13. CASE Exit \/ Crash
  <2>1. Gone
    BY <1>13, Zenon DEF Exit, Crash
  <2>2. \A w \in Workers : phase'[w] = "closed"
    BY <2>1 DEF Gone
  <2>3. \A c \in CheckSlots : check'[c].worker = NoWorker /\ check'[c].count = "none"
    BY <2>1 DEF Gone, Idle
  <2>4. OneWorker'
    BY <2>1, <2>2 DEF Gone, OneWorker, Open, Fetching
  <2>5. ChecksCurrent' /\ ProcessDown' /\ OwnJobsLookedAfter' /\ IdleCheckPending'
    BY <2>1, <2>3, Zenon DEF Gone, ChecksCurrent, ProcessDown, OwnJobsLookedAfter,
                             IdleCheckPending
  <2>6. runFailures' = 0
    BY <2>1 DEF Gone, IndInv
  <2> QED BY <1>0, <2>4, <2>5, <2>6, Zenon DEF IndInv
<1>14. CASE Restart
  <2>1. /\ UNCHANGED <<worker, stops, idleTimer, wakeAfterStop, phase, shutDown,
                       check, runFailures>>
        /\ up' /\ boot' = "counting"
    BY <1>14, Zenon DEF Restart, lifeVars, boundVars
  <2>2. /\ OneWorker' /\ ChecksCurrent' /\ ProcessDown' /\ OwnJobsLookedAfter'
        /\ IdleCheckPending'
    BY <2>1, Zenon DEF IndInv, OneWorker, Open, Fetching, ChecksCurrent, ProcessDown,
                       OwnJobsLookedAfter, LookedAfter, IdleCheckPending
  <2> QED BY <1>0, <2>1, <2>2, Zenon DEF IndInv
<1>15. CASE UNCHANGED vars
  <2>1. Quiet
    BY <1>15, Zenon DEF vars, Quiet, Open, Fetching, Pending
  <2> QED BY <1>0, <2>1, QuietInv
<1> QED
  BY <1>1, <1>2, <1>3, <1>4, <1>5, <1>6, <1>7, <1>8, <1>9, <1>10, <1>11, <1>12,
     <1>13, <1>14, <1>15, Zenon DEF Next

\* The invariant holds when the process starts.
LEMMA InvInit == ASSUME MaxRunFailures = 0, Init PROVE IndInv
<1>1. TypeOK
  BY TypeInit
<1>2. OneWorker /\ ChecksCurrent /\ ProcessDown /\ OwnJobsLookedAfter
      /\ IdleCheckPending /\ runFailures = 0
  BY DEF Init, OneWorker, Open, Fetching, ChecksCurrent, Idle, ProcessDown,
         OwnJobsLookedAfter, IdleCheckPending
<1> QED BY <1>1, <1>2 DEF IndInv

\* README "manages one worker per queue".
THEOREM OneWorkerTheorem ==
    ASSUME MaxRunFailures = 0, \A c, d \in CheckSlots : c = d
    PROVE  Spec => []OneWorkerPerQueue
<1>1. Init => IndInv
  BY InvInit
<1>2. IndInv /\ [Next]_vars => IndInv'
  BY InvStep
<1>3. IndInv => OneWorkerPerQueue
  BY DEF IndInv, OneWorker, OneWorkerPerQueue
<1> QED BY <1>1, <1>2, <1>3, PTL DEF Spec

\* "Closed on shutdown": every worker is closed once shutdown() has returned,
\* whatever wake, boot check or idle check was in flight.
THEOREM ShutdownTheorem ==
    ASSUME MaxRunFailures = 0, \A c, d \in CheckSlots : c = d
    PROVE  Spec => []ShutdownLeavesNoWorker
<1>1. Init => IndInv
  BY InvInit
<1>2. IndInv /\ [Next]_vars => IndInv'
  BY InvStep
<1>3. IndInv => ShutdownLeavesNoWorker
  BY ConstantsAssumption DEF IndInv, OneWorker, ShutdownLeavesNoWorker
<1> QED BY <1>1, <1>2, <1>3, PTL DEF Spec

\* No job this process enqueued is left without a worker to come, however its
\* arrival interleaves with a count under way, a close or a restart.
THEOREM NoStrandedJobTheorem ==
    ASSUME MaxRunFailures = 0, \A c, d \in CheckSlots : c = d
    PROVE  Spec => [](NoStrandedJob /\ IdleCheckPending)
<1>1. Init => IndInv
  BY InvInit
<1>2. IndInv /\ [Next]_vars => IndInv'
  BY InvStep
<1>3. IndInv => NoStrandedJob /\ IdleCheckPending
  BY DEF IndInv, OwnJobsLookedAfter, LookedAfter, NoStrandedJob
<1> QED BY <1>1, <1>2, <1>3, PTL DEF Spec

-----------------------------------------------------------------------------
(* The worker that wake() finds, whatever run() rejects and checks overlap.  *)

\* start() leaves a running worker in this.worker, stop() one that is closing.
LEMMA StartStopLive ==
    ASSUME TypeOK
    PROVE  /\ Start => WakeFindsLiveWorker'
           /\ \A w \in Workers : Stop(w) => WakeFindsLiveWorker'
<1>1. ASSUME Start PROVE WakeFindsLiveWorker'
  <2>1. PICK w \in Workers : worker' = w /\ phase' = [phase EXCEPT ![w] = "running"]
    BY <1>1 DEF Start, Free
  <2>2. phase'[w] = "running"
    BY <2>1 DEF TypeOK
  <2> QED BY <2>1, <2>2 DEF WakeFindsLiveWorker, Fetching
<1>2. ASSUME NEW w \in Workers, Stop(w) PROVE WakeFindsLiveWorker'
  <2>1. stops \in Nat /\ stops' = stops + 1
    BY <1>2 DEF TypeOK, Stop
  <2>2. stops' # 0
    BY <2>1
  <2> QED BY <2>2 DEF WakeFindsLiveWorker
<1> QED BY <1>1, <1>2

\* No step leaves a failed or closed worker in this.worker, unless it is being stopped.
LEMMA LiveStep ==
    ASSUME TypeOK, WakeFindsLiveWorker, [Next]_vars
    PROVE  WakeFindsLiveWorker'
<1>1. UNCHANGED <<worker, stops, phase>> => WakeFindsLiveWorker'
  BY DEF WakeFindsLiveWorker, Fetching
<1>2. Wake => WakeFindsLiveWorker'
  BY <1>1, StartStopLive DEF Wake, lifeVars
<1>3. ASSUME NEW j \in Jobs, Add(j) \/ AddElsewhere(j) \/ Announce(j) \/ Settle(j)
      PROVE  WakeFindsLiveWorker'
  BY <1>1, <1>2, <1>3 DEF Add, AddElsewhere, Announce, Settle, lifeVars
<1>4. ASSUME BootCount \/ BootCountFails \/ BootResume PROVE WakeFindsLiveWorker'
  BY <1>1, <1>2, <1>4 DEF BootCount, BootCountFails, BootResume, lifeVars
<1>5. ASSUME NEW c \in CheckSlots,
             IdleTimerFires(c) \/ CheckCount(c) \/ CheckCountFails(c) \/ CheckResume(c)
      PROVE  WakeFindsLiveWorker'
  <2>1. ASSUME Stop(worker), worker \notin Workers PROVE WakeFindsLiveWorker'
    <3>1. worker' = NoWorker
      BY <2>1 DEF Stop, TypeOK
    <3> QED BY <3>1 DEF WakeFindsLiveWorker
  <2>2. ActOnCount(c) => WakeFindsLiveWorker'
    BY <1>1, <2>1, StartStopLive DEF ActOnCount, lifeVars
  <2> QED BY <1>1, <1>5, <2>2 DEF IdleTimerFires, CheckCount, CheckCountFails, CheckResume, lifeVars
<1>6. ASSUME CloseSettles PROVE WakeFindsLiveWorker'
  <2>1. CASE wakeAfterStop /\ ~ shutDown
    <3>1. PICK w \in Workers : /\ worker' = IF stops = 1 THEN w ELSE NoWorker
                               /\ phase' = [phase EXCEPT ![worker] = "closed", ![w] = "running"]
      BY <1>6, <2>1 DEF CloseSettles, Free
    <3>2. phase'[w] = "running"
      BY <3>1 DEF TypeOK
    <3> QED BY <3>1, <3>2 DEF WakeFindsLiveWorker, Fetching
  <2>2. CASE ~ (wakeAfterStop /\ ~ shutDown)
    BY <1>6, <2>2 DEF CloseSettles, WakeFindsLiveWorker
  <2> QED BY <2>1, <2>2
<1>7. ASSUME Shutdown PROVE WakeFindsLiveWorker'
  <2>1. worker # NoWorker => worker \in Workers
    BY DEF TypeOK
  <2> QED BY <1>1, <1>7, <2>1, StartStopLive DEF Shutdown
<1>8. ASSUME Exit \/ Crash \/ Restart PROVE WakeFindsLiveWorker'
  <2>1. Gone => WakeFindsLiveWorker'
    BY DEF Gone, WakeFindsLiveWorker
  <2> QED BY <1>1, <1>8, <2>1 DEF Exit, Crash, Restart, lifeVars
<1>9. ASSUME NEW w \in Workers, Drained(w) \/ \E j \in Jobs : Take(w, j) \/ Promote(w, j) \/ RecoverStalled(w, j)
      PROVE  WakeFindsLiveWorker'
  <2>1. UNCHANGED <<worker, stops>> /\ \A v \in Workers : Fetching(v) => Fetching(v)'
    BY <1>9 DEF Drained, Take, Promote, RecoverStalled, lifeVars, Fetching, TypeOK
  <2>2. worker # NoWorker => worker \in Workers
    BY DEF TypeOK
  <2> QED BY <2>1, <2>2 DEF WakeFindsLiveWorker
<1>10. ASSUME NEW w \in Workers, RunRejects(w) PROVE WakeFindsLiveWorker'
  <2>1. CASE worker = w /\ stops = 0
    BY <1>10, <2>1, StartStopLive DEF RunRejects
  <2>2. CASE ~ (worker = w /\ stops = 0)
    BY <1>10, <2>2 DEF RunRejects, WakeFindsLiveWorker, Fetching, TypeOK
  <2> QED BY <2>1, <2>2
<1>11. ASSUME UNCHANGED vars PROVE WakeFindsLiveWorker'
  BY <1>1, <1>11 DEF vars
<1> QED BY <1>3, <1>4, <1>5, <1>6, <1>7, <1>8, <1>9, <1>10, <1>11 DEF Next

\* The catch handler of run() stops the worker that failed, so that wake() never
\* trusts one that takes no job: for any failures and overlapping idle checks.
THEOREM WakeTheorem == Spec => []WakeFindsLiveWorker
<1>1. Init => WakeFindsLiveWorker
  BY DEF Init, WakeFindsLiveWorker
<1>2. TypeOK /\ WakeFindsLiveWorker /\ [Next]_vars => WakeFindsLiveWorker'
  BY LiveStep
<1> QED BY <1>1, <1>2, TypeCorrect, PTL DEF Spec

-----------------------------------------------------------------------------
(* No worker is closed over work, under the same assumptions.               *)

\* A count of an empty queue is acted on only if every job of this process that
\* is pending by then has its event to come: an event that came re-armed the
\* idle check.
FreshCounts ==
    ~ shutDown => \A j \in OwnJobs, c \in CheckSlots :
        Pending(j) /\ j \notin announce /\ check[c].count = "empty" => idleTimer

\* Every step keeps it: a job is counted or its event is still to come, and that
\* event's wake() re-arms the check.
LEMMA FreshStep ==
    ASSUME MaxRunFailures = 0, \A c, d \in CheckSlots : c = d,
           IndInv, FreshCounts, [Next]_vars
    PROVE  FreshCounts'
<1>1. ASSUME UNCHANGED <<check, shutDown>>, idleTimer => idleTimer',
             \A j \in OwnJobs : Pending(j)' /\ j \notin announce' => Pending(j) /\ j \notin announce
      PROVE  FreshCounts'
  BY <1>1, Zenon DEF FreshCounts
<1>2. ASSUME \A c \in CheckSlots : check'[c].count # "empty" PROVE FreshCounts'
  BY <1>2, Zenon DEF FreshCounts
<1>3. TypeOK /\ OneWorker /\ ChecksCurrent /\ check \in [CheckSlots -> CheckStates]
  BY DEF IndInv, TypeOK
<1>4. ASSUME NEW j \in Jobs, Add(j) \/ AddElsewhere(j) \/ Settle(j) PROVE FreshCounts'
  <2>1. UNCHANGED <<check, shutDown, idleTimer>>
    BY <1>4 DEF Add, AddElsewhere, Settle, lifeVars
  <2>2. \A k \in OwnJobs : Pending(k)' /\ k \notin announce' => Pending(k) /\ k \notin announce
    BY <1>3, <1>4 DEF Add, AddElsewhere, Settle, Pending, PendingStates, OwnJobs, TypeOK, JobStates
  <2> QED BY <1>1, <2>1, <2>2
<1>5. ASSUME NEW w \in Workers,
             Drained(w) \/ \E j \in Jobs : Take(w, j) \/ Promote(w, j) \/ RecoverStalled(w, j)
      PROVE  FreshCounts'
  <2>1. UNCHANGED <<check, shutDown, announce>> /\ (idleTimer => idleTimer')
    <3>1. CASE Drained(w)
      BY <3>1, Zenon DEF Drained
    <3>2. ASSUME NEW j \in Jobs, Take(w, j) \/ Promote(w, j) \/ RecoverStalled(w, j)
          PROVE  UNCHANGED <<check, shutDown, announce, idleTimer>>
      BY <3>2 DEF Take, Promote, RecoverStalled, lifeVars
    <3> QED BY <1>5, <3>1, <3>2
  <2>2. \A k \in OwnJobs : Pending(k)' => Pending(k)
    BY <1>3, <1>5
    DEF Drained, Take, Promote, RecoverStalled, Pending, PendingStates, OwnJobs, TypeOK, queueVars
  <2> QED BY <1>1, <2>1, <2>2
<1>6. ASSUME Wake, UNCHANGED <<check, shutDown>> PROVE FreshCounts'
  <2> SUFFICES ASSUME ~ shutDown, NEW c \in CheckSlots, check[c].count = "empty" PROVE idleTimer'
    BY <1>6, Zenon DEF FreshCounts
  <2>1. stops = 0 /\ worker # NoWorker
    BY <1>3 DEF ChecksCurrent
  <2>2. /\ worker # NoWorker => worker' = worker /\ stops' = stops
        /\ ~ shutDown => (stops' = 0 => idleTimer')
    BY <1>3, <1>6, WakeInv
  <2> QED BY <2>1, <2>2
<1>7. ASSUME NEW j \in Jobs, Announce(j) PROVE FreshCounts'
  BY <1>6, <1>7 DEF Announce
<1>8. ASSUME BootCount \/ BootCountFails \/ BootResume \/ Restart PROVE FreshCounts'
  <2>1. CASE BootResume /\ boot = "pending"
    BY <1>6, <2>1 DEF BootResume
  <2>2. CASE ~ (BootResume /\ boot = "pending")
    <3>1. UNCHANGED <<check, shutDown, idleTimer, announce, job>>
      BY <1>8, <2>2 DEF BootCount, BootCountFails, BootResume, Restart, lifeVars, queueVars
    <3> QED BY <1>1, <3>1 DEF Pending
  <2> QED BY <2>1, <2>2
<1>9. ASSUME NEW c \in CheckSlots, IdleTimerFires(c) PROVE FreshCounts'
  <2>1. \A d \in CheckSlots : check'[d].count # "empty"
    BY <1>3, <1>9 DEF IdleTimerFires, Idle
  <2> QED BY <1>2, <2>1
<1>10. ASSUME NEW c \in CheckSlots, CheckCount(c) PROVE FreshCounts'
  <2>1. CASE QueueEmpty
    <3>1. \A j \in OwnJobs : ~ Pending(j)'
      BY <1>10, <2>1 DEF CheckCount, QueueEmpty, Pending, OwnJobs, queueVars
    <3> QED BY <3>1, Zenon DEF FreshCounts
  <2>2. CASE ~ QueueEmpty
    <3>1. \A d \in CheckSlots : check'[d].count = "pending"
      BY <1>3, <1>10, <2>2 DEF CheckCount, Counted, CheckStates
    <3> QED BY <1>2, <3>1
  <2> QED BY <2>1, <2>2
<1>11. ASSUME NEW c \in CheckSlots, CheckCountFails(c) \/ CheckResume(c) PROVE FreshCounts'
  <2>1. \A d \in CheckSlots : check'[d].count \in {"pending", "none"}
    BY <1>3, <1>11 DEF CheckCountFails, CheckResume, CheckStates, Idle
  <2> QED BY <1>2, <2>1
<1>12. ASSUME CloseSettles PROVE FreshCounts'
  <2>1. stops # 0 /\ UNCHANGED <<check, shutDown>>
    BY <1>3, <1>12 DEF CloseSettles, TypeOK
  <2>2. ~ shutDown => \A c \in CheckSlots : check[c].count = "none"
    BY <1>3, <2>1 DEF ChecksCurrent
  <2> QED BY <2>1, <2>2, Zenon DEF FreshCounts
<1>13. ASSUME Shutdown PROVE FreshCounts'
  BY <1>13 DEF Shutdown, FreshCounts
<1>14. ASSUME Exit \/ Crash PROVE FreshCounts'
  <2>1. \A c \in CheckSlots : check'[c].count = "none"
    BY <1>14 DEF Exit, Crash, Gone, Idle
  <2> QED BY <1>2, <2>1
<1>15. ASSUME NEW w \in Workers, RunRejects(w) PROVE FreshCounts'
  BY <1>15 DEF RunRejects, IndInv
<1>16. ASSUME UNCHANGED vars PROVE FreshCounts'
  BY <1>1, <1>16 DEF vars, Pending
<1> QED BY <1>4, <1>5, <1>7, <1>8, <1>9, <1>10, <1>11, <1>12, <1>13, <1>14, <1>15, <1>16 DEF Next

\* README "delayed jobs keep it running until they are processed": unless the
\* process goes down, a worker is stopped only when every job of this process in
\* the queue still has its own event, and so a restart, to come.
THEOREM CloseTheorem ==
    ASSUME MaxRunFailures = 0, \A c, d \in CheckSlots : c = d
    PROVE  Spec => NoCloseOverWork
<1> DEFINE Empty == stops' > stops /\ ~ shutDown' =>
                       \A j \in OwnJobs : Pending(j) => j \in announce
<1>1. Init => IndInv /\ FreshCounts
  <2>1. Init => FreshCounts
    BY DEF Init, FreshCounts, Idle
  <2> QED BY <2>1, InvInit
<1>2. IndInv /\ FreshCounts /\ [Next]_vars => (IndInv /\ FreshCounts)'
  BY InvStep, FreshStep
<1>3. IndInv /\ FreshCounts /\ [Next]_vars => Empty
  <2> SUFFICES ASSUME IndInv, FreshCounts, [Next]_vars, stops' > stops, ~ shutDown',
                      NEW j \in OwnJobs, Pending(j)
               PROVE  j \in announce
    OBVIOUS
  <2>1. stops \in Nat /\ runFailures = 0
    BY DEF IndInv, TypeOK
  <2>2. stops' # stops /\ ~ (stops' = 0)
    BY <2>1
  <2>3. \E c \in CheckSlots : CheckResume(c)
    BY <2>1, <2>2
    DEF Next, vars, Add, AddElsewhere, Announce, Settle, BootCount, BootCountFails, BootResume,
        Wake, Start, IdleTimerFires, CheckCount, CheckCountFails, CloseSettles, Shutdown, Exit,
        Crash, Gone, Restart, Drained, RunRejects, Take, Promote, RecoverStalled, lifeVars
  <2>4. PICK c \in CheckSlots : CheckResume(c)
    BY <2>3
  <2>5. ~ idleTimer /\ ~ shutDown /\ check[c].count = "empty"
    BY <2>2, <2>4 DEF CheckResume, ActOnCount, Overtaken, lifeVars
  <2> QED BY <2>5 DEF FreshCounts
<1> QED BY <1>1, <1>2, <1>3, PTL DEF Spec, NoCloseOverWork, Empty

=============================================================================
