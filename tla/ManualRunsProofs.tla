-------------------------- MODULE ManualRunsProofs --------------------------
(***************************************************************************)
(* Proofs about NotificationDelivery for any jobs, members, webhooks,      *)
(* attempts and faults: the types, that a copy too many costs a fault, and *)
(* that a push whose announcements were all processed is counted in full.  *)
(* Then about ManualRuns, for any cases, requests and notifications: a     *)
(* manual run with its notifications is a NotificationDelivery, whose      *)
(* theorems it inherits; and a run is finished exactly when it should be,  *)
(* however the requests interleave.                                        *)
(***************************************************************************)
EXTENDS ManualRuns, TLAPS

-----------------------------------------------------------------------------
(* The delivery: types                                                     *)

\* A job that may still be processed has an attempt left.
AttemptLeft ==
    \A j \in Jobs : job[j] \notin {"completed", "failed", "lost"} => attempts[j] < MaxAttempts

TypeInv == NotificationTypeOK /\ AttemptLeft

\* What the worker holds is a job, under a key that is one of the keys.
LEMMA WorkingOn ==
    ASSUME TypeInv, work.step # "idle"
    PROVE  work.job \in Jobs /\ WorkKey \in Keys /\ job[work.job] = "active"
  BY NotificationAssumption DEF TypeInv, NotificationTypeOK, WorkType, WorkKey

LEMMA IdleType == Idle \in WorkType /\ Idle.step = "idle" /\ Idle.job = None /\ Idle.to = None
  BY NotificationAssumption DEF Idle, WorkType

LEMMA TypeInit == NotificationInit => TypeInv
  BY NotificationAssumption, IdleType
  DEF NotificationInit, TypeInv, NotificationTypeOK, AttemptLeft, JobStates, Keys, Jobs

\* Ending an attempt keeps the queue and the worker in their types.
LEMMA EndAttemptType ==
    ASSUME TypeInv, work.step # "idle", EndAttempt, UNCHANGED <<key, stalled>>
    PROVE  /\ job' \in [Jobs -> JobStates] /\ attempts' \in [Jobs -> 0 .. MaxAttempts]
           /\ work' = Idle
           /\ \A j \in Jobs : /\ job'[j] # "active"
                              /\ job'[j] = "failed" => attempts'[j] = MaxAttempts \/ j \in stalled'
           /\ AttemptLeft'
<1>1. work.job \in Jobs /\ job[work.job] = "active"
  BY WorkingOn
<1>2. attempts[work.job] < MaxAttempts
  BY <1>1 DEF TypeInv, AttemptLeft
<1>3. attempts[work.job] \in Nat /\ MaxAttempts \in Nat
  BY <1>1, NotificationAssumption DEF TypeInv, NotificationTypeOK
<1>4. AfterFailure(work.job) \in {"queued", "failed"}
      /\ (AfterFailure(work.job) = "queued" => attempts[work.job] + 1 < MaxAttempts)
      /\ (AfterFailure(work.job) = "failed" => attempts[work.job] + 1 = MaxAttempts)
  BY <1>2, <1>3 DEF AfterFailure
<1> QED
  BY <1>1, <1>2, <1>3, <1>4, NotificationAssumption
  DEF EndAttempt, Move, TypeInv, NotificationTypeOK, AttemptLeft, JobStates

LEMMA TypeStep == TypeInv /\ [NotificationNext]_notifyVars => TypeInv'
<1> SUFFICES ASSUME TypeInv, [NotificationNext]_notifyVars PROVE TypeInv'
  OBVIOUS
<1> USE NotificationAssumption
<1>1. ASSUME NEW j \in Jobs, Extract(j) \/ Announce(j) \/ AnnouncementLost(j) \/ TakeNothing(j)
      PROVE  TypeInv'
  <2>1. \E s \in {"committed", "queued", "lost", "completed"} : job' = [job EXCEPT ![j] = s]
        /\ job[j] \in {"extracting", "committed", "queued"}
    BY <1>1 DEF Extract, Announce, AnnouncementLost, TakeNothing, Move
  <2>2. waiting' \in Nat /\ faults' \in 0 .. MaxFaults
        /\ UNCHANGED <<key, attempts, stalled, work, deliverVars>>
    BY <1>1 DEF Extract, Announce, AnnouncementLost, TakeNothing, TypeInv, NotificationTypeOK
  <2> QED
    BY <2>1, <2>2 DEF TypeInv, NotificationTypeOK, AttemptLeft, JobStates, deliverVars
<1>2. CASE PublishEvent
  <2>1. PICK j \in RunJobs, k \in PlainKeys : Publish(j, k)
    BY <1>2 DEF PublishEvent
  <2>2. j \in Jobs /\ k \in Keys
    BY DEF Jobs, Keys
  <2>3. job' = [job EXCEPT ![j] = "queued"] /\ job[j] = "absent" /\ key' \in [Jobs -> Keys]
    BY <2>1, <2>2 DEF Publish, Move, TypeInv, NotificationTypeOK
  <2> QED
    BY <1>2, <2>2, <2>3 DEF PublishEvent, TypeInv, NotificationTypeOK, AttemptLeft, JobStates,
                            deliverVars
<1>3. CASE Decide \/ PublisherFails
  BY <1>3 DEF Decide, PublisherFails, TypeInv, NotificationTypeOK, AttemptLeft, queueVars, deliverVars
<1>4. ASSUME NEW j \in Jobs, Take(j) PROVE TypeInv'
  <2>1. CountOf(j) \in Nat
    BY DEF CountOf, TypeInv, NotificationTypeOK
  <2>2. work' \in WorkType /\ work'.step = "members" /\ work'.job = j /\ work'.to = None
    BY <1>4, <2>1 DEF Take, Idle, WorkType
  <2> QED
    BY <1>4, <2>2 DEF Take, Move, TypeInv, NotificationTypeOK, AttemptLeft, JobStates, deliverVars
<1>5. ASSUME NEW m \in Members, NotifyMember(m) PROVE TypeInv'
  <2>1. WorkKey \in Keys
    BY <1>5, WorkingOn DEF NotifyMember
  <2>2. Row(m) \in Nat
    BY <2>1 DEF Row, TypeInv, NotificationTypeOK, WorkType
  <2>3. inbox' \in [Members -> [Keys -> Nat]]
    BY <1>5, <2>1, <2>2 DEF NotifyMember, TypeInv, NotificationTypeOK
  <2>4. work' \in WorkType /\ work'.job = work.job /\ work'.step # "idle"
        /\ (work'.step \in {"send", "record"} <=> work'.to # None)
    BY <1>5 DEF NotifyMember, TypeInv, NotificationTypeOK, WorkType, Channels
  <2> QED
    BY <1>5, <2>3, <2>4 DEF NotifyMember, TypeInv, NotificationTypeOK, AttemptLeft, queueVars
<1>6. ASSUME NEW h \in Hooks, NotifyHook(h) PROVE TypeInv'
  <2>1. work' \in WorkType /\ work'.job = work.job /\ work'.step # "idle"
        /\ (work'.step \in {"send", "record"} <=> work'.to # None)
    BY <1>6 DEF NotifyHook, TypeInv, NotificationTypeOK, WorkType, Channels
  <2> QED
    BY <1>6, <2>1 DEF NotifyHook, TypeInv, NotificationTypeOK, AttemptLeft, queueVars, deliverVars
<1>7. CASE MembersDone
  BY <1>7 DEF MembersDone, TypeInv, NotificationTypeOK, WorkType, AttemptLeft, queueVars, deliverVars
<1>8. CASE Send
  <2>1. WorkKey \in Keys /\ work.to \in Channels
    BY <1>8, WorkingOn DEF Send, TypeInv, NotificationTypeOK, WorkType
  <2>2. copies' \in [Channels -> [Keys -> Nat]]
    BY <1>8, <2>1 DEF Send, TypeInv, NotificationTypeOK
  <2>3. work' \in WorkType /\ work'.job = work.job /\ work'.to = work.to /\ work'.step = "record"
    BY <1>8 DEF Send, TypeInv, NotificationTypeOK, WorkType
  <2> QED
    BY <1>8, <2>2, <2>3 DEF Send, TypeInv, NotificationTypeOK, AttemptLeft, queueVars
<1>9. ASSUME work.step \in {"send", "record"}, NextChannel,
             NEW s \in {"failed", "sent"}, delivery' = [delivery EXCEPT ![work.to][WorkKey] = s],
             UNCHANGED <<queueVars, waiting, inbox, copies>>, faults' \in 0 .. MaxFaults
      PROVE  TypeInv'
  <2>1. WorkKey \in Keys /\ work.to \in Channels
    BY <1>9, WorkingOn DEF TypeInv, NotificationTypeOK, WorkType
  <2>2. delivery' \in [Channels -> [Keys -> {"none", "failed", "sent"}]]
    BY <1>9, <2>1 DEF TypeInv, NotificationTypeOK
  <2>3. work' \in WorkType /\ work'.job = work.job /\ work'.to = None
        /\ work'.step \in {"members", "hooks"}
    BY <1>9 DEF NextChannel, TypeInv, NotificationTypeOK, WorkType
  <2> QED
    BY <1>9, <2>2, <2>3 DEF TypeInv, NotificationTypeOK, AttemptLeft, queueVars
<1>10. CASE Record
  BY <1>9, <1>10 DEF Record, TypeInv, NotificationTypeOK
<1>11. CASE HookFails
  BY <1>9, <1>11 DEF HookFails, TypeInv, NotificationTypeOK
<1>12. CASE Complete
  BY <1>12, IdleType, WorkingOn
  DEF Complete, Move, TypeInv, NotificationTypeOK, AttemptLeft, JobStates, deliverVars
<1>13. CASE MailFails
  <2>1. work.step # "idle" /\ EndAttempt /\ UNCHANGED <<key, stalled>>
    BY <1>13 DEF MailFails
  <2>2. WorkKey \in Keys /\ work.to \in Channels
    BY <1>13, WorkingOn DEF MailFails, TypeInv, NotificationTypeOK, WorkType
  <2>3. delivery' \in [Channels -> [Keys -> {"none", "failed", "sent"}]]
    BY <1>13, <2>2 DEF MailFails, TypeInv, NotificationTypeOK
  <2> QED
    BY <1>13, <2>1, <2>3, EndAttemptType, IdleType
    DEF MailFails, TypeInv, NotificationTypeOK
<1>14. CASE CallFails
  BY <1>14, EndAttemptType, IdleType
  DEF CallFails, TypeInv, NotificationTypeOK, deliverVars
<1>15. CASE Crash
  BY <1>15, IdleType, WorkingOn
  DEF Crash, Move, TypeInv, NotificationTypeOK, AttemptLeft, JobStates, deliverVars
<1>16. CASE UNCHANGED notifyVars
  BY <1>16 DEF notifyVars, TypeInv, NotificationTypeOK, AttemptLeft, queueVars, deliverVars
<1> QED
  BY <1>1, <1>2, <1>3, <1>4, <1>5, <1>6, <1>7, <1>8, <1>10, <1>11, <1>12, <1>13, <1>14, <1>15, <1>16
  DEF NotificationNext, WorkerStep, NotificationFault, PushStep

-----------------------------------------------------------------------------
(* Copies                                                                  *)

\* The message the worker has sent and not recorded yet.
InHand(c, k) == work.step = "record" /\ work.to = c /\ WorkKey = k

\* Every copy but one was paid for by a fault, and the first one is recorded or
\* in hand; what the worker is about to send was not.
CopyInv ==
    /\ \A c \in Channels, k \in Keys :
          copies[c][k] <= faults + (IF delivery[c][k] = "sent" \/ InHand(c, k) THEN 1 ELSE 0)
    /\ work.step \in {"send", "record"} => delivery[work.to][WorkKey] # "sent"

\* Steps that send and record nothing, and leave no message in hand.
LEMMA CopyQuiet ==
    ASSUME TypeInv, CopyInv, TypeInv', copies' = copies,
           \A c \in Channels, k \in Keys : delivery[c][k] = "sent" => delivery'[c][k] = "sent",
           (work.step # "record" /\ faults' = faults) \/ faults' = faults + 1,
           work'.step \notin {"send", "record"}
    PROVE  CopyInv'
<1> SUFFICES ASSUME NEW c \in Channels, NEW k \in Keys
             PROVE  copies[c][k] <= faults' + (IF delivery'[c][k] = "sent" THEN 1 ELSE 0)
  BY DEF CopyInv, InHand
<1>1. copies[c][k] \in Nat /\ faults \in Nat /\ faults' \in Nat
  BY DEF TypeInv, NotificationTypeOK
<1>2. copies[c][k] <= faults + (IF delivery[c][k] = "sent" \/ InHand(c, k) THEN 1 ELSE 0)
  BY DEF CopyInv
<1>3. CASE faults' = faults + 1
  BY <1>1, <1>2, <1>3
<1>4. CASE work.step # "record" /\ faults' = faults
  BY <1>1, <1>2, <1>4 DEF InHand
<1> QED BY <1>3, <1>4

\* The channel and the key the worker is at.
LEMMA SendingTo ==
    ASSUME TypeInv, work.step \in {"send", "record"}
    PROVE  work.to \in Channels /\ WorkKey \in Keys
  BY WorkingOn DEF TypeInv, NotificationTypeOK, WorkType

LEMMA CopyStep == TypeInv /\ TypeInv' /\ CopyInv /\ [NotificationNext]_notifyVars => CopyInv'
<1> SUFFICES ASSUME TypeInv, TypeInv', CopyInv, [NotificationNext]_notifyVars PROVE CopyInv'
  OBVIOUS
<1>1. ASSUME UNCHANGED <<work, delivery, copies>>, work.step # "idle" => WorkKey' = WorkKey,
             faults' = faults \/ faults' = faults + 1
      PROVE  CopyInv'
  <2>1. ASSUME NEW c \in Channels, NEW k \in Keys
        PROVE  copies'[c][k] <= faults' + (IF delivery'[c][k] = "sent" \/ InHand(c, k)' THEN 1 ELSE 0)
    <3>1. copies[c][k] \in Nat /\ faults \in Nat
      BY <2>1 DEF TypeInv, NotificationTypeOK
    <3>2. InHand(c, k)' <=> InHand(c, k)
      BY <1>1 DEF InHand
    <3>3. copies[c][k] <= faults + (IF delivery[c][k] = "sent" \/ InHand(c, k) THEN 1 ELSE 0)
      BY DEF CopyInv
    <3> QED BY <1>1, <3>1, <3>2, <3>3
  <2>2. work'.step \in {"send", "record"} => delivery'[work'.to][WorkKey'] # "sent"
    BY <1>1 DEF CopyInv
  <2> QED BY <2>1, <2>2 DEF CopyInv
<1>2. ASSUME NEW j \in Jobs, Extract(j) \/ Announce(j) \/ AnnouncementLost(j) \/ TakeNothing(j)
      PROVE  CopyInv'
  BY <1>1, <1>2 DEF Extract, Announce, AnnouncementLost, TakeNothing, deliverVars, WorkKey
<1>3. CASE PublishEvent
  <2>1. PICK j \in Jobs, k \in PlainKeys : Publish(j, k)
    BY <1>3 DEF PublishEvent, Jobs
  <2>2. work.step # "idle" => WorkKey' = WorkKey
    BY <1>3, <2>1, WorkingOn DEF PublishEvent, Publish, WorkKey, TypeInv, NotificationTypeOK
  <2> QED BY <1>1, <1>3, <2>2 DEF PublishEvent, deliverVars
<1>4. CASE Decide \/ PublisherFails \/ UNCHANGED notifyVars
  BY <1>1, <1>4 DEF Decide, PublisherFails, notifyVars, queueVars, deliverVars, WorkKey
<1>5. ASSUME NEW j \in Jobs, Take(j) PROVE CopyInv'
  BY <1>5, CopyQuiet DEF Take, Idle, deliverVars
<1>6. CASE MembersDone
  BY <1>6, CopyQuiet DEF MembersDone, deliverVars, TypeInv, NotificationTypeOK, WorkType
<1>7. CASE Complete
  BY <1>7, CopyQuiet, IdleType DEF Complete, deliverVars
<1>8. CASE CallFails \/ Crash
  BY <1>8, CopyQuiet, IdleType DEF CallFails, Crash, EndAttempt, deliverVars
<1>9. ASSUME NEW c \in Channels, work.step \notin {"send", "record"}, ToSend(c),
             work'.step = "send", work'.to = c, WorkKey' = WorkKey,
             UNCHANGED <<delivery, copies, faults>>
      PROVE  CopyInv'
  BY <1>9 DEF CopyInv, InHand, ToSend
<1>10. ASSUME NEW m \in Members, NotifyMember(m) PROVE CopyInv'
  <2>1. CASE m \in Mailed /\ ToSend(m)
    BY <1>9, <1>10, <2>1 DEF NotifyMember, Channels, queueVars, WorkKey, TypeInv,
                             NotificationTypeOK, WorkType
  <2>2. CASE ~ (m \in Mailed /\ ToSend(m))
    BY <1>10, <2>2, CopyQuiet DEF NotifyMember, TypeInv, NotificationTypeOK, WorkType
  <2> QED BY <2>1, <2>2
<1>11. ASSUME NEW h \in Hooks, NotifyHook(h) PROVE CopyInv'
  <2>1. CASE ToSend(h)
    BY <1>9, <1>11, <2>1 DEF NotifyHook, Channels, queueVars, deliverVars, WorkKey, TypeInv,
                             NotificationTypeOK, WorkType
  <2>2. CASE ~ ToSend(h)
    BY <1>11, <2>2, CopyQuiet DEF NotifyHook, deliverVars, TypeInv, NotificationTypeOK, WorkType
  <2> QED BY <2>1, <2>2
<1>12. CASE Send
  <2>1. work.step = "send" /\ work'.step = "record" /\ work'.to = work.to /\ WorkKey' = WorkKey
        /\ UNCHANGED <<delivery, faults>>
    BY <1>12 DEF Send, WorkKey, queueVars, TypeInv, NotificationTypeOK, WorkType
  <2>2. work.to \in Channels /\ WorkKey \in Keys
    BY <2>1, SendingTo
  <2>3. ASSUME NEW c \in Channels, NEW k \in Keys
        PROVE  copies'[c][k] <= faults' + (IF delivery'[c][k] = "sent" \/ InHand(c, k)' THEN 1 ELSE 0)
    <3>1. copies[c][k] \in Nat /\ faults \in Nat
      BY <2>3 DEF TypeInv, NotificationTypeOK
    <3>2. copies[c][k] <= faults + (IF delivery[c][k] = "sent" THEN 1 ELSE 0)
      BY <2>1 DEF CopyInv, InHand
    <3>3. CASE c = work.to /\ k = WorkKey
      <4>1. copies'[c][k] = copies[c][k] + 1
        BY <1>12, <2>2, <3>3 DEF Send, TypeInv, NotificationTypeOK
      <4>2. InHand(c, k)' /\ delivery[c][k] # "sent"
        BY <2>1, <3>3 DEF InHand, CopyInv
      <4> QED BY <2>1, <3>1, <3>2, <4>1, <4>2
    <3>4. CASE ~ (c = work.to /\ k = WorkKey)
      <4>1. copies'[c][k] = copies[c][k] /\ ~ InHand(c, k)'
        BY <1>12, <2>1, <2>2, <3>4 DEF Send, InHand, TypeInv, NotificationTypeOK
      <4> QED BY <2>1, <3>1, <3>2, <4>1
    <3> QED BY <3>3, <3>4
  <2> QED BY <2>1, <2>3 DEF CopyInv
<1>13. CASE Record
  <2>1. work.to \in Channels /\ WorkKey \in Keys /\ work.step = "record"
        /\ work'.step \notin {"send", "record"} /\ UNCHANGED <<copies, faults>>
    BY <1>13, SendingTo DEF Record, NextChannel, TypeInv, NotificationTypeOK, WorkType
  <2>2. ASSUME NEW c \in Channels, NEW k \in Keys
        PROVE  copies'[c][k] <= faults' + (IF delivery'[c][k] = "sent" \/ InHand(c, k)' THEN 1 ELSE 0)
    <3>1. copies[c][k] \in Nat /\ faults \in Nat
      BY <2>2 DEF TypeInv, NotificationTypeOK
    <3>2. copies[c][k] <= faults + (IF delivery[c][k] = "sent" \/ InHand(c, k) THEN 1 ELSE 0)
      BY DEF CopyInv
    <3>3. delivery[c][k] = "sent" \/ InHand(c, k) => delivery'[c][k] = "sent"
      BY <1>13, <2>1 DEF Record, InHand, TypeInv, NotificationTypeOK
    <3> QED BY <2>1, <3>1, <3>2, <3>3 DEF InHand
  <2> QED BY <2>1, <2>2 DEF CopyInv
<1>14. CASE HookFails \/ MailFails
  <2>1. work.to \in Channels /\ WorkKey \in Keys /\ work.step = "send"
        /\ work'.step \notin {"send", "record"} /\ copies' = copies /\ faults' = faults + 1
    BY <1>14, SendingTo, IdleType
    DEF HookFails, MailFails, NextChannel, EndAttempt, TypeInv, NotificationTypeOK, WorkType
  <2>2. delivery[work.to][WorkKey] # "sent"
    BY <2>1 DEF CopyInv
  <2>3. delivery' = [delivery EXCEPT ![work.to][WorkKey] = "failed"]
    BY <1>14 DEF HookFails, MailFails
  <2>4. \A c \in Channels, k \in Keys : delivery[c][k] = "sent" => delivery'[c][k] = "sent"
    BY <2>1, <2>2, <2>3 DEF TypeInv, NotificationTypeOK
  <2> QED BY <2>1, <2>4, CopyQuiet
<1> QED
  BY <1>2, <1>3, <1>4, <1>5, <1>6, <1>7, <1>8, <1>10, <1>11, <1>12, <1>13, <1>14
  DEF NotificationNext, WorkerStep, NotificationFault, PushStep

-----------------------------------------------------------------------------
(* The count of a push                                                     *)

\* Every announcement of the push was processed, or is in the worker's hands.
Announced == \A j \in PushJobs : job[j] \in {"absent", "completed", "active"}

\* The keys tell the announcements of the push from other jobs, and the members
\* come before the webhooks.
Apart ==
    /\ \A j \in PushJobs : key[j] = PushKey
    /\ \A j \in RunJobs : job[j] # "extracting" /\ (job[j] # "absent" => key[j] # PushKey)
    /\ work.step = "hooks" \/ work.to \in Hooks => work.members = {}

\* Then an inbox shows at least what still waits, or is about to: the worker read
\* its count after the last extraction.
CountsAll ==
    /\ \A m \in Members : inbox[m][PushKey] >= waiting \/ (work.job \in PushJobs /\ m \in work.members)
    /\ work.job \in PushJobs => work.count >= waiting

CountInv == Announced => CountsAll

LEMMA ApartStep == TypeInv /\ Apart /\ [NotificationNext]_notifyVars => Apart'
<1> SUFFICES ASSUME TypeInv, Apart, [NotificationNext]_notifyVars PROVE Apart'
  OBVIOUS
<1> USE NotificationAssumption DEF TypeInv, NotificationTypeOK, WorkType, Apart
<1>1. ASSUME NEW j \in Jobs, Extract(j) \/ Announce(j) \/ AnnouncementLost(j) \/ TakeNothing(j)
      PROVE  Apart'
  <2>1. \E s \in {"committed", "queued", "lost", "completed"} : job' = [job EXCEPT ![j] = s]
        /\ job[j] # "absent"
    BY <1>1 DEF Extract, Announce, AnnouncementLost, TakeNothing, Move
  <2>2. UNCHANGED <<key, work>>
    BY <1>1 DEF Extract, Announce, AnnouncementLost, TakeNothing
  <2> QED BY <2>1, <2>2 DEF Jobs
<1>2. CASE PublishEvent
  BY <1>2 DEF PublishEvent, Publish, Move, Jobs
<1>3. ASSUME NEW j \in Jobs, Take(j) PROVE Apart'
  <2>1. work'.step = "members" /\ work'.to = None /\ job' = [job EXCEPT ![j] = "active"]
        /\ job[j] = "queued" /\ key' = key
    BY <1>3 DEF Take, Move, Idle
  <2> QED BY <2>1 DEF Jobs, Channels
<1>4. ASSUME NEW m \in Members, NotifyMember(m) PROVE Apart'
  BY <1>4 DEF NotifyMember, queueVars
<1>5. ASSUME NEW h \in Hooks, NotifyHook(h) PROVE Apart'
  BY <1>5 DEF NotifyHook, queueVars
<1>6. CASE MembersDone \/ Send
  BY <1>6 DEF MembersDone, Send, queueVars
<1>7. CASE Record \/ HookFails
  <2>1. UNCHANGED queueVars /\ NextChannel /\ work.to # None
    BY <1>7 DEF Record, HookFails
  <2>2. work.to \in Mailed \/ work.to \in Hooks
    BY <2>1 DEF Channels
  <2>3. work'.step \in {"members", "hooks"} /\ work'.to = None /\ work'.members = work.members
        /\ (work'.step = "hooks" => work.to \in Hooks)
    BY <2>1, <2>2 DEF NextChannel
  <2> QED BY <2>1, <2>3 DEF queueVars, Channels
<1>8. CASE Complete \/ MailFails \/ CallFails \/ Crash
  <2>1. work' = Idle /\ key' = key
    BY <1>8 DEF Complete, MailFails, CallFails, Crash, EndAttempt
  <2>2. \E s \in {"completed", "queued", "failed"} : job' = [job EXCEPT ![work.job] = s]
    BY <1>8 DEF Complete, MailFails, CallFails, Crash, EndAttempt, Move, AfterFailure
  <2>3. job[work.job] = "active"
    BY <1>8, WorkingOn DEF Complete, MailFails, CallFails, Crash
  <2> QED BY <2>1, <2>2, <2>3, IdleType DEF Jobs, Channels, Idle
<1>9. CASE Decide \/ PublisherFails \/ UNCHANGED notifyVars
  BY <1>9 DEF Decide, PublisherFails, notifyVars, queueVars
<1> QED
  BY <1>1, <1>2, <1>3, <1>4, <1>5, <1>6, <1>7, <1>8, <1>9
  DEF NotificationNext, WorkerStep, NotificationFault, PushStep

LEMMA CountStep ==
    TypeInv /\ TypeInv' /\ Apart /\ CountInv /\ [NotificationNext]_notifyVars => CountInv'
<1> SUFFICES ASSUME TypeInv, TypeInv', Apart, CountInv, [NotificationNext]_notifyVars, Announced'
             PROVE  CountsAll'
  BY DEF CountInv
<1>0. /\ PushKey \in Keys /\ None \notin PushJobs /\ waiting \in Nat /\ waiting' \in Nat
      /\ \A m \in Members : inbox[m][PushKey] \in Nat /\ inbox'[m][PushKey] \in Nat
      /\ work.count \in Nat /\ work'.count \in Nat
  BY NotificationAssumption DEF TypeInv, NotificationTypeOK, WorkType, Keys, Jobs
<1>1. ASSUME inbox' = inbox, waiting' = waiting, Announced, work.job \notin PushJobs,
             work'.job \notin PushJobs
      PROVE  CountsAll'
  BY <1>1 DEF CountInv, CountsAll
<1>2. ASSUME inbox' = inbox, waiting' = waiting, Announced,
             work'.job = work.job, work'.count = work.count, work'.members = work.members
      PROVE  CountsAll'
  BY <1>2 DEF CountInv, CountsAll
<1>3. ASSUME NEW j \in Jobs, Extract(j) \/ Announce(j) \/ AnnouncementLost(j) PROVE CountsAll'
  <2>1. j \in PushJobs /\ job'[j] \in {"committed", "queued", "lost"}
    BY <1>3 DEF Extract, Announce, AnnouncementLost, Move, Jobs, Apart, TypeInv, NotificationTypeOK
  <2> QED BY <2>1 DEF Announced
<1>4. ASSUME NEW j \in Jobs, TakeNothing(j) PROVE CountsAll'
  <2>1. work.job = None /\ work' = work /\ inbox' = inbox /\ waiting' = waiting
    BY <1>4 DEF TakeNothing, deliverVars, TypeInv, NotificationTypeOK
  <2>2. waiting = 0
    BY <1>4 DEF TakeNothing, CountOf
  <2> QED BY <2>1, <2>2, <1>0 DEF CountsAll
<1>5. CASE PublishEvent
  <2>1. PICK j \in RunJobs, k \in PlainKeys : Publish(j, k)
    BY <1>5 DEF PublishEvent
  <2>2. Announced
    BY <2>1, NotificationAssumption
    DEF Publish, Move, Announced, Jobs, TypeInv, NotificationTypeOK
  <2> QED BY <1>2, <1>5, <2>2 DEF PublishEvent, deliverVars
<1>6. CASE Decide
  <2>1. Announced
    BY <1>6 DEF Decide, queueVars, Announced
  <2>2. inbox' = inbox /\ work' = work /\ waiting' = waiting - 1
    BY <1>6 DEF Decide, deliverVars
  <2> QED BY <2>1, <2>2, <1>0 DEF CountInv, CountsAll
<1>7. ASSUME NEW j \in Jobs, Take(j) PROVE CountsAll'
  <2>1. work.job = None /\ work'.job = j /\ work'.members = Members /\ work'.count = CountOf(j)
        /\ inbox' = inbox /\ waiting' = waiting
    BY <1>7 DEF Take, Idle, deliverVars, TypeInv, NotificationTypeOK
  <2>2. CASE j \in PushJobs
    BY <2>1, <2>2, <1>0 DEF CountOf, Apart, CountsAll
  <2>3. CASE j \notin PushJobs
    <3>1. Announced
      BY <1>7, <2>3 DEF Take, Move, Announced, Jobs, TypeInv, NotificationTypeOK
    <3> QED BY <1>1, <2>1, <2>3, <3>1, <1>0
  <2> QED BY <2>2, <2>3
<1>8. ASSUME NEW m \in Members, NotifyMember(m) PROVE CountsAll'
  <2>1. Announced /\ waiting' = waiting /\ work.job \in Jobs /\ work.step = "members"
    BY <1>8, WorkingOn DEF NotifyMember, queueVars, Announced
  <2>2. work'.job = work.job /\ work'.count = work.count /\ work'.members = work.members \ {m}
    BY <1>8 DEF NotifyMember, TypeInv, NotificationTypeOK, WorkType
  <2>3. inbox' = [inbox EXCEPT ![m][WorkKey] = Row(m)] /\ WorkKey \in Keys
    BY <1>8, <2>1, WorkingOn DEF NotifyMember
  <2>4. CASE work.job \in PushJobs
    <3>1. WorkKey = PushKey /\ Row(m) = work.count
      BY <2>4 DEF WorkKey, Row, Apart
    <3>2. inbox'[m][PushKey] = work.count
          /\ \A n \in Members \ {m} : inbox'[n][PushKey] = inbox[n][PushKey]
      BY <2>3, <3>1, <1>0 DEF TypeInv, NotificationTypeOK
    <3> QED BY <2>1, <2>2, <2>4, <3>2, <1>0 DEF CountInv, CountsAll
  <2>5. CASE work.job \notin PushJobs
    <3>1. WorkKey # PushKey
      BY <1>8, <2>1, <2>5, WorkingOn DEF NotifyMember, WorkKey, Apart, Jobs
    <3>2. \A n \in Members : inbox'[n][PushKey] = inbox[n][PushKey]
      BY <2>3, <3>1, <1>0 DEF TypeInv, NotificationTypeOK
    <3> QED BY <2>1, <2>2, <2>5, <3>2 DEF CountInv, CountsAll
  <2> QED BY <2>4, <2>5
<1>9. ASSUME NEW h \in Hooks, NotifyHook(h) PROVE CountsAll'
  <2>1. work'.job = work.job /\ work'.count = work.count /\ work'.members = work.members
    BY <1>9 DEF NotifyHook, TypeInv, NotificationTypeOK, WorkType
  <2> QED BY <1>2, <1>9, <2>1 DEF NotifyHook, queueVars, deliverVars, Announced
<1>10. CASE MembersDone \/ Send \/ Record \/ HookFails
  <2>1. work'.job = work.job /\ work'.count = work.count /\ work'.members = work.members
    <3>1. CASE MembersDone \/ Send
      BY <3>1 DEF MembersDone, Send, TypeInv, NotificationTypeOK, WorkType
    <3>2. CASE NextChannel
      BY <3>2 DEF NextChannel, TypeInv, NotificationTypeOK, WorkType
    <3> QED BY <1>10, <3>1, <3>2 DEF Record, HookFails
  <2>2. inbox' = inbox /\ waiting' = waiting /\ Announced
    BY <1>10 DEF MembersDone, Send, Record, HookFails, queueVars, deliverVars, Announced
  <2> QED BY <1>2, <2>1, <2>2
<1>11. CASE Complete
  <2>1. work' = Idle /\ inbox' = inbox /\ waiting' = waiting /\ work.members = {}
    BY <1>11 DEF Complete, deliverVars, Apart
  <2>2. Announced
    BY <1>11, WorkingOn DEF Complete, Move, Announced, Jobs, TypeInv, NotificationTypeOK
  <2> QED BY <2>1, <2>2, IdleType, <1>0 DEF CountInv, CountsAll
<1>12. CASE MailFails \/ CallFails \/ Crash
  <2>1. work' = Idle /\ inbox' = inbox /\ waiting' = waiting
    BY <1>12 DEF MailFails, CallFails, Crash, EndAttempt, deliverVars
  <2>2. job' = [job EXCEPT ![work.job] = job'[work.job]] /\ job'[work.job] \in {"queued", "failed"}
        /\ work.job \in Jobs
    BY <1>12, WorkingOn DEF MailFails, CallFails, Crash, EndAttempt, Move, AfterFailure,
                            TypeInv, NotificationTypeOK
  <2>3. work.job \notin PushJobs
    BY <2>2 DEF Announced
  <2>4. Announced
    BY <2>2, <2>3 DEF Announced, Jobs, TypeInv, NotificationTypeOK
  <2> QED BY <1>1, <2>1, <2>3, <2>4, IdleType, <1>0
<1>13. CASE PublisherFails \/ UNCHANGED notifyVars
  BY <1>2, <1>13 DEF PublisherFails, notifyVars, queueVars, deliverVars, Announced
<1> QED
  BY <1>3, <1>4, <1>5, <1>6, <1>7, <1>8, <1>9, <1>10, <1>11, <1>12, <1>13
  DEF NotificationNext, WorkerStep, NotificationFault, PushStep

-----------------------------------------------------------------------------
(* The delivery: theorems                                                 *)

\* The invariant the three theorems share.
IndInv == TypeInv /\ CopyInv /\ Apart /\ CountInv

LEMMA IndInvInit == NotificationInit => IndInv
<1> SUFFICES ASSUME NotificationInit PROVE IndInv
  OBVIOUS
<1>1. TypeInv
  BY TypeInit
<1>2. CopyInv
  BY <1>1, NotificationAssumption DEF NotificationInit, CopyInv, Idle, TypeInv, NotificationTypeOK
<1>3. Apart
  BY NotificationAssumption DEF NotificationInit, Apart, Idle, Jobs, Channels
<1>4. CountInv
  BY <1>1, NotificationAssumption
  DEF NotificationInit, CountInv, CountsAll, Idle, Jobs, Keys, TypeInv, NotificationTypeOK
<1> QED BY <1>1, <1>2, <1>3, <1>4 DEF IndInv

LEMMA IndInvStep == IndInv /\ [NotificationNext]_notifyVars => IndInv'
  BY TypeStep, CopyStep, ApartStep, CountStep DEF IndInv

LEMMA IndInvHolds == NotificationSpec => []IndInv
  BY IndInvInit, IndInvStep, PTL DEF NotificationSpec

\* Jobs, the worker and the rows it writes keep their types, and an active job is
\* the worker's, for any jobs, members, webhooks, attempts and faults.
THEOREM NotificationTypes == NotificationSpec => []NotificationTypeOK
<1>1. IndInv => NotificationTypeOK
  BY DEF IndInv, TypeInv
<1> QED BY <1>1, IndInvHolds, PTL

\* One copy of a message for a channel and a key, and one more for each fault at
\* most, however many jobs share the key (wasEmailSent, recordEmailDelivery).
THEOREM CopiesTheorem == NotificationSpec => []CopiesNeedFaults
<1>1. IndInv => CopiesNeedFaults
  <2> SUFFICES ASSUME IndInv, NEW c \in Channels, NEW k \in Keys
               PROVE  copies[c][k] <= 1 + faults
    BY DEF CopiesNeedFaults
  <2>1. copies[c][k] \in Nat /\ faults \in Nat
    BY NotificationAssumption DEF IndInv, TypeInv, NotificationTypeOK
  <2>2. copies[c][k] <= faults + (IF delivery[c][k] = "sent" \/ InHand(c, k) THEN 1 ELSE 0)
    BY DEF IndInv, CopyInv
  <2> QED BY <2>1, <2>2
<1> QED BY <1>1, IndInvHolds, PTL

\* Once every announcement of a push was processed no inbox shows fewer proposals
\* than wait, whatever order the jobs ran in (withCurrentProposalCount).
THEOREM CountTheorem == NotificationSpec => []NoUnderCount
<1>1. IndInv => NoUnderCount
  <2> SUFFICES ASSUME IndInv, \A j \in PushJobs : job[j] \in {"absent", "completed"},
                      NEW m \in Members
               PROVE  inbox[m][PushKey] >= waiting
    BY DEF NoUnderCount
  <2>1. work.job \notin PushJobs
    BY DEF IndInv, TypeInv, NotificationTypeOK, Jobs
  <2> QED BY <2>1 DEF IndInv, CountInv, CountsAll, Announced
<1> QED BY <1>1, IndInvHolds, PTL

-----------------------------------------------------------------------------
(* The manual run: what a request knows                                    *)

RunTypes ==
    /\ result \in [Cases -> Outcomes \cup Open \cup {"none"}]
    /\ run \in [status : {"none", "pending", "running", "fail", "pass"}, finished : BOOLEAN]
    /\ req \in [Requests -> RequestType]

\* A request on its way has found its case in a run that exists, and derives the
\* run's status before it writes it.
Found ==
    \A q \in Requests :
        /\ InFlight(q) => req[q].of \in Cases /\ run.status # "none"
        /\ req[q].step \in {"run", "publish"} => req[q].status \in {"running", "fail", "pass"}
        /\ req[q].step = "publish" => req[q].status \in {"fail", "pass"}

Closed == \A c \in Cases : result[c] \notin Open

\* A request that will find every case closed, or found it so.
Closing(q) == req[q].step \in {"regression", "reload"} \/ (req[q].step = "run" /\ ~ req[q].open)

\* A finished run is closed and stays so; a closed one that is not finished has a
\* request that is going to finish it, unless one failed.
Finishing ==
    /\ run.finished => Closed /\ run.status # "none"
    /\ \A q \in Requests : /\ InFlight(q) /\ req[q].wasFinished => run.finished
                           /\ req[q].step = "run" /\ ~ req[q].open => Closed
    /\ faults = 0 /\ run.status # "none" /\ Closed /\ ~ run.finished =>
          \E q \in Requests : Closing(q)

RunInv == RunTypes /\ Found /\ Finishing

RequestSteps == {"absent", "idle", "case", "regression", "reload", "run", "publish", "done"}

\* A request that only goes to another step keeps what it has read.
LEMMA GoesTo ==
    ASSUME RunTypes, NEW q \in Requests, NEW t \in RequestSteps, req' = [req EXCEPT ![q].step = t]
    PROVE  /\ req' \in [Requests -> RequestType]
           /\ req'[q].step = t /\ req'[q].of = req[q].of /\ req'[q].status = req[q].status
           /\ req'[q].open = req[q].open /\ req'[q].wasFinished = req[q].wasFinished
           /\ \A p \in Requests \ {q} : req'[p] = req[p]
<1>1. req'[q] = [req[q] EXCEPT !.step = t] /\ \A p \in Requests \ {q} : req'[p] = req[p]
  BY DEF RunTypes
<1>2. req[q] \in RequestType
  BY DEF RunTypes
<1>3. [req[q] EXCEPT !.step = t] \in RequestType
  BY <1>2 DEF RequestType, RequestSteps
<1>4. req' \in [Requests -> RequestType]
  BY <1>1, <1>3 DEF RunTypes
<1> QED BY <1>1, <1>2, <1>4 DEF RequestType

LEMMA DeriveType == \A r : DeriveStatus(r) \in {"running", "fail", "pass"}
  BY DEF DeriveStatus

LEMMA RunInit == Init => RunInv
<1> SUFFICES ASSUME Init PROVE RunInv
  OBVIOUS
<1>1. RunTypes
  <2>1. Unread \in RequestType /\ [Unread EXCEPT !.step = "absent"] \in RequestType
    BY DEF Unread, RequestType
  <2>2. req \in [Requests -> RequestType]
    BY <2>1 DEF Init
  <2>3. result \in [Cases -> Outcomes \cup Open \cup {"none"}]
    BY DEF Init
  <2> QED BY <2>2, <2>3 DEF Init, RunTypes
<1>2. Found
  BY DEF Init, Found, InFlight, Unread
<1>3. Finishing
  BY DEF Init, Finishing, InFlight, Unread
<1> QED BY <1>1, <1>2, <1>3 DEF RunInv

\* Only the requests change the run.
LEMMA RunAside ==
    ASSUME RunInv, UNCHANGED runVars, faults' = 0 => faults = 0
    PROVE  RunInv'
  BY DEF RunInv, RunTypes, Found, Finishing, InFlight, Closed, Closing, runVars

LEMMA FaultsStay ==
    ASSUME TypeInv, [NotificationNext]_notifyVars
    PROVE  faults' = 0 => faults = 0
<1>1. faults \in Nat
  BY NotificationAssumption DEF TypeInv, NotificationTypeOK
<1>2. faults' = faults \/ faults' = faults + 1
  BY DEF NotificationNext, WorkerStep, NotificationFault, PushStep, notifyVars,
         Extract, Announce, AnnouncementLost, TakeNothing, PublishEvent, Decide, PublisherFails,
         Take, NotifyMember, NotifyHook, MembersDone, Send, Record, HookFails, Complete, MailFails,
         CallFails, Crash
<1> QED BY <1>1, <1>2

-----------------------------------------------------------------------------
(* Each step of the run, and what it is for the notifications              *)

RunStep == CreateManual \/ \E q \in Requests : \/ \E c \in Cases : ReadRun(q, c)
                                               \/ RequestStep(q) \/ RequestFails(q)

LEMMA StepDelivers == RunInv /\ [Next]_vars => [NotificationNext]_notifyVars
<1> SUFFICES ASSUME RunInv, [Next]_vars PROVE [NotificationNext]_notifyVars
  OBVIOUS
<1>1. CASE CreateManual \/ UNCHANGED vars
  BY <1>1 DEF CreateManual, vars
<1>2. ASSUME NEW q \in Requests, NEW c \in Cases, ReadRun(q, c)
      PROVE  [NotificationNext]_notifyVars
  BY <1>2 DEF ReadRun
<1>3. ASSUME NEW q \in Requests, RequestStep(q)
      PROVE  [NotificationNext]_notifyVars
  <2>1. CASE (\E s \in Outcomes : SetCase(q, s)) \/ Reload(q) \/ SetRun(q)
    BY <2>1 DEF SetCase, Reload, SetRun
  <2>2. CASE PublishRegression(q)
    <3>1. RegressJob[q] \in RunJobs /\ req[q].of \in PlainKeys
      BY <2>2, ManualAssumption DEF PublishRegression, RunInv, Found, InFlight, RunKeys
    <3> QED BY <2>2, <3>1 DEF PublishRegression, NotificationNext, PublishEvent
  <2>3. CASE PublishEnd(q)
    <3>1. EndJob[q] \in RunJobs /\ EndKey(req[q].status) \in PlainKeys
      BY ManualAssumption DEF EndKey, RunKeys
    <3> QED BY <2>3, <3>1 DEF PublishEnd, NotificationNext, PublishEvent
  <2> QED BY <1>3, <2>1, <2>2, <2>3 DEF RequestStep
<1>4. ASSUME NEW q \in Requests, RequestFails(q)
      PROVE  [NotificationNext]_notifyVars
  BY <1>4 DEF RequestFails, NotificationNext
<1>5. CASE DeliveryStep
  BY <1>5 DEF DeliveryStep, NotificationNext
<1> QED BY <1>1, <1>2, <1>3, <1>4, <1>5 DEF Next

LEMMA RunInvStep == TypeInv /\ RunInv /\ [Next]_vars => RunInv'
<1> SUFFICES ASSUME TypeInv, RunInv, [Next]_vars PROVE RunInv'
  OBVIOUS
<1>0. faults' = 0 => faults = 0
  BY StepDelivers, FaultsStay
<1> USE DEF RunInv, RunTypes, RequestType
<1>1. CASE CreateManual
  <2>1. run.status = "none" /\ run' = [run EXCEPT !.status = "pending"] /\ req' = req
        /\ result' = [c \in Cases |-> "pending"]
    BY <1>1 DEF CreateManual
  <2>2. RunTypes'
    BY <2>1 DEF Open
  <2>3. \A q \in Requests : ~ InFlight(q)
    BY <2>1 DEF Found
  <2>4. Found'
    BY <2>1, <2>3 DEF Found, InFlight
  <2>5. ~ Closed' /\ ~ run'.finished
    BY <2>1, ManualAssumption DEF Closed, Open, Finishing
  <2>6. Finishing'
    BY <2>1, <2>3, <2>5 DEF Finishing, InFlight
  <2> QED BY <2>2, <2>4, <2>6
<1>2. ASSUME NEW q \in Requests, NEW c \in Cases, ReadRun(q, c) PROVE RunInv'
  <2>1. result' = result /\ run' = run /\ run.status # "none" /\ faults' = faults
    BY <1>2 DEF ReadRun, notifyVars
  <2>2. req'[q] = [step |-> "case", of |-> c, seen |-> run.status,
                   wasFinished |-> run.finished, status |-> "none", open |-> TRUE]
    BY <1>2 DEF ReadRun, Unread
  <2>3. ~ Closing(q) /\ \A p \in Requests \ {q} : req'[p] = req[p]
    BY <1>2 DEF ReadRun, Closing
  <2>4. RunTypes'
    <3>1. req'[q] \in RequestType
      BY <2>1, <2>2
    <3>2. req' \in [Requests -> RequestType]
      BY <1>2, <2>3, <3>1 DEF ReadRun
    <3> QED BY <2>1, <3>2
  <2>5. Found'
    BY <2>1, <2>2, <2>3 DEF Found, InFlight
  <2>6. Finishing'
    BY <2>1, <2>2, <2>3 DEF Finishing, InFlight, Closed, Closing
  <2> QED BY <2>4, <2>5, <2>6
<1>3. ASSUME NEW q \in Requests, NEW s \in Outcomes, SetCase(q, s) PROVE RunInv'
  <2>1. run' = run /\ faults' = faults /\ req[q].step = "case"
        /\ result' = [result EXCEPT ![req[q].of] = s]
    BY <1>3 DEF SetCase, notifyVars
  <2>2. PICK t \in {"regression", "reload"} : req' = [req EXCEPT ![q].step = t]
    BY <1>3 DEF SetCase
  <2>3. /\ req' \in [Requests -> RequestType]
        /\ req'[q].step = t /\ req'[q].of = req[q].of /\ req'[q].wasFinished = req[q].wasFinished
        /\ \A p \in Requests \ {q} : req'[p] = req[p]
    BY <2>2, GoesTo DEF RequestSteps
  <2>4. RunTypes'
    BY <2>1, <2>3
  <2>5. Found'
    BY <2>1, <2>3 DEF Found, InFlight
  <2>6. Closed => Closed'
    BY <2>1, ManualAssumption DEF Closed, Open
  <2>7. \E p \in Requests : Closing(p)'
    BY <2>3 DEF Closing
  <2>8. Finishing'
    <3>1. \A x \in Requests : InFlight(x)' => InFlight(x)
      BY <2>1, <2>3 DEF InFlight
    <3> QED BY <2>1, <2>3, <2>6, <2>7, <3>1 DEF Finishing
  <2> QED BY <2>4, <2>5, <2>8
<1>4. ASSUME NEW q \in Requests, PublishRegression(q) PROVE RunInv'
  <2>1. run' = run /\ faults' = faults /\ result' = result /\ req[q].step = "regression"
        /\ req' = [req EXCEPT ![q].step = "reload"]
    BY <1>4 DEF PublishRegression
  <2>2. RunTypes'
    BY <2>1
  <2>3. Found'
    BY <2>1 DEF Found, InFlight
  <2>4. Finishing'
    BY <2>1 DEF Finishing, InFlight, Closing, Closed
  <2> QED BY <2>2, <2>3, <2>4
<1>5. ASSUME NEW q \in Requests, Reload(q) PROVE RunInv'
  <2>1. run' = run /\ faults' = faults /\ result' = result /\ req[q].step = "reload"
    BY <1>5 DEF Reload, notifyVars
  <2>2. PICK t \in {"running", "fail", "pass"} :
          req' = [req EXCEPT ![q].step = "run", ![q].status = t, ![q].open = ~ Closed]
    BY <1>5, DeriveType DEF Reload, Closed
  <2>3. req'[q].step = "run" /\ req'[q].status = t /\ req'[q].open = ~ Closed
        /\ req'[q].of = req[q].of /\ req'[q].wasFinished = req[q].wasFinished
        /\ \A p \in Requests \ {q} : req'[p] = req[p]
    BY <2>2
  <2>4. RunTypes'
    <3>1. req'[q] = [req[q] EXCEPT !.step = "run", !.status = t, !.open = ~ Closed]
      BY <2>2
    <3>2. req'[q] \in RequestType
      BY <3>1 DEF Closed
    <3>3. req' \in [Requests -> RequestType]
      BY <2>2, <3>2
    <3> QED BY <2>1, <3>3
  <2>5. Found'
    BY <2>1, <2>3 DEF Found, InFlight
  <2>6. Closed' = Closed
    BY <2>1 DEF Closed
  <2>7. Closed => Closing(q)'
    BY <2>3 DEF Closing
  <2>8. Finishing'
    <3>1. \A x \in Requests : InFlight(x)' => InFlight(x)
      BY <2>1, <2>3 DEF InFlight
    <3>2. \A x \in Requests : x # q => req'[x] = req[x]
      BY <2>3
    <3>3. ASSUME NEW x \in Requests
          PROVE  /\ InFlight(x)' /\ req'[x].wasFinished => run'.finished
                 /\ req'[x].step = "run" /\ ~ req'[x].open => Closed'
      <4>1. CASE x = q
        BY <2>1, <2>3, <2>6, <3>1, <4>1 DEF Finishing
      <4>2. CASE x # q
        BY <2>1, <2>6, <3>1, <3>2, <4>2 DEF Finishing
      <4> QED BY <4>1, <4>2
    <3>4. run'.finished => Closed' /\ run'.status # "none"
      BY <2>1, <2>6 DEF Finishing
    <3>5. faults' = 0 /\ run'.status # "none" /\ Closed' /\ ~ run'.finished =>
            \E x \in Requests : Closing(x)'
      BY <2>1, <2>6, <2>7 DEF Finishing
    <3> QED BY <3>3, <3>4, <3>5 DEF Finishing
  <2> QED BY <2>4, <2>5, <2>8
<1>6. ASSUME NEW q \in Requests, SetRun(q) PROVE RunInv'
  <2>1. faults' = faults /\ result' = result /\ req[q].step = "run"
        /\ run' = [status |-> req[q].status, finished |-> run.finished \/ Finishes(q)]
    BY <1>6 DEF SetRun, notifyVars
  <2>2. PICK t \in {"publish", "done"} :
          req' = [req EXCEPT ![q].step = t] /\ (t = "publish" => req[q].status \in {"fail", "pass"})
    BY <1>6 DEF SetRun, Ends
  <2>3. req[q].status \in {"running", "fail", "pass"}
    BY <2>1 DEF Found
  <2>a. /\ req' \in [Requests -> RequestType]
        /\ req'[q].step = t /\ req'[q].status = req[q].status /\ req'[q].of = req[q].of
        /\ req'[q].wasFinished = req[q].wasFinished
        /\ \A p \in Requests \ {q} : req'[p] = req[p]
    BY <2>2, GoesTo DEF RequestSteps
  <2>4. RunTypes'
    BY <2>1, <2>3, <2>a DEF Finishes
  <2>5. Found'
    BY <2>1, <2>2, <2>3, <2>a DEF Found, InFlight
  <2>6. Closed' = Closed
    BY <2>1 DEF Closed
  <2>7. run'.finished => Closed
    BY <2>1 DEF Finishes, Finishing
  <2>8. ~ run'.finished => ~ Closing(q)
    BY <2>1 DEF Finishes, Finishing, Closing, InFlight
  <2>9. run.finished => run'.finished
    BY <2>1
  <2>10. run'.finished => Closed' /\ run'.status # "none"
    BY <2>1, <2>3, <2>6, <2>7
  <2>11. \A p \in Requests : /\ InFlight(p)' /\ req'[p].wasFinished => run'.finished
                             /\ req'[p].step = "run" /\ ~ req'[p].open => Closed'
    BY <2>1, <2>6, <2>9, <2>a DEF Finishing, InFlight
  <2>12. ASSUME faults' = 0, Closed', ~ run'.finished PROVE \E p \in Requests : Closing(p)'
    <3>1. run.status # "none" /\ ~ run.finished
      BY <2>1, <2>9, <2>12 DEF Found, InFlight
    <3>2. PICK p \in Requests : Closing(p)
      BY <2>1, <2>6, <2>12, <3>1 DEF Finishing
    <3> QED BY <2>8, <2>12, <2>a, <3>2 DEF Closing
  <2>13. Finishing'
    BY <2>10, <2>11, <2>12 DEF Finishing
  <2> QED BY <2>4, <2>5, <2>13
<1>7. ASSUME NEW q \in Requests, PublishEnd(q) PROVE RunInv'
  <2>1. run' = run /\ faults' = faults /\ result' = result /\ req[q].step = "publish"
        /\ req' = [req EXCEPT ![q].step = "done"]
    BY <1>7 DEF PublishEnd
  <2>2. RunTypes'
    BY <2>1
  <2>3. Found'
    BY <2>1 DEF Found, InFlight
  <2>4. Finishing'
    BY <2>1 DEF Finishing, InFlight, Closing, Closed
  <2> QED BY <2>2, <2>3, <2>4
<1>8. ASSUME NEW q \in Requests, RequestFails(q) PROVE RunInv'
  <2>1. run' = run /\ result' = result /\ req' = [req EXCEPT ![q].step = "done"]
        /\ faults' = faults + 1
    BY <1>8 DEF RequestFails, PublisherFails
  <2>2. faults' # 0
    BY <2>1, NotificationAssumption DEF TypeInv, NotificationTypeOK
  <2>3. RunTypes'
    BY <2>1
  <2>4. Found'
    BY <2>1 DEF Found, InFlight
  <2>5. Finishing'
    BY <2>1, <2>2 DEF Finishing, InFlight, Closed
  <2> QED BY <2>3, <2>4, <2>5
<1>9. CASE DeliveryStep \/ UNCHANGED vars
  BY <1>0, <1>9, RunAside DEF DeliveryStep, vars
<1> QED
  BY <1>1, <1>2, <1>3, <1>4, <1>5, <1>6, <1>7, <1>8, <1>9 DEF Next, RequestStep

-----------------------------------------------------------------------------
(* Theorems                                                                *)

LEMMA InvHolds == Spec => [](TypeInv /\ RunInv)
<1>1. Init => TypeInv /\ RunInv
  BY RunInit, TypeInit DEF Init
<1>2. TypeInv /\ RunInv /\ [Next]_vars => TypeInv' /\ RunInv'
  BY StepDelivers, TypeStep, RunInvStep
<1> QED BY <1>1, <1>2, PTL DEF Spec

\* A manual run with its requests and failures is a way to use the notifications:
\* every step of it is one of NotificationDelivery or leaves that alone.
THEOREM DeliversNotifications == Spec => NotificationSpec
<1>1. Init => NotificationInit
  BY DEF Init
<1> QED BY <1>1, StepDelivers, InvHolds, PTL DEF Spec, NotificationSpec

\* Types of the notifications, the run, its cases and its requests.
THEOREM TypeCorrect == Spec => []TypeOK
<1>1. TypeInv /\ RunInv => TypeOK
  BY DEF TypeInv, RunInv, RunTypes, TypeOK
<1> QED BY <1>1, InvHolds, PTL

\* A copy too many costs a fault, for a run's ends and regressions too.
THEOREM CopiesOfRun == Spec => []CopiesNeedFaults
  BY DeliversNotifications, CopiesTheorem, PTL

\* A push counted in full, beside a run that publishes its own events.
THEOREM CountBesideRun == Spec => []NoUnderCount
  BY DeliversNotifications, CountTheorem, PTL

\* A run is finished only when no case is open and, failures aside, whenever none
\* is and no request is on its way, whatever the requests read (updateCaseStatus).
THEOREM FinishedTheorem == Spec => []FinishedWhenClosed
<1>1. TypeInv /\ RunInv => FinishedWhenClosed
  <2> SUFFICES ASSUME RunInv PROVE FinishedWhenClosed
    OBVIOUS
  <2>1. run.finished => \A c \in Cases : result[c] \notin Open
    BY DEF RunInv, Finishing, Closed
  <2>2. ASSUME Quiet, faults = 0, run.status # "none", \A c \in Cases : result[c] \notin Open
        PROVE  run.finished
    <3>1. \A q \in Requests : ~ Closing(q)
      BY <2>2 DEF Quiet, InFlight, Closing
    <3> QED BY <2>2, <3>1 DEF RunInv, Finishing, Closed
  <2> QED BY <2>1, <2>2 DEF FinishedWhenClosed
<1> QED BY <1>1, InvHolds, PTL
=============================================================================
