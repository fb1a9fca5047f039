------------------------ MODULE NotificationDelivery ------------------------
(***************************************************************************)
(* The notifications queue and its worker (apps/api/src/modules/           *)
(* notifications).  A job carries the event it tells and the event's       *)
(* dedupeKey; the worker writes a row in every member's inbox, then mails  *)
(* the members who want it, and posts to the webhooks last, recording each *)
(* delivery by the dedupeKey so that a retry, or another job of the same   *)
(* key, does not send it again.                                            *)
(*                                                                         *)
(* A push is announced by each of its extraction jobs, after its commit    *)
(* and under the batch's one key; the worker counts its proposals again.   *)
(* One worker takes one job at a time; a call may fail and the process may *)
(* stop between any two awaits.                                            *)
(***************************************************************************)
EXTENDS Naturals, FiniteSets

CONSTANTS
    PushJobs,      \* announcements of one push: one per file extracted
    RunJobs,       \* announcements of everything else
    PlainKeys,     \* dedupeKeys of the events of RunJobs
    PushKey,       \* "proposals:push:<batch>"
    Members,       \* members of the organization with the event on in-app
    Mailed,        \* those who have it on by e-mail too
    Hooks,         \* enabled webhooks with the event among their types
    MaxAttempts,   \* attempts of a job
    MaxFaults,     \* bound: failed calls and crashes
    None

Jobs     == PushJobs \cup RunJobs
Keys     == PlainKeys \cup {PushKey}
Channels == Mailed \cup Hooks

ASSUME NotificationAssumption ==
    /\ IsFiniteSet(PushJobs) /\ PushJobs \cap RunJobs = {} /\ PushKey \notin PlainKeys
    /\ Mailed \subseteq Members /\ Members \cap Hooks = {}
    /\ None \notin Jobs \cup Channels
    /\ MaxAttempts \in Nat \ {0} /\ MaxFaults \in Nat

VARIABLES
    job,       \* job -> where it is, from the extraction that will announce it
    key,       \* job -> dedupeKey of the event it carries
    attempts,  \* job -> failed attempts
    stalled,   \* jobs recovered once from a stopped worker
    waiting,   \* proposals of the push in_review
    work,      \* what the worker is doing
    inbox,     \* member, key -> count in the notification row, 0 without one
    delivery,  \* channel, key -> the notificationDelivery row
    copies,    \* channel, key -> messages really sent
    faults

queueVars   == <<job, key, attempts, stalled>>
deliverVars == <<inbox, delivery, copies>>
notifyVars  == <<queueVars, waiting, work, deliverVars, faults>>

JobStates == {"absent", "extracting", "committed", "lost",
              "queued", "active", "completed", "failed"}
Idle == [job |-> None, step |-> "idle", count |-> 0, members |-> {}, hooks |-> {}, to |-> None]

NotificationInit ==
    /\ job \in [Jobs -> {"absent", "extracting"}]
    /\ \A j \in RunJobs : job[j] = "absent"
    /\ key = [j \in Jobs |-> PushKey]
    /\ attempts = [j \in Jobs |-> 0] /\ stalled = {}
    /\ waiting = 0 /\ work = Idle
    /\ inbox = [m \in Members |-> [k \in Keys |-> 0]]
    /\ delivery = [c \in Channels |-> [k \in Keys |-> "none"]]
    /\ copies = [c \in Channels |-> [k \in Keys |-> 0]]
    /\ faults = 0

Move(j, s) == job' = [job EXCEPT ![j] = s]

----------------------------------------------------------------------------
(* Announcements of a push, and the reviewers of its proposals             *)

\* An extraction job commits the proposals of its file.
Extract(j) ==
    /\ job[j] = "extracting"
    /\ Move(j, "committed")
    /\ waiting' = waiting + 1
    /\ UNCHANGED <<key, attempts, stalled, work, deliverVars, faults>>

\* onProposalsCreated: the event is queued after the commit.
Announce(j) ==
    /\ j \in PushJobs /\ job[j] = "committed"
    /\ Move(j, "queued")
    /\ UNCHANGED <<key, attempts, stalled, waiting, work, deliverVars, faults>>

\* The process stops before it, or the queue cannot be reached: a warning.
AnnouncementLost(j) ==
    /\ j \in PushJobs /\ job[j] = "committed" /\ faults < MaxFaults
    /\ faults' = faults + 1
    /\ Move(j, "lost")
    /\ UNCHANGED <<key, attempts, stalled, waiting, work, deliverVars>>

\* A reviewer decides a proposal, or a later push takes it to its own batch.
Decide ==
    /\ waiting > 0
    /\ waiting' = waiting - 1
    /\ UNCHANGED <<queueVars, work, deliverVars, faults>>

\* NotificationsPublisher.publish, called by the modules that make the event.
Publish(j, k) ==
    /\ job[j] = "absent"
    /\ Move(j, "queued")
    /\ key' = [key EXCEPT ![j] = k]

----------------------------------------------------------------------------
(* NotificationsProcessor                                                  *)

\* Mutant: the number the job carries, its own share.
OwnShare(j) == 1
\* withCurrentProposalCount: a push is counted again, any other event is one.
CountOf(j) == IF key[j] = PushKey THEN waiting ELSE 1

\* A batch with nothing left to review is not announced.
TakeNothing(j) ==
    /\ work.step = "idle" /\ job[j] = "queued" /\ CountOf(j) = 0
    /\ Move(j, "completed")
    /\ UNCHANGED <<key, attempts, stalled, waiting, work, deliverVars, faults>>

\* The members are found in no given order.
Take(j) ==
    /\ work.step = "idle" /\ job[j] = "queued" /\ CountOf(j) > 0
    /\ Move(j, "active")
    /\ work' = [Idle EXCEPT !.job = j, !.step = "members", !.count = CountOf(j),
                            !.members = Members, !.hooks = Hooks]
    /\ UNCHANGED <<key, attempts, stalled, waiting, deliverVars, faults>>

WorkKey == key[work.job]

\* Mutant: a repeat never rewrites the row.
FirstWrite(m) == IF inbox[m][WorkKey] = 0 THEN work.count ELSE inbox[m][WorkKey]
\* The upsert: only proposals_ready is refreshed by a repeat (REFRESHED_ON_REPEAT).
Row(m) == IF inbox[m][WorkKey] = 0 \/ WorkKey = PushKey THEN work.count ELSE inbox[m][WorkKey]

\* Mutant: any earlier attempt counts as a delivery, or none does.
NeverSent(c) == TRUE
\* wasEmailSent, and its twin for webhooks: only a confirmed send counts.
ToSend(c) == delivery[c][WorkKey] # "sent"

\* notify: the row first, then the e-mail if it is wanted and not sent yet.
NotifyMember(m) ==
    /\ work.step = "members" /\ m \in work.members
    /\ inbox' = [inbox EXCEPT ![m][WorkKey] = Row(m)]
    /\ work' = IF m \in Mailed /\ ToSend(m)
               THEN [work EXCEPT !.step = "send", !.to = m, !.members = @ \ {m}]
               ELSE [work EXCEPT !.members = @ \ {m}]
    /\ UNCHANGED <<queueVars, waiting, delivery, copies, faults>>

MembersDone ==
    /\ work.step = "members" /\ work.members = {}
    /\ work' = [work EXCEPT !.step = "hooks"]
    /\ UNCHANGED <<queueVars, waiting, deliverVars, faults>>

NotifyHook(h) ==
    /\ work.step = "hooks" /\ h \in work.hooks
    /\ work' = IF ToSend(h) THEN [work EXCEPT !.step = "send", !.to = h, !.hooks = @ \ {h}]
               ELSE [work EXCEPT !.hooks = @ \ {h}]
    /\ UNCHANGED <<queueVars, waiting, deliverVars, faults>>

Send ==
    /\ work.step = "send"
    /\ copies' = [copies EXCEPT ![work.to][WorkKey] = @ + 1]
    /\ work' = [work EXCEPT !.step = "record"]
    /\ UNCHANGED <<queueVars, waiting, inbox, delivery, faults>>

\* After a channel: back to the members, or to the other webhooks.
NextChannel == work' = [work EXCEPT !.step = IF work.to \in Mailed THEN "members" ELSE "hooks",
                                    !.to = None]

Record ==
    /\ work.step = "record"
    /\ delivery' = [delivery EXCEPT ![work.to][WorkKey] = "sent"]
    /\ NextChannel
    /\ UNCHANGED <<queueVars, waiting, inbox, copies, faults>>

Complete ==
    /\ work.step = "hooks" /\ work.hooks = {}
    /\ Move(work.job, "completed")
    /\ work' = Idle
    /\ UNCHANGED <<key, attempts, stalled, waiting, deliverVars, faults>>

\* Mutant: the first failure is the last.
GivesUp(j) == "failed"
\* BullMQ retries a rejected job until it is out of attempts.
AfterFailure(j) == IF attempts[j] + 1 < MaxAttempts THEN "queued" ELSE "failed"

EndAttempt ==
    /\ attempts' = [attempts EXCEPT ![work.job] = @ + 1]
    /\ Move(work.job, AfterFailure(work.job))
    /\ work' = Idle

\* A webhook that fails is recorded and the others go on ...
HookFails ==
    /\ work.step = "send" /\ work.to \in Hooks /\ faults < MaxFaults
    /\ faults' = faults + 1
    /\ delivery' = [delivery EXCEPT ![work.to][WorkKey] = "failed"]
    /\ NextChannel
    /\ UNCHANGED <<queueVars, waiting, inbox, copies>>

\* ... an e-mail that fails is recorded and ends the attempt, and so does ...
MailFails ==
    /\ work.step = "send" /\ work.to \in Mailed /\ faults < MaxFaults
    /\ faults' = faults + 1
    /\ delivery' = [delivery EXCEPT ![work.to][WorkKey] = "failed"]
    /\ EndAttempt
    /\ UNCHANGED <<key, stalled, waiting, inbox, copies>>

\* ... any call to the database that fails.
CallFails ==
    /\ work.step # "idle" /\ faults < MaxFaults
    /\ faults' = faults + 1
    /\ EndAttempt
    /\ UNCHANGED <<key, stalled, waiting, deliverVars>>

\* The worker stops: BullMQ gives its job back once, and then fails it.
Crash ==
    /\ work.step # "idle" /\ faults < MaxFaults
    /\ faults' = faults + 1
    /\ Move(work.job, IF work.job \in stalled THEN "failed" ELSE "queued")
    /\ stalled' = stalled \cup {work.job}
    /\ work' = Idle
    /\ UNCHANGED <<key, attempts, waiting, deliverVars>>

----------------------------------------------------------------------------
WorkerStep ==
    \/ \E j \in Jobs : TakeNothing(j) \/ Take(j)
    \/ \E m \in Members : NotifyMember(m)
    \/ \E h \in Hooks : NotifyHook(h)
    \/ MembersDone \/ Send \/ Record \/ Complete

\* Whoever would publish an event fails before.
PublisherFails ==
    /\ faults < MaxFaults /\ faults' = faults + 1
    /\ UNCHANGED <<queueVars, waiting, work, deliverVars>>

NotificationFault ==
    HookFails \/ MailFails \/ CallFails \/ Crash \/ \E j \in Jobs : AnnouncementLost(j)

PushStep(j) == Extract(j) \/ Announce(j)

\* Somebody else publishes an event.
PublishEvent ==
    /\ \E j \in RunJobs, k \in PlainKeys : Publish(j, k)
    /\ UNCHANGED <<attempts, stalled, waiting, work, deliverVars, faults>>

NotificationNext ==
    \/ WorkerStep \/ NotificationFault \/ PublisherFails \/ Decide \/ PublishEvent
    \/ \E j \in Jobs : PushStep(j)

NotificationSpec == NotificationInit /\ [][NotificationNext]_notifyVars

----------------------------------------------------------------------------
WorkType == [job : Jobs \cup {None}, step : {"idle", "members", "hooks", "send", "record"},
             count : Nat, members : SUBSET Members, hooks : SUBSET Hooks,
             to : Channels \cup {None}]

NotificationTypeOK ==
    /\ job \in [Jobs -> JobStates] /\ key \in [Jobs -> Keys]
    /\ attempts \in [Jobs -> 0 .. MaxAttempts] /\ stalled \subseteq Jobs
    /\ waiting \in Nat /\ faults \in 0 .. MaxFaults
    /\ work \in WorkType
    /\ work.step # "idle" <=> work.job # None
    /\ \A j \in Jobs : /\ job[j] = "active" <=> j = work.job
                       /\ job[j] = "failed" => attempts[j] = MaxAttempts \/ j \in stalled
    /\ work.step \in {"send", "record"} <=> work.to # None
    /\ inbox \in [Members -> [Keys -> Nat]]
    /\ delivery \in [Channels -> [Keys -> {"none", "failed", "sent"}]]
    /\ copies \in [Channels -> [Keys -> Nat]]

\* A member or a channel gets one copy of a message for each dedupeKey, and one
\* more for each failure or crash at most, however many jobs share the key and
\* however often they are retried (wasEmailSent: "only a confirmed send counts",
\* though DOMAIN_EVENTS.md:124 says that e-mail "does not check it before sending",
\* which is the mutant NeverSent).
CopiesNeedFaults == \A c \in Channels, k \in Keys : copies[c][k] <= 1 + faults

\* "Jobs that finish out of order cannot leave a wrong total behind": once every
\* announcement of a push was processed, no inbox shows fewer proposals than
\* still wait (PROPOSAL_NOTIFICATIONS.md, "The count is read again").
NoUnderCount ==
    (\A j \in PushJobs : job[j] \in {"absent", "completed"}) =>
        \A m \in Members : inbox[m][PushKey] >= waiting
=============================================================================
