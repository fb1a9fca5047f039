----------------------------- MODULE ChatCredits -----------------------------
(***************************************************************************)
(* What AI costs an organization: a request of the daily budget before the *)
(* model is asked, a credit of the month once it answered                  *)
(* (ai-daily-budget.service.ts, ai-entitlement.service.ts), spent by chat  *)
(* sends (chat.service.ts) and by extractions (extraction.processor.ts).   *)
(*                                                                         *)
(* A send spends its credit, stores the reply and touches its thread in    *)
(* one transaction; an extraction spends it in statements of its own.      *)
(* spendCredit reads the organization, resets its month, and increments,   *)
(* and others spend, or the plan changes, between any two of these.        *)
(***************************************************************************)
EXTENDS Integers, FiniteSets

CONSTANTS
    Sends,       \* chat messages sent
    Extractions, \* extractions that ask the model
    Plans,
    Limit,       \* plan -> PLAN_LIMITS[plan].monthlyAiCredits
    Budget,      \* AERIS_DAILY_BUDGET
    LastMonth,   \* bound: UTC months
    LastDay,     \* bound: Pacific days
    MaxChanges,  \* bound: changes of the plan or of aiEnabled
    MaxFaults,   \* bound: requests that fail or stop
    None

Askers == Sends \cup Extractions
Months == 0 .. LastMonth
Days   == 0 .. LastDay

OrgType == [plan : Plans, enabled : BOOLEAN, used : Nat, period : Months]

ASSUME CreditsAssumption ==
    /\ Sends \cap Extractions = {} /\ IsFiniteSet(Askers)
    /\ None \notin Nat \cup Askers /\ None \notin OrgType
    /\ Limit \in [Plans -> Nat] /\ Budget \in Nat
    /\ LastMonth \in Nat /\ LastDay \in Nat /\ MaxChanges \in Nat /\ MaxFaults \in Nat

VARIABLES
    month, day, \* the clock: UTC month, Pacific day
    org,        \* the committed organization row
    written,    \* the row as the open transaction wrote it, and by whom
    count,      \* day -> the Redis counter
    thread,     \* the thread of the sends exists
    ask,        \* asker -> where it is and what it has read
    charged,    \* asker -> the period its credit was counted in, once committed
    changes, faults

vars == <<month, day, org, written, count, thread, ask, charged, changes, faults>>

Nothing == [by |-> None, row |-> None]

Init ==
    /\ month = 0 /\ day = 0
    /\ org \in [plan : Plans, enabled : {TRUE}, used : {0}, period : {0}]
    /\ written = Nothing
    /\ count = [d \in Days |-> 0]
    /\ thread = TRUE
    /\ ask = [a \in Askers |-> [step |-> "idle", day |-> 0, granted |-> FALSE, seen |-> None,
                            now |-> 0]]
    /\ charged = [a \in Askers |-> None]
    /\ changes = 0 /\ faults = 0

Goto(a, s) == ask' = [ask EXCEPT ![a].step = s]

----------------------------------------------------------------------------
(* tryConsume                                                              *)

\* isEntitled, asked before a send and an extraction begin.
Entitled == org.enabled /\ (IF org.period < month THEN 0 ELSE org.used) < Limit[org.plan]

\* prepareSend stores the user's message, which needs the thread; the day is read.
Begin(a) ==
    /\ ask[a].step = "idle" /\ Entitled /\ (a \in Sends => thread)
    /\ ask' = [ask EXCEPT ![a].step = "incr", ![a].day = day]
    /\ UNCHANGED <<month, day, org, written, count, thread, charged, changes, faults>>

Incr(a) ==
    /\ ask[a].step = "incr"
    /\ count' = [count EXCEPT ![ask[a].day] = @ + 1]
    /\ ask' = IF count'[ask[a].day] > Budget THEN [ask EXCEPT ![a].step = "over"]
              ELSE [ask EXCEPT ![a].step = "asking", ![a].granted = TRUE]
    /\ UNCHANGED <<month, day, org, written, thread, charged, changes, faults>>

\* Mutant: the key of the day it is by now.
Today(a) == day
\* The key is computed once.
BudgetKey(a) == ask[a].day

Decr(a) ==
    /\ ask[a].step = "over"
    /\ count' = [count EXCEPT ![BudgetKey(a)] = @ - 1]
    /\ Goto(a, "quota-exhausted")
    /\ UNCHANGED <<month, day, org, written, thread, charged, changes, faults>>

----------------------------------------------------------------------------
(* The model's answer, and spendCredit                                     *)

Answer(a) ==
    /\ ask[a].step = "asking"
    /\ Goto(a, "read")
    /\ UNCHANGED <<month, day, org, written, count, thread, charged, changes, faults>>

\* The provider is unavailable, or the client aborts the stream.
NoAnswer(a) ==
    /\ ask[a].step = "asking"
    /\ Goto(a, "unanswered")
    /\ UNCHANGED <<month, day, org, written, count, thread, charged, changes, faults>>

\* Mutant: the credit is spent outside the transaction.
NeverInTx(a) == FALSE
\* completeSend passes its transaction to spendCredit.
InTx(a) == a \in Sends

\* The row as a sees it, and whether a statement of a that matches it waits.
Row(a)  == IF written.by = a THEN written.row ELSE org
Free(a) == written.by \in {None, a}

Write(a, row) ==
    IF InTx(a) THEN written' = [by |-> a, row |-> row] /\ UNCHANGED org
    ELSE org' = row /\ UNCHANGED written

\* The organization is read, then the clock, once for all that follows.
ReadOrg(a) ==
    /\ ask[a].step = "read"
    /\ ask' = [ask EXCEPT ![a].seen = org, ![a].now = month,
                          ![a].step = IF org.enabled THEN "reset" ELSE "not-enabled"]
    /\ UNCHANGED <<month, day, org, written, count, thread, charged, changes, faults>>

\* Mutant: the reset has no condition of its own.
ResetAnyway(a) == ask[a].seen.period < ask[a].now
\* updateMany where aiCreditsPeriodStart is still before the month.
Resets(a) == ask[a].seen.period < ask[a].now /\ Row(a).period < ask[a].now

\* creditsUsedAt, on the row as it was read.
UsedUp(a) ==
    (IF ask[a].seen.period < ask[a].now THEN 0 ELSE ask[a].seen.used) >= Limit[ask[a].seen.plan]

ResetMonth(a) ==
    /\ ask[a].step = "reset"
    /\ Resets(a) => Free(a)
    /\ IF Resets(a) THEN Write(a, [Row(a) EXCEPT !.used = 0, !.period = ask[a].now])
       ELSE UNCHANGED <<org, written>>
    /\ Goto(a, IF UsedUp(a) THEN "refuse" ELSE "charge")
    /\ UNCHANGED <<month, day, count, thread, charged, changes, faults>>

\* Mutant: the plan that was read is trusted.
TrustsPlan(a) == Row(a).enabled /\ Row(a).used < Limit[ask[a].seen.plan]
\* updateMany where the plan is still the one read, and credits are left in it.
Charges(a) ==
    /\ Row(a).plan = ask[a].seen.plan /\ Row(a).enabled
    /\ Row(a).used < Limit[ask[a].seen.plan]

\* An extraction is charged at once, a send when its transaction commits.
Charge(a) ==
    /\ ask[a].step = "charge" /\ Charges(a) /\ Free(a)
    /\ Write(a, [Row(a) EXCEPT !.used = @ + 1])
    /\ charged' = IF InTx(a) THEN charged ELSE [charged EXCEPT ![a] = Row(a).period]
    /\ Goto(a, IF a \in Sends THEN "store" ELSE "done")
    /\ UNCHANGED <<month, day, count, thread, changes, faults>>

NotCharged(a) ==
    /\ ask[a].step = "charge" /\ ~ Charges(a)
    /\ Goto(a, "refuse")
    /\ UNCHANGED <<month, day, org, written, count, thread, charged, changes, faults>>

\* The transaction of a ends: what it wrote takes effect, or does not.
Commit(a)   == IF written.by = a THEN org' = written.row /\ written' = Nothing
               ELSE UNCHANGED <<org, written>>
Rollback(a) == /\ written' = IF written.by = a THEN Nothing ELSE written
               /\ UNCHANGED org

\* ai-not-enabled: nothing was spent, but a new month stays.
Refuse(a) ==
    /\ ask[a].step = "refuse"
    /\ Commit(a)
    /\ Goto(a, "not-enabled")
    /\ UNCHANGED <<month, day, count, thread, charged, changes, faults>>

----------------------------------------------------------------------------
(* The reply                                                               *)

StoreReply(a) ==
    /\ ask[a].step = "store" /\ thread
    /\ Commit(a)
    /\ charged' = IF InTx(a) THEN [charged EXCEPT ![a] = Row(a).period] ELSE charged
    /\ Goto(a, "done")
    /\ UNCHANGED <<month, day, count, thread, changes, faults>>

\* The thread was deleted while the model wrote.
ThreadGone(a) ==
    /\ ask[a].step = "store" /\ ~ thread
    /\ Rollback(a)
    /\ Goto(a, "failed")
    /\ UNCHANGED <<month, day, count, thread, charged, changes, faults>>

DeleteThread ==
    /\ thread /\ thread' = FALSE
    /\ UNCHANGED <<month, day, org, written, count, ask, charged, changes, faults>>

----------------------------------------------------------------------------
(* The world around                                                        *)

NextMonth ==
    /\ month < LastMonth /\ month' = month + 1
    /\ UNCHANGED <<day, org, written, count, thread, ask, charged, changes, faults>>

NextDay ==
    /\ day < LastDay /\ day' = day + 1
    /\ UNCHANGED <<month, org, written, count, thread, ask, charged, changes, faults>>

\* An operator changes the plan or switches AI off or on.
ChangeOrg(p, on) ==
    /\ changes < MaxChanges /\ changes' = changes + 1
    /\ written = Nothing
    /\ org' = [org EXCEPT !.plan = p, !.enabled = on]
    /\ UNCHANGED <<month, day, written, count, thread, ask, charged, faults>>

Final == {"quota-exhausted", "unanswered", "not-enabled", "done", "failed"}

\* A call fails, or the process stops.
Fails(a) ==
    /\ ask[a].step \notin Final \cup {"idle"} /\ faults < MaxFaults
    /\ faults' = faults + 1
    /\ Rollback(a)
    /\ Goto(a, "failed")
    /\ UNCHANGED <<month, day, count, thread, charged, changes>>

----------------------------------------------------------------------------
Step(a) ==
    \/ Incr(a) \/ Decr(a) \/ Answer(a) \/ NoAnswer(a) \/ ReadOrg(a) \/ ResetMonth(a)
    \/ Charge(a) \/ NotCharged(a) \/ Refuse(a) \/ StoreReply(a) \/ ThreadGone(a)

Next ==
    \/ \E a \in Askers : Begin(a) \/ Step(a) \/ Fails(a)
    \/ \E p \in Plans, on \in BOOLEAN : ChangeOrg(p, on)
    \/ DeleteThread \/ NextMonth \/ NextDay

Spec == Init /\ [][Next]_vars

----------------------------------------------------------------------------
AskType == [step : Final \cup {"idle", "incr", "over", "asking", "read", "reset", "charge",
                               "refuse", "store"},
            day : Days, granted : BOOLEAN, seen : OrgType \cup {None}, now : Months]

\* Every variable has its type: the row's month is never ahead of the clock, values not
\* yet committed belong to a send inside its transaction, and a request past its read
\* holds the row it read.
TypeOK ==
    /\ month \in Months /\ day \in Days /\ thread \in BOOLEAN
    /\ org.period <= month /\ org \in OrgType
    /\ written = Nothing \/ (/\ written.by \in Sends /\ written.row \in OrgType
                             /\ ask[written.by].step \in {"charge", "refuse", "store"})
    /\ count \in [Days -> Nat]
    /\ ask \in [Askers -> AskType]
    /\ \A a \in Askers : ask[a].step \in {"reset", "charge", "refuse", "store"} => ask[a].seen # None
    /\ charged \in [Askers -> Months \cup {None}]
    /\ changes \in 0 .. MaxChanges /\ faults \in 0 .. MaxFaults

\* The credits used are those of the answers of their month, none lost where two
\* requests open a new month at once; and a send is charged exactly when its reply
\* is stored: "a failed write rolls the credit back too".
CreditPerReply ==
    /\ org.used = Cardinality({a \in Askers : charged[a] = org.period})
    /\ \A a \in Sends : ask[a].step = "done" <=> charged[a] # None

Granted(d) == {a \in Askers : ask[a].granted /\ ask[a].day = d}

\* Credits only grow within the plan of that moment, with AI on, whatever plan was
\* read; and of a day's requests the budget's number are granted, and no request is
\* refused before they are, even if one stops between its INCR and its DECR.
WithinLimits ==
    [][/\ org'.used > org.used => org'.used <= Limit[org'.plan] /\ org'.enabled
       /\ \A d \in Days : Cardinality(Granted(d)') <= Budget
       /\ \A a \in Askers : ask'[a].step = "over" => Cardinality(Granted(ask[a].day)) = Budget]_vars
=============================================================================
