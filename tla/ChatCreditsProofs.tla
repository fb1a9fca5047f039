-------------------------- MODULE ChatCreditsProofs --------------------------
(***************************************************************************)
(* Proofs about ChatCredits for any sends, extractions, plans, limits,     *)
(* budget, months, days and faults: the types, that the month's counter is *)
(* the number of its answers, and that no limit is ever exceeded.          *)
(***************************************************************************)
EXTENDS ChatCredits, FiniteSetTheorems, TLAPS

Steps == Final \cup {"idle", "incr", "over", "asking", "read", "reset", "charge", "refuse", "store"}

-----------------------------------------------------------------------------
(* The invariant                                                           *)

\* Those whose credit is counted in a month.
Charged(p) == {a \in Askers : charged[a] = p}

\* Those who found a day's budget spent and have still to undo their request.
Over(d) == {a \in Askers : ask[a].step = "over" /\ ask[a].day = d}

\* The counter is the number of those charged in its month; whoever is done was
\* charged, in this month or an earlier one; a reply is stored by the holder of
\* the row.
Ledger ==
    /\ org.used = Cardinality(Charged(org.period))
    /\ \A a \in Askers : /\ ask[a].step = "done" <=> charged[a] # None
                         /\ charged[a] # None => charged[a] <= org.period
                         /\ ask[a].step = "store" => a \in Sends /\ written.by = a

\* What an open transaction wrote: a new month with nothing used, or one credit
\* more than were charged, within the plan.
TxRow ==
    written # Nothing =>
        /\ org.period <= written.row.period /\ written.row.period <= month
        /\ ask[written.by].step = "store" =>
              /\ written.row.used = Cardinality(Charged(written.row.period)) + 1
              /\ written.row.used <= Limit[written.row.plan] /\ written.row.enabled
        /\ ask[written.by].step # "store" =>
              written.row.used = 0 /\ Cardinality(Charged(written.row.period)) = 0

\* A day's counter covers the requests granted and those that must still undo
\* theirs, and is beyond the granted ones only once the budget is.
DayFits(d) ==
    /\ Cardinality(Granted(d)) <= Budget
    /\ Cardinality(Granted(d)) + Cardinality(Over(d)) <= count[d]
    /\ Cardinality(Granted(d)) < count[d] => Cardinality(Granted(d)) = Budget

Budgeted ==
    /\ \A a \in Askers : ask[a].step \in {"idle", "incr", "over"} => ~ ask[a].granted
    /\ \A d \in Days : DayFits(d)

IndInv == TypeOK /\ Ledger /\ TxRow /\ Budgeted

\* Nobody's clock is ahead.
Clock == \A a \in Askers : ask[a].now <= month

-----------------------------------------------------------------------------
(* Sets of askers, rows and steps                                          *)

LEMMA Bounds ==
    LastMonth \in Nat /\ LastDay \in Nat /\ MaxChanges \in Nat /\ MaxFaults \in Nat
    /\ Budget \in Nat /\ Limit \in [Plans -> Nat]
  BY CreditsAssumption

LEMMA NoneApart == None \notin Askers /\ None \notin OrgType /\ \A n \in Nat : n # None
  BY CreditsAssumption

LEMMA AskersFinite ==
    /\ \A p : IsFiniteSet(Charged(p)) /\ Cardinality(Charged(p)) \in Nat
    /\ \A d : IsFiniteSet(Granted(d)) /\ Cardinality(Granted(d)) \in Nat
    /\ \A d : IsFiniteSet(Over(d)) /\ Cardinality(Over(d)) \in Nat
<1>1. \A S : S \subseteq Askers => IsFiniteSet(S) /\ Cardinality(S) \in Nat
  BY CreditsAssumption, FS_Subset, FS_CardinalityType
<1> QED BY <1>1 DEF Charged, Granted, Over

\* The row a sees is a row, and the one of its own transaction if it has one.
LEMMA RowType ==
    ASSUME TypeOK, NEW a \in Askers
    PROVE  /\ Row(a) \in OrgType
           /\ written = Nothing => Row(a) = org
           /\ written.by = a => written # Nothing /\ Row(a) = written.row /\ a \in Sends
  BY NoneApart DEF Row, TypeOK, Nothing, Askers

\* Going to a step changes nothing else of an asker, and nobody else.
LEMMA GotoType ==
    ASSUME TypeOK, NEW a \in Askers, NEW s \in Steps, Goto(a, s)
    PROVE  /\ ask' \in [Askers -> AskType]
           /\ ask'[a].step = s /\ ask'[a].day = ask[a].day
           /\ ask'[a].granted = ask[a].granted /\ ask'[a].seen = ask[a].seen
           /\ ask'[a].now = ask[a].now
           /\ \A b \in Askers \ {a} : ask'[b] = ask[b]
<1>1. ask'[a] = [ask[a] EXCEPT !.step = s] /\ \A b \in Askers \ {a} : ask'[b] = ask[b]
  BY DEF Goto, TypeOK
<1>2. ask[a] \in AskType
  BY DEF TypeOK
<1>3. [ask[a] EXCEPT !.step = s] \in AskType
  BY <1>2 DEF AskType, Steps
<1>4. ask' \in [Askers -> AskType]
  BY <1>1, <1>3 DEF Goto, TypeOK
<1> QED BY <1>1, <1>2, <1>4 DEF AskType

\* Whoever has begun to charge holds what it read of the organization.
LEMMA SeenType ==
    ASSUME TypeOK, NEW a \in Askers, ask[a].step \in {"reset", "charge", "refuse", "store"}
    PROVE  ask[a].seen \in OrgType
  BY DEF TypeOK, AskType

-----------------------------------------------------------------------------
(* The parts that most steps leave alone                                   *)

\* The budget: a step that grants nothing and finds it no more spent.
LEMMA BudgetKept ==
    ASSUME TypeOK, Budgeted, count' = count,
           \A b \in Askers :
              /\ ask'[b].granted = ask[b].granted
              /\ ask[b].granted => ask'[b].day = ask[b].day
              /\ ask'[b].step = "over" => ask[b].step = "over" /\ ask'[b].day = ask[b].day
              /\ ask'[b].step \in {"idle", "incr", "over"} => ~ ask[b].granted
    PROVE  Budgeted'
<1>1. \A d \in Days : Granted(d)' = Granted(d) /\ Over(d)' \subseteq Over(d)
  BY DEF Granted, Over
<1>2. \A d \in Days : Cardinality(Granted(d)') = Cardinality(Granted(d))
  BY <1>1
<1>3. \A d \in Days : Cardinality(Over(d)') <= Cardinality(Over(d))
  BY <1>1, AskersFinite, FS_Subset
<1>4. \A d \in Days : /\ Cardinality(Granted(d)) \in Nat /\ Cardinality(Over(d)) \in Nat
                      /\ Cardinality(Over(d)') \in Nat /\ count[d] \in Nat
  BY <1>1, AskersFinite, FS_Subset, FS_CardinalityType DEF TypeOK
<1>5. \A b \in Askers : ask'[b].step \in {"idle", "incr", "over"} => ~ ask'[b].granted
  OBVIOUS
<1> SUFFICES ASSUME NEW d \in Days PROVE DayFits(d)'
  BY <1>5 DEF Budgeted
<1>6. DayFits(d)
  BY DEF Budgeted
<1> QED BY <1>2, <1>3, <1>4, <1>6, Bounds DEF DayFits

\* The ledger: a step that neither charges nor stores, and leaves the rows.
LEMMA LedgerKept ==
    ASSUME TypeOK, Ledger, TxRow, UNCHANGED <<org, written, charged>>, month' \in Nat,
           month <= month',
           \A b \in Askers : \/ ask'[b].step = ask[b].step
                             \/ ask'[b].step \notin {"done", "store"} /\ ask[b].step \notin {"done", "store"}
    PROVE  Ledger' /\ TxRow'
<1>1. \A p : Charged(p)' = Charged(p)
  BY DEF Charged
<1>2. Ledger'
  BY <1>1 DEF Ledger
<1>3. ASSUME written # Nothing PROVE TxRow'
  <2>1. written.by \in Askers /\ written.row.period \in Nat /\ month \in Nat
    BY <1>3 DEF TypeOK, Askers, OrgType, Months
  <2>2. ask'[written.by].step = "store" <=> ask[written.by].step = "store"
    BY <2>1
  <2>3. \A p : Cardinality(Charged(p))' = Cardinality(Charged(p))
    BY <1>1
  <2> QED BY <1>3, <2>1, <2>2, <2>3 DEF TxRow
<1>4. CASE written = Nothing
  BY <1>2, <1>4 DEF TxRow, Nothing
<1> QED BY <1>2, <1>3, <1>4

\* The types: a step of a that leaves the rows, the clock and the thread.
LEMMA TypeKept ==
    ASSUME TypeOK, NEW a \in Askers, UNCHANGED <<month, day, org, written, thread, charged, changes, faults>>,
           ask' \in [Askers -> AskType], count' \in [Days -> Nat],
           \A b \in Askers \ {a} : ask'[b] = ask[b],
           ask'[a].step \in {"reset", "charge", "refuse", "store"} => ask'[a].seen # None,
           written.by = a => ask'[a].step \in {"charge", "refuse", "store"}
    PROVE  TypeOK'
<1>1. \A b \in Askers : ask'[b].step \in {"reset", "charge", "refuse", "store"} => ask'[b].seen # None
  BY DEF TypeOK
<1>2. written = Nothing \/ (/\ written.by \in Sends /\ written.row \in OrgType
                            /\ ask'[written.by].step \in {"charge", "refuse", "store"})
  BY DEF TypeOK, Askers
<1> QED BY <1>1, <1>2 DEF TypeOK, Nothing

\* Whoever may write finds no other transaction with the row, and nobody else
\* storing a reply.
LEMMA FreeRow ==
    ASSUME TypeOK, Ledger, NEW a \in Askers, Free(a)
    PROVE  /\ written = Nothing \/ (written.by = a /\ a \in Sends)
           /\ \A b \in Askers \ {a} : ask[b].step # "store"
<1>1. written = Nothing \/ written.by \in Sends
  BY DEF TypeOK
<1>2. written = Nothing \/ (written.by = a /\ a \in Sends)
  BY <1>1, NoneApart DEF Free, Askers
<1>3. \A b \in Askers \ {a} : ask[b].step # "store"
  BY NoneApart DEF Ledger, Free
<1> QED BY <1>2, <1>3

\* What a transaction wrote is given up.
LEMMA RolledBack ==
    ASSUME TypeOK, Ledger, TxRow, NEW a \in Askers, Rollback(a), UNCHANGED <<charged, month>>,
           \A b \in Askers \ {a} : ask'[b] = ask[b],
           ask[a].step # "done", ask'[a].step \notin {"done", "store"}
    PROVE  Ledger' /\ TxRow'
<1>1. \A p : Charged(p)' = Charged(p)
  BY DEF Charged
<1>2. Ledger'
  BY <1>1 DEF Ledger, Rollback
<1>3. CASE written.by = a
  BY <1>2, <1>3 DEF TxRow, Rollback, Nothing
<1>4. CASE written.by # a
  <2>1. written' = written /\ org' = org
    BY <1>4 DEF Rollback
  <2>2. CASE written = Nothing
    BY <1>2, <2>1, <2>2 DEF TxRow, Nothing
  <2>3. CASE written # Nothing
    <3>1. ask'[written.by] = ask[written.by]
      BY <1>4, <2>3 DEF TypeOK, Askers
    <3>2. \A p : Cardinality(Charged(p)') = Cardinality(Charged(p))
      BY <1>1
    <3> QED BY <1>2, <2>1, <2>3, <3>1, <3>2 DEF TxRow
  <2> QED BY <2>2, <2>3
<1> QED BY <1>3, <1>4

-----------------------------------------------------------------------------
(* Each step                                                               *)

LEMMA IndInvInit == Init => IndInv
<1> SUFFICES ASSUME Init PROVE IndInv
  OBVIOUS
<1> USE Bounds, NoneApart
<1>1. TypeOK
  <2>1. 0 \in Months /\ 0 \in Days /\ 0 \in 0 .. MaxChanges /\ 0 \in 0 .. MaxFaults
    BY DEF Months, Days
  <2>2. org \in OrgType /\ org.period <= month
    <3>1. org \in [plan : Plans, enabled : {TRUE}, used : {0}, period : {0}] /\ month = 0
      BY DEF Init
    <3>2. org.period = 0 /\ org.period <= month
      BY <3>1
    <3>3. org \in OrgType
      BY <2>1, <3>1, TRUE \in BOOLEAN, 0 \in Nat DEF OrgType
    <3> QED BY <3>2, <3>3
  <2>3. ask \in [Askers -> AskType]
    BY <2>1 DEF Init, AskType
  <2>4. \A a \in Askers : ask[a].step = "idle"
    BY DEF Init
  <2>5. thread \in BOOLEAN /\ written = Nothing /\ month \in Months /\ day \in Days
    BY <2>1 DEF Init
  <2>6. count \in [Days -> Nat] /\ charged \in [Askers -> Months \cup {None}]
        /\ changes \in 0 .. MaxChanges /\ faults \in 0 .. MaxFaults
    BY <2>1 DEF Init
  <2> QED BY <2>2, <2>3, <2>4, <2>5, <2>6 DEF TypeOK
<1>2. Ledger
  <2>1. Charged(org.period) = {}
    BY DEF Init, Charged
  <2>2. \A a \in Askers : charged[a] = None /\ ask[a].step = "idle"
    BY DEF Init
  <2> QED BY <2>1, <2>2, FS_EmptySet DEF Init, Ledger
<1>3. TxRow
  BY DEF Init, TxRow
<1>4. Budgeted
  <2>1. \A d \in Days : Granted(d) = {} /\ Over(d) = {}
    BY DEF Init, Granted, Over
  <2>2. \A a \in Askers : ~ ask[a].granted
    BY DEF Init
  <2>3. \A d \in Days : count[d] = 0
    BY DEF Init
  <2>4. Cardinality({}) = 0 /\ Budget \in Nat
    BY FS_EmptySet
  <2> SUFFICES ASSUME NEW d \in Days PROVE DayFits(d)
    BY <2>2 DEF Budgeted
  <2>5. Cardinality(Granted(d)) = 0 /\ Cardinality(Over(d)) = 0 /\ count[d] = 0
    BY <2>1, <2>3, <2>4
  <2> QED BY <2>4, <2>5 DEF DayFits
<1> QED BY <1>1, <1>2, <1>3, <1>4 DEF IndInv

\* The clock, the thread and the operator.
LEMMA WorldStep ==
    ASSUME IndInv, \/ NextMonth \/ NextDay \/ DeleteThread \/ UNCHANGED vars
                   \/ \E p \in Plans, on \in BOOLEAN : ChangeOrg(p, on)
    PROVE  IndInv'
<1> USE Bounds DEF IndInv
<1>1. Budgeted'
  <2>1. count' = count /\ ask' = ask
    BY DEF NextMonth, NextDay, DeleteThread, ChangeOrg, vars
  <2>2. \A b \in Askers : ask[b].step \in {"idle", "incr", "over"} => ~ ask[b].granted
    BY DEF Budgeted
  <2> QED BY <2>1, <2>2, BudgetKept
<1>2. CASE NextMonth \/ NextDay \/ DeleteThread \/ UNCHANGED vars
  <2>1. UNCHANGED <<org, written, charged, ask, count, changes, faults>>
    BY <1>2 DEF NextMonth, NextDay, DeleteThread, vars
  <2>2. month' \in Months /\ month <= month' /\ day' \in Days /\ thread' \in BOOLEAN
    <3>1. month \in Months /\ day \in Days /\ thread \in BOOLEAN
      BY DEF TypeOK
    <3>2. /\ month' = month \/ (month < LastMonth /\ month' = month + 1)
          /\ day' = day \/ (day < LastDay /\ day' = day + 1)
          /\ thread' = thread \/ thread' = FALSE
      BY <1>2 DEF NextMonth, NextDay, DeleteThread, vars
    <3>3. month' \in Months /\ month <= month' /\ day' \in Days
      BY <3>1, <3>2 DEF Months, Days
    <3>4. thread' \in BOOLEAN
      BY <3>1, <3>2, Zenon
    <3> QED BY <3>3, <3>4
  <2>3. org.period \in Nat /\ month \in Nat /\ month' \in Nat
    BY <2>2 DEF TypeOK, OrgType, Months
  <2>4. org'.period <= month'
    BY <2>1, <2>2, <2>3 DEF TypeOK
  <2>5. TypeOK'
    BY <2>1, <2>2, <2>4 DEF TypeOK, Nothing
  <2>6. Ledger' /\ TxRow'
    BY <2>1, <2>2, <2>3, LedgerKept
  <2> QED BY <1>1, <2>5, <2>6
<1>3. ASSUME NEW p \in Plans, NEW on \in BOOLEAN, ChangeOrg(p, on) PROVE IndInv'
  <2>1. /\ org' \in OrgType /\ org'.used = org.used /\ org'.period = org.period
        /\ written = Nothing /\ UNCHANGED <<month, day, written, count, thread, ask, charged, faults>>
    BY <1>3 DEF ChangeOrg, TypeOK, OrgType
  <2>2. changes' \in 0 .. MaxChanges
    <3>1. changes \in 0 .. MaxChanges
      BY DEF TypeOK
    <3>2. changes < MaxChanges /\ changes' = changes + 1
      BY <1>3 DEF ChangeOrg
    <3> QED BY <3>1, <3>2
  <2>3. TypeOK'
    BY <2>1, <2>2 DEF TypeOK, Nothing
  <2>4. Charged(org.period)' = Charged(org.period)
    BY <2>1 DEF Charged
  <2>5. Ledger'
    BY <2>1, <2>4 DEF Ledger
  <2>6. TxRow'
    BY <2>1 DEF TxRow, Nothing
  <2> QED BY <1>1, <2>3, <2>5, <2>6
<1> QED BY <1>2, <1>3

\* tryConsume: the day is read once, and its counter moved by one.
LEMMA BeginStep == ASSUME IndInv, NEW a \in Askers, Begin(a) PROVE IndInv'
<1> USE DEF IndInv
<1>1. /\ ask[a].step = "idle" /\ ask' = [ask EXCEPT ![a].step = "incr", ![a].day = day]
      /\ UNCHANGED <<month, day, org, written, count, thread, charged, changes, faults>>
  BY DEF Begin
<1>2. ask'[a] = [ask[a] EXCEPT !.step = "incr", !.day = day] /\ \A b \in Askers \ {a} : ask'[b] = ask[b]
  BY <1>1 DEF TypeOK
<1>3. ask[a] \in AskType /\ day \in Days
  BY DEF TypeOK
<1>4. ask'[a] \in AskType
  BY <1>2, <1>3 DEF AskType
<1>5. ask' \in [Askers -> AskType]
  BY <1>1, <1>2, <1>4 DEF TypeOK
<1>6. ask'[a].step = "incr" /\ ask'[a].granted = ask[a].granted /\ ~ ask[a].granted
  <2>1. ask'[a].step = "incr" /\ ask'[a].granted = ask[a].granted
    BY <1>2, <1>3 DEF AskType
  <2>2. ~ ask[a].granted
    BY <1>1 DEF Budgeted
  <2> QED BY <2>1, <2>2
<1>7. TypeOK'
  <2>1. written.by # a
    BY <1>1, NoneApart DEF TypeOK, Nothing
  <2>2. count' \in [Days -> Nat]
    BY <1>1 DEF TypeOK
  <2> QED BY <1>1, <1>2, <1>5, <1>6, <2>1, <2>2, TypeKept
<1>8. Ledger' /\ TxRow'
  <2>1. month' \in Nat /\ month <= month'
    <3>1. month \in Nat /\ month' = month
      BY <1>1 DEF TypeOK, Months
    <3> QED BY <3>1
  <2>2. \A b \in Askers : \/ ask'[b].step = ask[b].step
                          \/ ask'[b].step \notin {"done", "store"} /\ ask[b].step \notin {"done", "store"}
    BY <1>1, <1>2, <1>6
  <2> QED BY <1>1, <2>1, <2>2, LedgerKept
<1>9. Budgeted'
  <2>1. \A b \in Askers : ask[b].step \in {"idle", "incr", "over"} => ~ ask[b].granted
    BY DEF Budgeted
  <2> QED BY <1>1, <1>2, <1>6, <2>1, BudgetKept
<1> QED BY <1>7, <1>8, <1>9

LEMMA IncrStep == ASSUME IndInv, NEW a \in Askers, Incr(a) PROVE IndInv'
<1> USE DEF IndInv
<1>0. ask[a].day \in Days
  BY DEF TypeOK, AskType
<1> SUFFICES ASSUME NEW d \in Days, d = ask[a].day PROVE IndInv'
  BY <1>0
<1>1. /\ ask[a].step = "incr" /\ count' = [count EXCEPT ![d] = @ + 1]
      /\ UNCHANGED <<month, day, org, written, thread, charged, changes, faults>>
  BY DEF Incr
<1>2. ask[a] \in AskType /\ d \in Days /\ count[d] \in Nat /\ ~ ask[a].granted
  BY <1>1 DEF TypeOK, AskType, Budgeted
<1>3. count' \in [Days -> Nat] /\ count'[d] = count[d] + 1
      /\ \A e \in Days \ {d} : count'[e] = count[e]
  BY <1>1, <1>2 DEF TypeOK
<1>4. \/ ask' = [ask EXCEPT ![a].step = "over"] /\ count[d] + 1 > Budget
      \/ ask' = [ask EXCEPT ![a].step = "asking", ![a].granted = TRUE] /\ count[d] + 1 <= Budget
  BY <1>2, <1>3, Bounds DEF Incr
<1>5. \A b \in Askers \ {a} : ask'[b] = ask[b]
  BY <1>4 DEF TypeOK
<1>6. ask'[a].day = d /\ \/ ask'[a].step = "over" /\ ~ ask'[a].granted /\ count[d] + 1 > Budget
                         \/ ask'[a].step = "asking" /\ ask'[a].granted /\ count[d] + 1 <= Budget
  BY <1>2, <1>4 DEF TypeOK, AskType
<1>7. ask' \in [Askers -> AskType]
  <2>1. ask'[a] = [ask[a] EXCEPT !.step = "over"]
        \/ ask'[a] = [ask[a] EXCEPT !.step = "asking", !.granted = TRUE]
    BY <1>4 DEF TypeOK
  <2>2. ask'[a] \in AskType
    BY <1>2, <2>1 DEF AskType
  <2> QED BY <1>4, <1>5, <2>2 DEF TypeOK
<1>8. TypeOK'
  <2>1. written.by # a
    BY <1>1, NoneApart DEF TypeOK, Nothing
  <2> QED BY <1>1, <1>3, <1>5, <1>6, <1>7, <2>1, TypeKept
<1>9. Ledger' /\ TxRow'
  <2>1. month' \in Nat /\ month <= month'
    <3>1. month \in Nat /\ month' = month
      BY <1>1 DEF TypeOK, Months
    <3> QED BY <3>1
  <2>2. \A b \in Askers : \/ ask'[b].step = ask[b].step
                          \/ ask'[b].step \notin {"done", "store"} /\ ask[b].step \notin {"done", "store"}
    BY <1>1, <1>5, <1>6
  <2> QED BY <1>1, <2>1, <2>2, LedgerKept
<1>10. Budgeted'
  <2>1. \A b \in Askers : ask'[b].step \in {"idle", "incr", "over"} => ~ ask'[b].granted
    BY <1>5, <1>6 DEF Budgeted
  <2>2. \A e \in Days \ {d} : Granted(e)' = Granted(e) /\ Over(e)' = Over(e)
    BY <1>1, <1>5, <1>6 DEF Granted, Over
  <2>3. a \notin Granted(d) /\ a \notin Over(d)
    BY <1>1, <1>2 DEF Granted, Over
  <2>4. \/ Granted(d)' = Granted(d) /\ Over(d)' = Over(d) \cup {a} /\ count[d] + 1 > Budget
        \/ Granted(d)' = Granted(d) \cup {a} /\ Over(d)' = Over(d) /\ count[d] + 1 <= Budget
    BY <1>1, <1>2, <1>5, <1>6 DEF Granted, Over
  <2>5. DayFits(d)
    BY <1>2 DEF Budgeted
  <2>6. Cardinality(Granted(d)) \in Nat /\ Cardinality(Over(d)) \in Nat
    BY AskersFinite
  <2>7. /\ Cardinality(Granted(d) \cup {a}) = Cardinality(Granted(d)) + 1
        /\ Cardinality(Over(d) \cup {a}) = Cardinality(Over(d)) + 1
    BY <2>3, AskersFinite, FS_AddElement
  <2>8. count'[d] = count[d] + 1 /\ count[d] \in Nat /\ Budget \in Nat
    BY <1>2, <1>3, Bounds
  <2>9. ASSUME Granted(d)' = Granted(d), Over(d)' = Over(d) \cup {a}, count[d] + 1 > Budget
        PROVE  DayFits(d)'
    <3>1. /\ Cardinality(Granted(d)') = Cardinality(Granted(d))
          /\ Cardinality(Over(d)') = Cardinality(Over(d)) + 1
      BY <2>7, <2>9
    <3> QED BY <3>1, <2>5, <2>6, <2>8, <2>9 DEF DayFits
  <2>10. ASSUME Granted(d)' = Granted(d) \cup {a}, Over(d)' = Over(d), count[d] + 1 <= Budget
         PROVE  DayFits(d)'
    <3>1. /\ Cardinality(Granted(d)') = Cardinality(Granted(d)) + 1
          /\ Cardinality(Over(d)') = Cardinality(Over(d))
      BY <2>7, <2>10
    <3> QED BY <3>1, <2>5, <2>6, <2>8, <2>10 DEF DayFits
  <2>11. \A e \in Days \ {d} : DayFits(e)'
    BY <1>3, <2>2 DEF Budgeted, DayFits
  <2>12. \A e \in Days : DayFits(e)'
    BY <2>4, <2>9, <2>10, <2>11
  <2> QED BY <2>1, <2>12 DEF Budgeted
<1> QED BY <1>8, <1>9, <1>10

LEMMA DecrStep == ASSUME IndInv, NEW a \in Askers, Decr(a) PROVE IndInv'
<1> USE DEF IndInv
<1>0. ask[a].day \in Days
  BY DEF TypeOK, AskType
<1> SUFFICES ASSUME NEW d \in Days, d = ask[a].day PROVE IndInv'
  BY <1>0
<1>1. /\ ask[a].step = "over" /\ count' = [count EXCEPT ![d] = @ - 1] /\ Goto(a, "quota-exhausted")
      /\ UNCHANGED <<month, day, org, written, thread, charged, changes, faults>>
  BY DEF Decr, BudgetKey
<1>2. ask[a] \in AskType /\ d \in Days /\ count[d] \in Nat
  BY DEF TypeOK, AskType
<1>3. /\ ask' \in [Askers -> AskType]
      /\ ask'[a].step = "quota-exhausted" /\ ask'[a].day = d /\ ask'[a].granted = ask[a].granted
      /\ \A b \in Askers \ {a} : ask'[b] = ask[b]
  BY <1>1, GotoType DEF Steps, Final
<1>4. DayFits(d)
  BY <1>2 DEF Budgeted
<1>5. a \in Over(d) /\ Over(d)' = Over(d) \ {a} /\ Granted(d)' = Granted(d)
      /\ \A e \in Days \ {d} : Granted(e)' = Granted(e) /\ Over(e)' = Over(e)
  BY <1>1, <1>3 DEF Over, Granted
<1>6. /\ Cardinality(Over(d)') = Cardinality(Over(d)) - 1
      /\ Cardinality(Over(d)') \in Nat /\ Cardinality(Granted(d)) \in Nat /\ Cardinality(Over(d)) \in Nat
  BY <1>5, AskersFinite, FS_RemoveElement, FS_CardinalityType
<1>7. count[d] - 1 \in Nat
  BY <1>2, <1>4, <1>6 DEF DayFits
<1>8. count' \in [Days -> Nat] /\ count'[d] = count[d] - 1
      /\ \A e \in Days \ {d} : count'[e] = count[e]
  BY <1>1, <1>2, <1>7 DEF TypeOK
<1>9. TypeOK'
  <2>1. written.by # a
    BY <1>1, NoneApart DEF TypeOK, Nothing
  <2> QED BY <1>1, <1>3, <1>8, <2>1, TypeKept
<1>10. Ledger' /\ TxRow'
  <2>1. month' \in Nat /\ month <= month'
    <3>1. month \in Nat /\ month' = month
      BY <1>1 DEF TypeOK, Months
    <3> QED BY <3>1
  <2>2. \A b \in Askers : \/ ask'[b].step = ask[b].step
                          \/ ask'[b].step \notin {"done", "store"} /\ ask[b].step \notin {"done", "store"}
    BY <1>1, <1>3
  <2> QED BY <1>1, <2>1, <2>2, LedgerKept
<1>11. Budgeted'
  <2>1. \A b \in Askers : ask'[b].step \in {"idle", "incr", "over"} => ~ ask'[b].granted
    BY <1>3 DEF Budgeted
  <2>2. DayFits(d)'
    BY <1>2, <1>4, <1>5, <1>6, <1>8, Bounds DEF DayFits
  <2>3. \A e \in Days \ {d} : DayFits(e)'
    BY <1>5, <1>8 DEF Budgeted, DayFits
  <2>4. \A e \in Days : DayFits(e)'
    BY <2>2, <2>3
  <2> QED BY <2>1, <2>4 DEF Budgeted
<1> QED BY <1>9, <1>10, <1>11

\* The fields of a row, and of the rows that spendCredit writes.
LEMMA OrgFields ==
    ASSUME NEW r \in OrgType
    PROVE  r.used \in Nat /\ r.period \in Months /\ r.period \in Nat /\ Limit[r.plan] \in Nat
  BY Bounds DEF OrgType, Months

LEMMA NewMonthRow ==
    ASSUME NEW r \in OrgType, NEW m \in Months, NEW q, q = [r EXCEPT !.used = 0, !.period = m]
    PROVE  q \in OrgType /\ q.used = 0 /\ q.period = m
  BY DEF OrgType

LEMMA OneMoreRow ==
    ASSUME NEW r \in OrgType, NEW q, q = [r EXCEPT !.used = @ + 1]
    PROVE  /\ q \in OrgType /\ q.used = r.used + 1 /\ q.period = r.period
           /\ q.plan = r.plan /\ q.enabled = r.enabled
<1>1. r.used + 1 \in Nat
  BY OrgFields
<1> QED BY <1>1 DEF OrgType

\* The budget, where an asker goes on.
LEMMA GotoBudget ==
    ASSUME TypeOK, Budgeted, count' = count, NEW a \in Askers,
           NEW s \in Steps \ {"idle", "incr", "over"}, Goto(a, s)
    PROVE  Budgeted'
<1>1. /\ ask'[a].step = s /\ ask'[a].day = ask[a].day /\ ask'[a].granted = ask[a].granted
      /\ \A b \in Askers \ {a} : ask'[b] = ask[b]
  BY GotoType
<1>2. \A b \in Askers : ask[b].step \in {"idle", "incr", "over"} => ~ ask[b].granted
  BY DEF Budgeted
<1> QED BY <1>1, <1>2, BudgetKept

\* The model answers or does not, or nothing was left to charge.
LEMMA MoveStep == ASSUME IndInv, NEW a \in Askers, Answer(a) \/ NoAnswer(a) \/ NotCharged(a) PROVE IndInv'
<1> USE DEF IndInv
<1>1. UNCHANGED <<month, day, org, written, count, thread, charged, changes, faults>>
  BY DEF Answer, NoAnswer, NotCharged
<1>2. PICK s \in {"read", "unanswered", "refuse"} :
        Goto(a, s) /\ IF s = "refuse" THEN ask[a].step = "charge" ELSE ask[a].step = "asking"
  BY DEF Answer, NoAnswer, NotCharged
<1>3. s \in Steps \ {"idle", "incr", "over"}
  BY DEF Steps, Final
<1>4. /\ ask' \in [Askers -> AskType]
      /\ ask'[a].step = s /\ ask'[a].seen = ask[a].seen
      /\ \A b \in Askers \ {a} : ask'[b] = ask[b]
  BY <1>2, <1>3, GotoType
<1>5. TypeOK'
  <2>1. ask'[a].step \in {"reset", "charge", "refuse", "store"} => ask'[a].seen # None
    BY <1>2, <1>4 DEF TypeOK
  <2>2. written.by = a => ask'[a].step \in {"charge", "refuse", "store"}
    BY <1>2, <1>4, NoneApart DEF TypeOK, Nothing
  <2>3. count' \in [Days -> Nat]
    BY <1>1 DEF TypeOK
  <2> QED BY <1>1, <1>4, <2>1, <2>2, <2>3, TypeKept
<1>6. Ledger' /\ TxRow'
  <2>1. month' \in Nat /\ month <= month'
    <3>1. month \in Nat /\ month' = month
      BY <1>1 DEF TypeOK, Months
    <3> QED BY <3>1
  <2>2. \A b \in Askers : \/ ask'[b].step = ask[b].step
                          \/ ask'[b].step \notin {"done", "store"} /\ ask[b].step \notin {"done", "store"}
    BY <1>2, <1>4
  <2> QED BY <1>1, <2>1, <2>2, LedgerKept
<1>7. Budgeted'
  BY <1>1, <1>2, <1>3, GotoBudget
<1> QED BY <1>5, <1>6, <1>7

LEMMA ReadStep == ASSUME IndInv, NEW a \in Askers, ReadOrg(a) PROVE IndInv'
<1> USE DEF IndInv
<1>1. /\ ask[a].step = "read"
      /\ UNCHANGED <<month, day, org, written, count, thread, charged, changes, faults>>
  BY DEF ReadOrg
<1>2. PICK s \in {"reset", "not-enabled"} : ask' = [ask EXCEPT ![a].seen = org, ![a].now = month, ![a].step = s]
  BY DEF ReadOrg
<1>3. ask'[a] = [ask[a] EXCEPT !.seen = org, !.now = month, !.step = s] /\ \A b \in Askers \ {a} : ask'[b] = ask[b]
  BY <1>2 DEF TypeOK
<1>4. ask[a] \in AskType /\ org \in OrgType /\ month \in Months
  BY DEF TypeOK
<1>5. ask'[a] \in AskType
  BY <1>3, <1>4 DEF AskType, Final
<1>6. /\ ask'[a].step = s /\ ask'[a].seen = org /\ ask'[a].day = ask[a].day
      /\ ask'[a].granted = ask[a].granted
  BY <1>3, <1>4 DEF AskType
<1>7. ask' \in [Askers -> AskType]
  BY <1>2, <1>3, <1>5 DEF TypeOK
<1>8. TypeOK'
  <2>1. written.by # a
    BY <1>1, NoneApart DEF TypeOK, Nothing
  <2>2. count' \in [Days -> Nat]
    BY <1>1 DEF TypeOK
  <2>3. ask'[a].seen # None
    BY <1>4, <1>6, NoneApart
  <2> QED BY <1>1, <1>3, <1>7, <2>1, <2>2, <2>3, TypeKept
<1>9. Ledger' /\ TxRow'
  <2>1. month' \in Nat /\ month <= month'
    <3>1. month \in Nat /\ month' = month
      BY <1>1 DEF TypeOK, Months
    <3> QED BY <3>1
  <2>2. \A b \in Askers : \/ ask'[b].step = ask[b].step
                          \/ ask'[b].step \notin {"done", "store"} /\ ask[b].step \notin {"done", "store"}
    BY <1>1, <1>3, <1>6
  <2> QED BY <1>1, <2>1, <2>2, LedgerKept
<1>10. Budgeted'
  <2>1. \A b \in Askers : ask[b].step \in {"idle", "incr", "over"} => ~ ask[b].granted
    BY DEF Budgeted
  <2> QED BY <1>1, <1>3, <1>6, <2>1, BudgetKept
<1> QED BY <1>8, <1>9, <1>10

\* A new month is opened once: whoever waited finds it open.
LEMMA ResetStep == ASSUME IndInv, Clock, NEW a \in Askers, ResetMonth(a) PROVE IndInv'
<1> USE DEF IndInv
<1>1. /\ ask[a].step = "reset" /\ (Resets(a) => Free(a))
      /\ UNCHANGED <<month, day, count, thread, charged, changes, faults>>
  BY DEF ResetMonth
<1>2. PICK s \in {"refuse", "charge"} : Goto(a, s)
  BY DEF ResetMonth
<1>3. s \in Steps \ {"idle", "incr", "over"}
  BY DEF Steps, Final
<1>4. /\ ask' \in [Askers -> AskType]
      /\ ask'[a].step = s /\ ask'[a].seen = ask[a].seen
      /\ \A b \in Askers \ {a} : ask'[b] = ask[b]
  BY <1>2, <1>3, GotoType
<1>5. ask'[a].seen # None /\ written.by # a
  BY <1>1, <1>4, NoneApart DEF TypeOK, Nothing
<1>6. Budgeted'
  BY <1>1, <1>2, <1>3, GotoBudget
<1>7. count' \in [Days -> Nat] /\ month \in Nat /\ month \in Months /\ month' = month
  BY <1>1 DEF TypeOK, Months
<1>10. ask[a].now \in Months /\ ask[a].now \in Nat /\ ask[a].now <= month
  BY DEF TypeOK, AskType, Months, Clock
<1>8. CASE ~ Resets(a)
  <2>1. UNCHANGED <<org, written>>
    BY <1>8 DEF ResetMonth
  <2>2. TypeOK'
    BY <1>1, <1>4, <1>5, <1>7, <2>1, TypeKept
  <2>3. month' \in Nat /\ month <= month'
    BY <1>7
  <2>4. \A b \in Askers : \/ ask'[b].step = ask[b].step
                          \/ ask'[b].step \notin {"done", "store"} /\ ask[b].step \notin {"done", "store"}
    BY <1>1, <1>2, <1>4
  <2>5. Ledger' /\ TxRow'
    BY <1>1, <2>1, <2>3, <2>4, LedgerKept
  <2> QED BY <1>6, <2>2, <2>5
<1>9. CASE Resets(a)
  <2>0. PICK m \in Months : m = ask[a].now
    BY <1>10
  <2>1. written = Nothing /\ Row(a) = org /\ org \in OrgType /\ org.period < m
    BY <1>1, <1>5, <1>9, <2>0, FreeRow, RowType DEF Resets, TypeOK
  <2> DEFINE q == [org EXCEPT !.used = 0, !.period = m]
  <2>2. q \in OrgType /\ q.used = 0 /\ q.period = m
    BY <2>1, NewMonthRow
  <2>3. Write(a, q)
    BY <1>9, <2>0, <2>1 DEF ResetMonth
  <2>4. \A p : Charged(p)' = Charged(p)
    BY <1>1 DEF Charged
  <2>5. \A b \in Askers : charged[b] # None => charged[b] <= org.period /\ charged[b] \in Nat
    BY DEF Ledger, TypeOK, Months
  <2>6. org.period \in Nat
    BY <2>1, OrgFields
  <2>7. Charged(m) = {}
    BY <1>10, <2>0, <2>1, <2>5, <2>6, NoneApart DEF Charged
  <2>8. \A p : p = m => Cardinality(Charged(p)') = 0
    BY <2>4, <2>7, FS_EmptySet
  <2>9. \A b \in Askers : /\ ask'[b].step = "done" <=> charged'[b] # None
                          /\ ask'[b].step # "store"
    BY <1>1, <1>2, <1>4, FreeRow, <1>9 DEF Ledger
  <2>10. \A b \in Askers : ask'[b].step \in {"reset", "charge", "refuse", "store"} => ask'[b].seen # None
    BY <1>4, <1>5 DEF TypeOK
  <2>11. UNCHANGED <<day, thread, changes, faults>> /\ charged' = charged
    BY <1>1
  <2>12. CASE a \in Sends
    <3>1. written' = [by |-> a, row |-> q] /\ org' = org
      BY <2>3, <2>12 DEF Write, InTx
    <3>2. written'.by = a /\ written'.row = q
      BY <3>1
    <3>3. TypeOK'
      BY <1>2, <1>4, <1>7, <2>1, <2>2, <2>10, <2>11, <2>12, <3>1, <3>2 DEF TypeOK
    <3>4. Ledger'
      BY <2>4, <2>9, <2>11, <3>1 DEF Ledger
    <3>5. org'.period <= q.period /\ q.period <= month'
      BY <1>7, <1>10, <2>0, <2>1, <2>2, <2>6, <3>1
    <3>6. TxRow'
      BY <1>2, <1>4, <1>7, <2>2, <2>8, <3>2, <3>5 DEF TxRow
    <3> QED BY <1>6, <3>3, <3>4, <3>6
  <2>13. CASE a \notin Sends
    <3>1. org' = q /\ written' = Nothing
      BY <2>1, <2>3, <2>13 DEF Write, InTx
    <3>2. org'.period <= month'
      BY <1>7, <1>10, <2>0, <2>2, <3>1
    <3>3. TypeOK'
      BY <1>4, <1>7, <2>2, <2>10, <2>11, <3>1, <3>2 DEF TypeOK, Nothing
    <3>4. \A b \in Askers : charged'[b] # None => charged'[b] <= org'.period
      BY <1>10, <2>0, <2>1, <2>2, <2>5, <2>6, <2>11, <3>1
    <3>5. org'.used = 0 /\ org'.period = m
      BY <2>2, <3>1
    <3>6. (org.used = Cardinality(Charged(org.period)))'
      BY <2>8, <3>5 DEF Charged
    <3>7. Ledger'
      BY <2>9, <3>4, <3>6 DEF Ledger
    <3>8. TxRow'
      BY <3>1 DEF TxRow, Nothing
    <3> QED BY <1>6, <3>3, <3>7, <3>8
  <2> QED BY <2>12, <2>13
<1> QED BY <1>8, <1>9

\* A row with credits left: it counts those charged in its month, and there is
\* room for one more under the plan it has.
LEMMA ChargeRow ==
    ASSUME IndInv, NEW a \in Askers, Charges(a), Free(a), ask[a].step = "charge"
    PROVE  /\ Row(a) \in OrgType /\ Row(a).enabled
           /\ Row(a).used = Cardinality(Charged(Row(a).period))
           /\ Row(a).used + 1 <= Limit[Row(a).plan]
           /\ org.period <= Row(a).period /\ Row(a).period <= month
<1> USE DEF IndInv
<1>1. Row(a) \in OrgType
  BY RowType
<1>2. Row(a).enabled /\ Row(a).plan = ask[a].seen.plan /\ Row(a).used < Limit[Row(a).plan]
  BY DEF Charges
<1>3. Row(a).used \in Nat /\ Limit[Row(a).plan] \in Nat
  BY <1>1, OrgFields
<1>4. Row(a).used + 1 <= Limit[Row(a).plan]
  <2>1. Row(a).used < Limit[Row(a).plan]
    BY <1>2
  <2> QED BY <1>3, <2>1
<1>5. CASE written = Nothing
  <2>1. Row(a) = org /\ org.period <= month /\ org.used = Cardinality(Charged(org.period))
    BY <1>5, RowType DEF TypeOK, Ledger
  <2>2. org.period \in Nat
    BY <1>1, <2>1, OrgFields
  <2> QED BY <1>1, <1>2, <1>4, <2>1, <2>2
<1>6. CASE written.by = a
  <2>1. Row(a) = written.row /\ written # Nothing
    BY <1>6, RowType
  <2>2. org.period <= written.row.period /\ written.row.period <= month
    BY <2>1 DEF TxRow
  <2>3. written.row.used = 0 /\ Cardinality(Charged(written.row.period)) = 0
    BY <1>6, <2>1 DEF TxRow
  <2> QED BY <1>1, <1>2, <1>4, <2>1, <2>2, <2>3
<1> QED BY <1>5, <1>6, FreeRow

\* One more is charged.
LEMMA OneMore ==
    ASSUME NEW a \in Askers, NEW p \in Months, charged[a] = None, charged \in [Askers -> Months \cup {None}],
           charged' = [charged EXCEPT ![a] = p]
    PROVE  /\ charged' \in [Askers -> Months \cup {None}]
           /\ charged'[a] = p /\ \A b \in Askers \ {a} : charged'[b] = charged[b]
           /\ Cardinality(Charged(p)') = Cardinality(Charged(p)) + 1
<1>1. /\ charged' \in [Askers -> Months \cup {None}]
      /\ charged'[a] = p /\ \A b \in Askers \ {a} : charged'[b] = charged[b]
  OBVIOUS
<1>2. p # None
  BY NoneApart DEF Months
<1>3. Charged(p)' = Charged(p) \cup {a} /\ a \notin Charged(p)
  BY <1>1, <1>2 DEF Charged
<1>4. Cardinality(Charged(p)') = Cardinality(Charged(p)) + 1
  BY <1>3, AskersFinite, FS_AddElement
<1> QED BY <1>1, <1>4

LEMMA ChargeStep == ASSUME IndInv, NEW a \in Askers, Charge(a) PROVE IndInv'
<1> USE DEF IndInv
<1>1. /\ ask[a].step = "charge" /\ Charges(a) /\ Free(a)
      /\ UNCHANGED <<month, day, count, thread, changes, faults>>
  BY DEF Charge
<1> DEFINE r == Row(a)
           q == [Row(a) EXCEPT !.used = @ + 1]
<1>2. /\ r \in OrgType /\ r.enabled /\ r.used = Cardinality(Charged(r.period))
      /\ r.used + 1 <= Limit[r.plan] /\ org.period <= r.period /\ r.period <= month
  BY <1>1, ChargeRow
<1>3. q \in OrgType /\ q.used = r.used + 1 /\ q.period = r.period /\ q.plan = r.plan /\ q.enabled = r.enabled
  BY <1>2, OneMoreRow
<1>4. \A b \in Askers \ {a} : ask[b].step # "store"
  BY <1>1, FreeRow
<1>5. org \in OrgType /\ org.period \in Nat /\ r.period \in Months /\ r.period \in Nat /\ month \in Nat
      /\ month \in Months
  BY <1>2, OrgFields DEF TypeOK, Months
<1>6. charged[a] = None
  BY <1>1 DEF Ledger
<1>7. ask[a].seen # None
  BY <1>1 DEF TypeOK
<1>8. CASE a \in Sends
  <2>1. /\ written' = [by |-> a, row |-> q] /\ org' = org /\ charged' = charged
        /\ Goto(a, "store")
    BY <1>8 DEF Charge, Write, InTx
  <2>2. "store" \in Steps \ {"idle", "incr", "over"}
    BY DEF Steps
  <2>3. /\ ask' \in [Askers -> AskType]
        /\ ask'[a].step = "store" /\ ask'[a].seen = ask[a].seen
        /\ \A b \in Askers \ {a} : ask'[b] = ask[b]
    BY <2>1, <2>2, GotoType
  <2>4. Budgeted'
    BY <1>1, <2>1, <2>2, GotoBudget
  <2>5. \A p : Charged(p)' = Charged(p)
    BY <2>1 DEF Charged
  <2>6. written'.by = a /\ written'.row = q
    BY <2>1
  <2>7. \A b \in Askers : ask'[b].step \in {"reset", "charge", "refuse", "store"} => ask'[b].seen # None
    BY <1>7, <2>3 DEF TypeOK
  <2>8. TypeOK'
    BY <1>1, <1>3, <1>8, <2>1, <2>3, <2>6, <2>7 DEF TypeOK
  <2>9. Ledger'
    BY <1>1, <1>4, <1>6, <1>8, <2>1, <2>3, <2>5, <2>6 DEF Ledger
  <2>10. org'.period <= q.period /\ q.period <= month'
    BY <1>1, <1>2, <1>3, <2>1
  <2>11. q.used = Cardinality(Charged(q.period)) + 1 /\ q.used <= Limit[q.plan]
    BY <1>2, <1>3
  <2>12. q.enabled
    BY <1>2, <1>3
  <2>13. TxRow'
    BY <2>1, <2>3, <2>6, <2>10, <2>11, <2>12 DEF TxRow, Charged
  <2> QED BY <2>4, <2>8, <2>9, <2>13
<1>9. CASE a \notin Sends
  <2>1. /\ written = Nothing /\ r = org
    BY <1>1, <1>9, FreeRow, RowType
  <2>2. /\ org' = q /\ written' = Nothing /\ charged' = [charged EXCEPT ![a] = org.period]
        /\ Goto(a, "done")
    BY <1>9, <2>1 DEF Charge, Write, InTx
  <2>3. "done" \in Steps \ {"idle", "incr", "over"}
    BY DEF Steps, Final
  <2>4. /\ ask' \in [Askers -> AskType]
        /\ ask'[a].step = "done"
        /\ \A b \in Askers \ {a} : ask'[b] = ask[b]
    BY <2>2, <2>3, GotoType
  <2>5. Budgeted'
    BY <1>1, <2>2, <2>3, GotoBudget
  <2>6. PICK p \in Months : p = org.period
    BY <1>5, <2>1
  <2>7. /\ charged' \in [Askers -> Months \cup {None}]
        /\ charged'[a] = p /\ \A b \in Askers \ {a} : charged'[b] = charged[b]
        /\ Cardinality(Charged(p)') = Cardinality(Charged(p)) + 1
    BY <1>6, <2>2, <2>6, OneMore DEF TypeOK
  <2>8. org'.period = p /\ org'.used = Cardinality(Charged(p)) + 1
    BY <1>2, <1>3, <2>1, <2>2, <2>6
  <2>9. org'.period <= month'
    BY <1>1, <1>2, <1>3, <2>2
  <2>10. \A b \in Askers : ask'[b].step \in {"reset", "charge", "refuse", "store"} => ask'[b].seen # None
    BY <2>4 DEF TypeOK
  <2>11. TypeOK'
    BY <1>1, <1>3, <2>2, <2>4, <2>7, <2>9, <2>10 DEF TypeOK, Nothing
  <2>12. p # None /\ p <= p
    BY NoneApart DEF Months
  <2>13. Ledger'
    <3>1. (org.used = Cardinality(Charged(org.period)))'
      BY <2>7, <2>8 DEF Charged
    <3>2. \A b \in Askers : /\ ask'[b].step = "done" <=> charged'[b] # None
                            /\ ask'[b].step # "store"
      BY <1>4, <2>4, <2>7, <2>12 DEF Ledger
    <3>3. \A b \in Askers : charged'[b] # None => charged'[b] <= org'.period
      BY <2>6, <2>7, <2>8, <2>12 DEF Ledger
    <3> QED BY <3>1, <3>2, <3>3 DEF Ledger
  <2>14. TxRow'
    BY <2>2 DEF TxRow, Nothing
  <2> QED BY <2>5, <2>11, <2>13, <2>14
<1> QED BY <1>8, <1>9

\* A refusal leaves the month that was opened, and no credit.
LEMMA RefuseStep == ASSUME IndInv, NEW a \in Askers, Refuse(a) PROVE IndInv'
<1> USE DEF IndInv
<1>1. /\ ask[a].step = "refuse" /\ Commit(a) /\ Goto(a, "not-enabled")
      /\ UNCHANGED <<month, day, count, thread, charged, changes, faults>>
  BY DEF Refuse
<1>2. "not-enabled" \in Steps \ {"idle", "incr", "over"}
  BY DEF Steps, Final
<1>3. /\ ask' \in [Askers -> AskType]
      /\ ask'[a].step = "not-enabled"
      /\ \A b \in Askers \ {a} : ask'[b] = ask[b]
  BY <1>1, <1>2, GotoType
<1>4. Budgeted'
  BY <1>1, <1>2, GotoBudget
<1>5. CASE written.by # a
  <2>1. UNCHANGED <<org, written>>
    BY <1>1, <1>5 DEF Commit
  <2>2. month' \in Nat /\ month <= month'
    <3>1. month \in Nat /\ month' = month
      BY <1>1 DEF TypeOK, Months
    <3> QED BY <3>1
  <2>3. count' \in [Days -> Nat]
    BY <1>1 DEF TypeOK
  <2>4. TypeOK'
    BY <1>1, <1>3, <1>5, <2>1, <2>3, TypeKept
  <2>5. \A b \in Askers : \/ ask'[b].step = ask[b].step
                          \/ ask'[b].step \notin {"done", "store"} /\ ask[b].step \notin {"done", "store"}
    BY <1>1, <1>3
  <2>6. Ledger' /\ TxRow'
    BY <1>1, <2>1, <2>2, <2>5, LedgerKept
  <2> QED BY <1>4, <2>4, <2>6
<1>6. CASE written.by = a
  <2>1. org' = written.row /\ written' = Nothing
    BY <1>1, <1>6 DEF Commit
  <2>2. written # Nothing /\ written.row \in OrgType
    BY <1>6, RowType
  <2>3. org.period <= written.row.period /\ written.row.period <= month
    BY <2>2 DEF TxRow
  <2>4. written.row.used = 0 /\ Cardinality(Charged(written.row.period)) = 0
    BY <1>1, <1>6, <2>2 DEF TxRow
  <2>5. \A b \in Askers : ask'[b].step \in {"reset", "charge", "refuse", "store"} => ask'[b].seen # None
    BY <1>3 DEF TypeOK
  <2>6. TypeOK'
    BY <1>1, <1>3, <2>1, <2>2, <2>3, <2>5 DEF TypeOK, Nothing
  <2>7. Ledger'
    <3>1. (org.used = Cardinality(Charged(org.period)))'
      BY <1>1, <2>1, <2>4 DEF Charged
    <3>2. \A b \in Askers : /\ ask'[b].step = "done" <=> charged'[b] # None
                            /\ ask'[b].step # "store"
      BY <1>1, <1>3, <1>6, FreeRow DEF Ledger, Free
    <3>3. \A b \in Askers : charged[b] # None => charged[b] <= org.period /\ charged[b] \in Nat
      BY DEF Ledger, TypeOK, Months
    <3>4. org.period \in Nat /\ written.row.period \in Nat
      BY <2>2, OrgFields DEF TypeOK
    <3>5. \A b \in Askers : charged'[b] # None => charged'[b] <= org'.period
      BY <1>1, <2>1, <2>3, <3>3, <3>4
    <3> QED BY <3>1, <3>2, <3>5 DEF Ledger
  <2>8. TxRow'
    BY <2>1 DEF TxRow, Nothing
  <2> QED BY <1>4, <2>6, <2>7, <2>8
<1> QED BY <1>5, <1>6

\* The transaction commits: the row it holds counts its own credit.
LEMMA StoreStep == ASSUME IndInv, NEW a \in Askers, StoreReply(a) PROVE IndInv'
<1> USE DEF IndInv
<1>1. /\ ask[a].step = "store" /\ Commit(a) /\ Goto(a, "done")
      /\ UNCHANGED <<month, day, count, thread, changes, faults>>
  BY DEF StoreReply
<1>2. "done" \in Steps \ {"idle", "incr", "over"}
  BY DEF Steps, Final
<1>3. /\ ask' \in [Askers -> AskType]
      /\ ask'[a].step = "done"
      /\ \A b \in Askers \ {a} : ask'[b] = ask[b]
  BY <1>1, <1>2, GotoType
<1>4. Budgeted'
  BY <1>1, <1>2, GotoBudget
<1>5. a \in Sends /\ written.by = a /\ charged[a] = None
  BY <1>1 DEF Ledger
<1>6. /\ Row(a) = written.row /\ written # Nothing /\ written.row \in OrgType
      /\ \A b \in Askers \ {a} : ask[b].step # "store"
  BY <1>5, RowType, FreeRow DEF Free
<1>7. PICK p \in Months : p = written.row.period
  BY <1>6, OrgFields
<1>8. org' = written.row /\ written' = Nothing /\ charged' = [charged EXCEPT ![a] = p]
  BY <1>1, <1>5, <1>6, <1>7 DEF StoreReply, Commit, InTx
<1>9. /\ charged' \in [Askers -> Months \cup {None}]
      /\ charged'[a] = p /\ \A b \in Askers \ {a} : charged'[b] = charged[b]
      /\ Cardinality(Charged(p)') = Cardinality(Charged(p)) + 1
  BY <1>5, <1>8, OneMore DEF TypeOK
<1>10. org.period <= p /\ p <= month /\ written.row.used = Cardinality(Charged(p)) + 1
  BY <1>1, <1>5, <1>6, <1>7 DEF TxRow
<1>11. TypeOK'
  <2>1. \A b \in Askers : ask'[b].step \in {"reset", "charge", "refuse", "store"} => ask'[b].seen # None
    BY <1>3 DEF TypeOK
  <2>2. org'.period <= month'
    BY <1>1, <1>7, <1>8, <1>10
  <2> QED BY <1>1, <1>3, <1>6, <1>8, <1>9, <2>1, <2>2 DEF TypeOK, Nothing
<1>12. Ledger'
  <2>1. (org.used = Cardinality(Charged(org.period)))'
    BY <1>7, <1>8, <1>9, <1>10 DEF Charged
  <2>2. p # None
    BY NoneApart DEF Months
  <2>3. \A b \in Askers : /\ ask'[b].step = "done" <=> charged'[b] # None
                          /\ ask'[b].step # "store"
    BY <1>3, <1>6, <1>9, <2>2 DEF Ledger
  <2>4. \A b \in Askers : charged[b] # None => charged[b] <= org.period /\ charged[b] \in Nat
    BY DEF Ledger, TypeOK, Months
  <2>5. org.period \in Nat /\ p \in Nat
    BY OrgFields DEF TypeOK, Months
  <2>6. \A b \in Askers : charged'[b] # None => charged'[b] <= org'.period
    BY <1>7, <1>8, <1>9, <1>10, <2>4, <2>5
  <2> QED BY <2>1, <2>3, <2>6 DEF Ledger
<1>13. TxRow'
  BY <1>8 DEF TxRow, Nothing
<1> QED BY <1>4, <1>11, <1>12, <1>13

\* The thread is gone, or the call fails: the transaction takes nothing with it.
LEMMA UndoneStep == ASSUME IndInv, NEW a \in Askers, ThreadGone(a) \/ Fails(a) PROVE IndInv'
<1> USE DEF IndInv
<1>1. /\ Rollback(a) /\ Goto(a, "failed") /\ ask[a].step # "done"
      /\ UNCHANGED <<month, day, count, thread, charged, changes>>
  BY DEF ThreadGone, Fails, Final
<1>2. "failed" \in Steps \ {"idle", "incr", "over"}
  BY DEF Steps, Final
<1>3. /\ ask' \in [Askers -> AskType]
      /\ ask'[a].step = "failed"
      /\ \A b \in Askers \ {a} : ask'[b] = ask[b]
  BY <1>1, <1>2, GotoType
<1>4. Budgeted'
  BY <1>1, <1>2, GotoBudget
<1>5. Ledger' /\ TxRow'
  BY <1>1, <1>3, RolledBack
<1>6. faults' \in 0 .. MaxFaults
  <2>1. faults \in 0 .. MaxFaults
    BY DEF TypeOK
  <2>2. faults' = faults \/ (faults < MaxFaults /\ faults' = faults + 1)
    BY DEF ThreadGone, Fails
  <2> QED BY <2>1, <2>2, Bounds
<1>7. \A b \in Askers : ask'[b].step \in {"reset", "charge", "refuse", "store"} => ask'[b].seen # None
  BY <1>3 DEF TypeOK
<1>8. org' = org /\ (written' = Nothing \/ (written' = written /\ written.by # a))
  BY <1>1 DEF Rollback
<1>9. written' = Nothing \/ (/\ written'.by \in Sends /\ written'.row \in OrgType
                             /\ ask'[written'.by].step \in {"charge", "refuse", "store"})
  BY <1>3, <1>8 DEF TypeOK, Askers
<1>10. TypeOK'
  BY <1>1, <1>3, <1>6, <1>7, <1>8, <1>9 DEF TypeOK, Nothing
<1> QED BY <1>4, <1>5, <1>10

LEMMA ClockStep == ASSUME TypeOK, Clock, [Next]_vars PROVE Clock'
<1>1. month \in Nat /\ (month' = month \/ month' = month + 1)
  <2>1. ASSUME NEW a \in Askers, Begin(a) \/ Step(a) \/ Fails(a) PROVE month' = month
    BY <2>1, Zenon DEF Step, Begin, Incr, Decr, Answer, NoAnswer, ReadOrg, ResetMonth, Charge, NotCharged,
                       Refuse, StoreReply, ThreadGone, Fails
  <2>2. ASSUME DeleteThread \/ NextDay \/ UNCHANGED vars \/ \E p \in Plans, on \in BOOLEAN : ChangeOrg(p, on)
        PROVE  month' = month
    BY <2>2, Zenon DEF DeleteThread, NextDay, ChangeOrg, vars
  <2>3. ASSUME NextMonth PROVE month' = month + 1
    BY <2>3 DEF NextMonth
  <2>4. month' = month \/ month' = month + 1
    BY <2>1, <2>2, <2>3 DEF Next
  <2> QED BY <2>4 DEF TypeOK, Months
<1>2. \A b \in Askers : ask[b].now \in Nat /\ ask[b].now <= month
  BY DEF TypeOK, AskType, Months, Clock
<1> SUFFICES ASSUME NEW b \in Askers PROVE ask'[b].now = ask[b].now \/ ask'[b].now = month
  BY <1>1, <1>2 DEF Clock
<1>3. CASE ask' = ask
  BY <1>3
<1>4. ASSUME NEW a \in Askers, NEW s \in Steps, Goto(a, s) PROVE ask'[b].now = ask[b].now
  BY <1>4, GotoType
<1>5. ASSUME NEW a \in Askers, Begin(a) \/ Incr(a) PROVE ask'[b].now = ask[b].now
  <2>1. \/ ask' = [ask EXCEPT ![a].step = "incr", ![a].day = day]
        \/ ask' = [ask EXCEPT ![a].step = "over"]
        \/ ask' = [ask EXCEPT ![a].step = "asking", ![a].granted = TRUE]
    BY <1>5 DEF Begin, Incr
  <2>2. ask[a] \in AskType
    BY DEF TypeOK
  <2>3. CASE b = a
    BY <2>1, <2>2, <2>3 DEF TypeOK, AskType
  <2>4. CASE b # a
    BY <2>1, <2>4 DEF TypeOK
  <2> QED BY <2>3, <2>4
<1>6. ASSUME NEW a \in Askers, ReadOrg(a) PROVE ask'[b].now = ask[b].now \/ ask'[b].now = month
  <2>1. PICK s \in {"reset", "not-enabled"} : ask' = [ask EXCEPT ![a].seen = org, ![a].now = month, ![a].step = s]
    BY <1>6 DEF ReadOrg
  <2>2. ask[a] \in AskType
    BY DEF TypeOK
  <2>3. CASE b = a
    BY <2>1, <2>2, <2>3 DEF TypeOK, AskType
  <2>4. CASE b # a
    BY <2>1, <2>4 DEF TypeOK
  <2> QED BY <2>3, <2>4
<1>7. {"quota-exhausted", "read", "unanswered", "refuse", "charge", "store", "done", "not-enabled",
       "failed"} \subseteq Steps
  BY DEF Steps, Final
<1>8. ASSUME NEW a \in Askers, Step(a) \/ Fails(a), ~ Incr(a), ~ ReadOrg(a)
      PROVE  \E s \in Steps : Goto(a, s)
  BY <1>7, <1>8 DEF Step, Decr, Answer, NoAnswer, ResetMonth, Charge, NotCharged, Refuse, StoreReply,
                    ThreadGone, Fails
<1>9. ASSUME NEW a \in Askers, Begin(a) \/ Step(a) \/ Fails(a)
      PROVE  ask'[b].now = ask[b].now \/ ask'[b].now = month
  BY <1>4, <1>5, <1>6, <1>8, <1>9
<1>10. CASE \/ NextMonth \/ NextDay \/ DeleteThread \/ UNCHANGED vars
            \/ \E p \in Plans, on \in BOOLEAN : ChangeOrg(p, on)
  BY <1>3, <1>10 DEF NextMonth, NextDay, DeleteThread, ChangeOrg, vars
<1> QED BY <1>9, <1>10 DEF Next

LEMMA IndInvStep == IndInv /\ Clock /\ [Next]_vars => IndInv' /\ Clock'
<1> SUFFICES ASSUME IndInv, Clock, [Next]_vars PROVE IndInv' /\ Clock'
  OBVIOUS
<1>1. ASSUME NEW a \in Askers, Begin(a) \/ Step(a) \/ Fails(a) PROVE IndInv'
  BY <1>1, BeginStep, IncrStep, DecrStep, MoveStep, ReadStep, ResetStep, ChargeStep,
     RefuseStep, StoreStep, UndoneStep DEF Step
<1>2. CASE \/ NextMonth \/ NextDay \/ DeleteThread \/ UNCHANGED vars
           \/ \E p \in Plans, on \in BOOLEAN : ChangeOrg(p, on)
  BY <1>2, WorldStep, ClockStep DEF IndInv
<1> QED BY <1>1, <1>2, ClockStep DEF Next, IndInv

-----------------------------------------------------------------------------
(* What holds of every behaviour                                           *)

LEMMA Invariance == Spec => [](IndInv /\ Clock)
<1>1. Init => IndInv /\ Clock
  <2> SUFFICES ASSUME Init PROVE Clock
    BY IndInvInit
  <2> QED BY DEF Init, Clock
<1>2. (IndInv /\ Clock) /\ [Next]_vars => (IndInv /\ Clock)'
  BY IndInvStep
<1> QED BY <1>1, <1>2, PTL DEF Spec

\* Every variable keeps its type; whoever holds a written row is a send at its
\* charge, its refusal or its reply.
THEOREM TypeCorrect == Spec => []TypeOK
<1>1. IndInv => TypeOK
  BY DEF IndInv
<1> QED BY <1>1, Invariance, PTL

\* The credits used of a month are its answers, whatever requests overlap at its
\* first: spendCredit's conditional reset and increment lose none.
THEOREM CreditTheorem == Spec => []CreditPerReply
<1>1. IndInv => CreditPerReply
  BY DEF IndInv, Ledger, CreditPerReply, Charged, Askers
<1> QED BY <1>1, Invariance, PTL

\* A row's credits grow only by a charge.
LEMMA CreditsGrow ==
    ASSUME IndInv, Next, org'.used > org.used
    PROVE  org'.used <= Limit[org'.plan] /\ org'.enabled
<1> USE DEF IndInv
<1>1. org.used \in Nat /\ org \in OrgType
  BY OrgFields DEF TypeOK
<1>2. org' # org
  BY <1>1
<1>3. ASSUME NEW a \in Askers, Begin(a) \/ Step(a) \/ Fails(a)
      PROVE  org'.used <= Limit[org'.plan] /\ org'.enabled
  <2>1. CASE ResetMonth(a)
    <3>1. Resets(a) /\ org' = [Row(a) EXCEPT !.used = 0, !.period = ask[a].now]
      BY <1>2, <2>1 DEF ResetMonth, Write
    <3>2. Row(a) \in OrgType /\ month \in Months
      BY RowType DEF TypeOK
    <3>3. org'.used = 0
      BY <3>1, <3>2 DEF OrgType
    <3> QED BY <1>1, <3>3
  <2>2. CASE Charge(a)
    <3>1. org' = [Row(a) EXCEPT !.used = @ + 1] /\ ask[a].step = "charge" /\ Charges(a) /\ Free(a)
      BY <1>2, <2>2 DEF Charge, Write
    <3>2. Row(a) \in OrgType /\ Row(a).enabled /\ Row(a).used + 1 <= Limit[Row(a).plan]
      BY <3>1, ChargeRow
    <3> QED BY <3>1, <3>2, OneMoreRow
  <2>3. CASE Refuse(a)
    <3>1. org' = written.row /\ written.by = a /\ ask[a].step = "refuse"
      BY <1>2, <2>3 DEF Refuse, Commit
    <3>2. org'.used = 0
      BY <3>1, RowType DEF TxRow
    <3> QED BY <1>1, <3>2
  <2>4. CASE StoreReply(a)
    <3>1. org' = written.row /\ written.by = a /\ ask[a].step = "store"
      BY <1>2, <2>4 DEF StoreReply, Commit
    <3> QED BY <3>1, RowType DEF TxRow
  <2>5. CASE \/ Begin(a) \/ Incr(a) \/ Decr(a) \/ Answer(a) \/ NoAnswer(a) \/ ReadOrg(a)
             \/ NotCharged(a) \/ ThreadGone(a) \/ Fails(a)
    BY <1>2, <2>5 DEF Begin, Incr, Decr, Answer, NoAnswer, ReadOrg, NotCharged, ThreadGone, Fails, Rollback
  <2> QED BY <1>3, <2>1, <2>2, <2>3, <2>4, <2>5 DEF Step
<1>4. ASSUME NEW p \in Plans, NEW on \in BOOLEAN, ChangeOrg(p, on)
      PROVE  org'.used <= Limit[org'.plan] /\ org'.enabled
  <2>1. org'.used = org.used
    BY <1>1, <1>4 DEF ChangeOrg, OrgType
  <2> QED BY <1>1, <2>1
<1>5. CASE DeleteThread \/ NextMonth \/ NextDay
  BY <1>2, <1>5 DEF DeleteThread, NextMonth, NextDay
<1> QED BY <1>3, <1>4, <1>5 DEF Next

\* Whoever finds the budget spent finds it granted in full.
LEMMA SpentInFull ==
    ASSUME IndInv, Next, NEW a \in Askers, ask'[a].step = "over"
    PROVE  Cardinality(Granted(ask[a].day)) = Budget
<1> USE DEF IndInv
<1>1. ask[a].day \in Days
  BY DEF TypeOK, AskType
<1> SUFFICES ASSUME NEW d \in Days, d = ask[a].day PROVE Cardinality(Granted(d)) = Budget
  BY <1>1
<1>2. DayFits(d) /\ count[d] \in Nat
  BY DEF Budgeted, TypeOK
<1>3. Cardinality(Granted(d)) \in Nat /\ Cardinality(Over(d)) \in Nat /\ IsFiniteSet(Over(d))
  BY AskersFinite
<1>4. CASE ask[a].step = "over"
  <2>1. a \in Over(d)
    BY <1>4 DEF Over
  <2>2. Cardinality(Over(d)) # 0
    BY <1>3, <2>1, FS_EmptySet
  <2> QED BY <1>2, <1>3, <2>2 DEF DayFits
<1>5. CASE ask[a].step # "over"
  <2>1. Incr(a)
    <3>1. ask' # ask
      BY <1>5
    <3>2. ~ (\E p \in Plans, on \in BOOLEAN : ChangeOrg(p, on)) /\ ~ DeleteThread /\ ~ NextMonth /\ ~ NextDay
      BY <3>1 DEF ChangeOrg, DeleteThread, NextMonth, NextDay
    <3>3. PICK b \in Askers : Begin(b) \/ Step(b) \/ Fails(b)
      BY <3>2 DEF Next
    <3>4. ask'[a] # ask[a]
      BY <1>5
    <3>5. b = a
      BY <3>3, <3>4 DEF Begin, Step, Incr, Decr, Answer, NoAnswer, ReadOrg, ResetMonth, Charge, NotCharged,
                        Refuse, StoreReply, ThreadGone, Fails, Goto, TypeOK
    <3>6. ASSUME NEW s \in Steps \ {"over"}, Goto(a, s) PROVE FALSE
      BY <3>6, GotoType
    <3>7. {"quota-exhausted", "read", "unanswered", "refuse", "charge", "store", "done", "not-enabled",
           "failed"} \subseteq Steps \ {"over"}
      BY DEF Steps, Final
    <3>8. ~ Begin(a) /\ ~ ReadOrg(a)
      <4>1. ASSUME NEW s \in {"incr", "reset", "not-enabled"}, NEW q,
                   \/ ask' = [ask EXCEPT ![a].step = s, ![a].day = q]
                   \/ ask' = [ask EXCEPT ![a].seen = q, ![a].now = month, ![a].step = s]
            PROVE  FALSE
        <5>1. ask[a] \in AskType
          BY DEF TypeOK
        <5>2. \/ ask'[a] = [ask[a] EXCEPT !.step = s, !.day = q]
              \/ ask'[a] = [ask[a] EXCEPT !.seen = q, !.now = month, !.step = s]
          BY <4>1 DEF TypeOK
        <5>3. ask'[a].step = s
          BY <5>1, <5>2 DEF AskType
        <5> QED BY <5>3
      <4> QED BY <4>1 DEF Begin, ReadOrg
    <3> QED BY <3>3, <3>5, <3>6, <3>7, <3>8
            DEF Step, Decr, Answer, NoAnswer, ResetMonth, Charge, NotCharged, Refuse,
                StoreReply, ThreadGone, Fails
  <2>2. count'[d] = count[d] + 1
    <3>1. count' = [count EXCEPT ![d] = @ + 1]
      BY <2>1 DEF Incr
    <3>2. count \in [Days -> Nat]
      BY DEF TypeOK
    <3> QED BY <3>1, <3>2
  <2>3. count'[d] > Budget
    <3>1. ask[a] \in AskType
      BY DEF TypeOK
    <3>2. CASE ~ (count'[ask[a].day] > Budget)
      <4>1. ask'[a] = [ask[a] EXCEPT !.step = "asking", !.granted = TRUE]
        BY <2>1, <3>2 DEF Incr, TypeOK
      <4>2. ask'[a].step = "asking"
        BY <3>1, <4>1 DEF AskType
      <4> QED BY <4>2
    <3> QED BY <3>2
  <2> QED BY <1>2, <1>3, <2>2, <2>3, Bounds DEF DayFits
<1> QED BY <1>4, <1>5

\* No credit beyond the plan of that moment, and the day's budget granted in full
\* before anyone is refused.
THEOREM LimitsTheorem == Spec => WithinLimits
<1> DEFINE Within ==
      /\ org'.used > org.used => org'.used <= Limit[org'.plan] /\ org'.enabled
      /\ \A d \in Days : Cardinality(Granted(d)') <= Budget
      /\ \A a \in Askers : ask'[a].step = "over" => Cardinality(Granted(ask[a].day)) = Budget
<1>1. IndInv /\ IndInv' /\ [Next]_vars => [Within]_vars
  <2> SUFFICES ASSUME IndInv, IndInv', Next PROVE Within
    OBVIOUS
  <2>1. \A d \in Days : Cardinality(Granted(d)') <= Budget
    BY DEF IndInv, Budgeted, DayFits
  <2>2. \A a \in Askers : ask'[a].step = "over" => Cardinality(Granted(ask[a].day)) = Budget
    BY SpentInFull
  <2> QED BY <2>1, <2>2, CreditsGrow
<1>2. [][Within]_vars => WithinLimits
  BY DEF WithinLimits
<1> QED BY <1>1, <1>2, Invariance, PTL DEF Spec
=============================================================================
