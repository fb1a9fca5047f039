-------------------------- MODULE RunAdoptionProofs --------------------------
(***************************************************************************)
(* Proofs about RunAdoption for any reports, runs, tests, cases, versions, *)
(* attempts and faults: the types with the unique indexes and the          *)
(* exclusions of open transactions, that a run shows one report, and that  *)
(* the snapshot of a case lasts.                                           *)
(***************************************************************************)
EXTENDS RunAdoption, FiniteSetTheorems, SequenceTheorems, TLAPS

-----------------------------------------------------------------------------
(* The inductive invariant                                                 *)

Partial(S, T) == UNION {[D -> T] : D \in SUBSET S}

RowRec == [test : Keys, case : Nat \cup {None}, version : 0 .. MaxVersion, by : Reports]

TxType == [seen : {"none", "legacy", "keyed"}, link : Partial(Keys, Nat),
           missing : SUBSET Keys, todo : SUBSET Keys, moved : Partial(Nat, Keys),
           made : Seq(Keys), name : Partial(Keys, Keys),
           version : Partial(Keys, 0 .. MaxVersion), old : SUBSET RowRec]

States == {"queued", "claim", "match", "cases", "run", "rows", "save", "saved", "done", "failed"}

\* The variables that are not about the cases; a report not given up has an attempt left.
Types ==
    /\ suite \in {"none", "legacy", "keyed"} /\ faults \in 0 .. MaxFaults
    /\ by \in [Runs -> Reports \cup {None}] /\ tests \in [Reports -> Contents]
    /\ rows \in [Runs -> SUBSET RowRec]
    /\ report \in [Reports -> States]
    /\ failures \in [Reports -> Nat]
    /\ \A j \in Reports : /\ failures[j] <= Attempts[j]
                          /\ report[j] # "failed" => failures[j] < Attempts[j]
    /\ tx \in [Reports -> TxType]

Table == cases \in Seq(RowType) /\ Unique(cases)

\* A transaction that has matched its tests, and is not yet committed.
Writing(j) == report[j] \in {"cases", "run", "rows", "save"}

\* What a report has read: its links are rows; a draft has a name of its own.
Reads(j) ==
    LET t == tx[j] IN
    /\ \A k \in DOMAIN t.link : t.link[k] \in Ids
    /\ t.todo \cup t.missing \subseteq TestsOf(j)
    /\ DOMAIN t.name = t.missing
    /\ \A k, l \in t.missing : t.name[k] = t.name[l] => k = l
    /\ report[j] = "cases" => /\ DOMAIN t.link \cap t.missing = {}
                              /\ t.todo \subseteq DOMAIN t.link \cup t.missing

Moves(j) ==
    LET t == tx[j] IN
    /\ DOMAIN t.moved \subseteq Ids
    /\ \A i \in DOMAIN t.moved : /\ t.moved[i] \notin t.todo \cup t.missing
                                 /\ WithKey(t.moved[i]) \subseteq {i}
    /\ \A i, l \in DOMAIN t.moved : t.moved[i] = t.moved[l] => i = l

Drafts(j) ==
    LET t == tx[j] IN
    /\ \A n \in DOMAIN t.made : /\ t.made[n] \in t.missing \ t.todo
                                /\ ~ Taken(j, t.made[n])
    /\ \A m, n \in DOMAIN t.made : t.made[m] = t.made[n] => m = n

\* A transaction that has not matched its tests has written no case.
Fresh(j) == tx[j].moved = [i \in {} |-> None] /\ tx[j].made = <<>>

Writes(j) == {tx[j].moved[i] : i \in DOMAIN tx[j].moved} \cup ToSet(tx[j].made)

WorkOf(j) == IF Writing(j) THEN Reads(j) /\ Moves(j) /\ Drafts(j) ELSE Fresh(j)

Work == \A j \in Reports : WorkOf(j)

\* What two open transactions never share.
ApartFrom(j, o) ==
    /\ Writes(j) \cap Writes(o) = {}
    /\ HeldNames(j) \cap HeldNames(o) = {} /\ ~ (HoldsSuite(j) /\ HoldsSuite(o))
    /\ DOMAIN tx[j].moved \cap DOMAIN tx[o].moved = {}
    /\ ~ (HoldsRun(j) /\ HoldsRun(o) /\ RunOf[j] = RunOf[o])

Apart == \A j, o \in Open : j # o => ApartFrom(j, o)

\* Rows are those of cases, and all of a run that name one case have one version.
RowsOfCases ==
    \A r \in Runs : /\ \A x \in rows[r] : x.case \in Ids \cup {None}
                    /\ \A x, y \in rows[r] : x.case = y.case /\ x.case # None => x.version = y.version

\* The versions read are those of the links, and the rows replaced are the run's.
SnapshotOf(j) ==
    /\ report[j] \in {"run", "rows", "save"} =>
          /\ DOMAIN tx[j].version = DOMAIN tx[j].link
          /\ \A k, l \in DOMAIN tx[j].link :
                tx[j].link[k] = tx[j].link[l] => tx[j].version[k] = tx[j].version[l]
    /\ report[j] = "save" => tx[j].old = rows[RunOf[j]]

Snapshots == \A j \in Reports : SnapshotOf(j)

IInv == Types /\ Table /\ Work /\ Apart /\ RowsOfCases /\ Snapshots /\ RowsOfOneReport

-----------------------------------------------------------------------------
(* Partial functions, and the tests of a report                            *)

\* A function on some of a set is a partial function on it.
LEMMA PartialIs ==
    ASSUME NEW S, NEW T, NEW D \in SUBSET S, NEW f \in [D -> T]
    PROVE  f \in Partial(S, T)
  BY DEF Partial

\* And a partial function is one.
LEMMA PartialHas ==
    ASSUME NEW S, NEW T, NEW f \in Partial(S, T)
    PROVE  DOMAIN f \subseteq S /\ f \in [DOMAIN f -> T]
  BY DEF Partial

\* Moving the key of case i adds it to those moved.
LEMMA PutIs ==
    ASSUME NEW S, NEW T, NEW f \in Partial(S, T), NEW i \in S, NEW k \in T
    PROVE  Put(f, i, k) \in Partial(S, T)
<1> DEFINE g == Put(f, i, k)
<1>1. DOMAIN f \subseteq S /\ f \in [DOMAIN f -> T]
  BY PartialHas
<1>2. g \in [DOMAIN f \cup {i} -> T]
  BY <1>1 DEF Put
<1>3. g \in Partial(S, T)
  BY <1>1, <1>2, PartialIs
<1> QED BY <1>3 DEF Put

\* A transaction that has read nothing is well typed.
LEMMA NoTxType == NoTx \in TxType
<1>1. ASSUME NEW S, NEW T, NEW f, f = [x \in {} |-> None] \/ f = [x \in {} |-> 0] PROVE f \in Partial(S, T)
  <2>1. f \in [{} -> T]
    BY <1>1
  <2> QED BY <2>1, PartialIs
<1> QED BY <1>1 DEF NoTx, TxType

\* Every report's tests are keys, each once.
LEMMA TestsAre ==
    ASSUME Types, NEW j \in Reports
    PROVE  /\ tests[j] \in Seq(Keys) /\ IsInjective(tests[j])
           /\ TestsOf(j) \subseteq Keys /\ IsFiniteSet(TestsOf(j))
<1>1. tests[j] \in Seq(Keys) /\ IsInjective(tests[j])
  BY AdoptionAssumption DEF Types
<1>2. DOMAIN tests[j] = 1 .. Len(tests[j]) /\ Len(tests[j]) \in Nat
  BY <1>1
<1>3. TestsOf(j) \subseteq Keys
  BY <1>1 DEF TestsOf, ToSet
<1>4. IsFiniteSet(1 .. Len(tests[j]))
  BY <1>2, FS_Interval
<1>5. tests[j] \in Surjection(1 .. Len(tests[j]), TestsOf(j))
  BY <1>1, <1>2 DEF Surjection, TestsOf, ToSet
<1> QED BY <1>1, <1>3, <1>4, <1>5, FS_Surjection

\* Of two tests of a report one comes first.
LEMMA Ordered ==
    ASSUME Types, NEW j \in Reports, NEW k \in TestsOf(j), NEW l \in TestsOf(j), k # l
    PROVE  Before(j, k, l) \/ Before(j, l, k)
<1>1. PICK m \in DOMAIN tests[j], n \in DOMAIN tests[j] : tests[j][m] = k /\ tests[j][n] = l
  BY DEF TestsOf, ToSet
<1>2. m \in Nat /\ n \in Nat /\ m # n
  BY <1>1, TestsAre
<1> QED BY <1>1, <1>2 DEF Before

-----------------------------------------------------------------------------
(* Types                                                                   *)

\* The tests of a report draft each under its key or its bare name.
LEMMA DraftNameType ==
    ASSUME NEW j, NEW missing, NEW k \in Keys
    PROVE  DraftName(j, missing, k) \in Keys
  BY AdoptionAssumption DEF DraftName

\* What matches a test is a row.
LEMMA RowOfType == ASSUME NEW j, NEW k PROVE RowOf(j, k) \subseteq Ids
  BY DEF RowOf, OwnRow, LegacyRow, WithKey, Unkeyed

\* The ids of the committed cases, and what they are.
LEMMA IdsAre ==
    ASSUME Table
    PROVE  /\ Len(cases) \in Nat /\ Ids \subseteq Nat /\ DOMAIN cases = Ids
           /\ \A i \in Ids : cases[i] \in RowType
  BY DEF Table, Ids

\* A step of one report keeps the types if it keeps those of its own entries.
LEMMA OwnTypes ==
    ASSUME Types, NEW j \in Reports, NEW s \in States, NEW t \in TxType,
           report[j] # "failed", Move(j, s),
           tx' = [tx EXCEPT ![j] = t],
           UNCHANGED <<suite, rows, by, tests, failures, faults>>
    PROVE  Types'
<1>1. report' \in [Reports -> States] /\ tx' \in [Reports -> TxType]
  BY DEF Types, Move
<1>2. \A o \in Reports : report'[o] # "failed" => report[o] # "failed"
  BY DEF Types, Move
<1> QED BY <1>1, <1>2 DEF Types

\* A rollback counts an attempt, and leaves one if the job runs again.
LEMMA RollbackTypes ==
    ASSUME Types, NEW j \in Reports, report[j] # "failed", EndAttempt(j),
           faults' \in 0 .. MaxFaults
    PROVE  Types'
<1>1. Attempts[j] \in Nat /\ failures[j] \in Nat /\ failures[j] < Attempts[j]
  BY AdoptionAssumption DEF Types
<1>2. AfterFailure(j) \in {"queued", "failed"}
      /\ (AfterFailure(j) # "failed" => failures[j] + 1 < Attempts[j])
  BY DEF AfterFailure
<1>3. report' \in [Reports -> States] /\ tx' \in [Reports -> TxType]
      /\ failures' \in [Reports -> Nat]
  BY <1>1, <1>2, NoTxType DEF Types, EndAttempt, Move, States
<1>4. \A o \in Reports : /\ failures'[o] <= Attempts[o]
                         /\ report'[o] # "failed" => failures'[o] < Attempts[o]
  BY <1>1, <1>2 DEF Types, EndAttempt, Move
<1> QED BY <1>3, <1>4 DEF Types, EndAttempt

\* Matching gives every matched test a row, and the others a name.
LEMMA MatchTypes ==
    ASSUME Types, Table, NEW j \in Reports, Match(j)
    PROVE  Types'
<1> DEFINE missing == {k \in TestsOf(j) : Missing(j, k)}
           link == [k \in Matched(j) |-> CHOOSE i \in RowOf(j, k) : TRUE]
           name == [k \in missing |-> DraftName(j, missing, k)]
           todo == {k \in TestsOf(j) : Moving(j, k)} \cup missing
           t == [tx[j] EXCEPT !.link = link, !.missing = missing, !.name = name, !.todo = todo]
<1>1. TestsOf(j) \subseteq Keys
  BY TestsAre
<1>2. link \in [Matched(j) -> Nat] /\ Matched(j) \subseteq Keys
  <2>1. \A k \in Matched(j) : (CHOOSE i \in RowOf(j, k) : TRUE) \in RowOf(j, k)
    BY DEF Matched
  <2>2. \A k \in Matched(j) : (CHOOSE i \in RowOf(j, k) : TRUE) \in Nat
    BY <2>1, RowOfType, IdsAre
  <2> QED BY <1>1, <2>2 DEF Matched
<1>3. link \in Partial(Keys, Nat)
  BY <1>2, PartialIs
<1>4. name \in [missing -> Keys] /\ missing \subseteq Keys
  BY <1>1, DraftNameType
<1>5. name \in Partial(Keys, Keys)
  BY <1>4, PartialIs
<1>6. todo \subseteq Keys
  BY <1>1
<1>7. tx' = [tx EXCEPT ![j] = t]
  BY DEF Match, Types
<1> HIDE DEF link, missing, name, todo
<1>8. t \in TxType
  <2>1. tx[j] \in TxType
    BY DEF Types
  <2>2. [tx[j] EXCEPT !.link = link, !.missing = missing] \in TxType
    BY <1>3, <1>4, <2>1 DEF TxType
  <2>3. t = [[tx[j] EXCEPT !.link = link, !.missing = missing] EXCEPT !.name = name, !.todo = todo]
    BY <2>1 DEF TxType
  <2> QED BY <1>5, <1>6, <2>2, <2>3 DEF TxType
<1> HIDE DEF t
<1> QED BY <1>7, <1>8, OwnTypes DEF Match, Move, States

\* A moved key, or the row that has it by now.
LEMMA MoveKeyTypes ==
    ASSUME Types, Table, NEW j \in Reports, NEW k \in Keys, MoveKey(j, k)
    PROVE  Types'
<1> DEFINE i == tx[j].link[k]
           owners == WithKey(k) \ {i}
           o == CHOOSE x \in owners : TRUE
           moved == Put(tx[j].moved, i, k)
           link == [tx[j].link EXCEPT ![k] = o]
           t == IF owners = {} THEN [tx[j] EXCEPT !.moved = moved, !.todo = @ \ {k}]
                ELSE [tx[j] EXCEPT !.link = link, !.todo = @ \ {k}]
<1>0. tx[j] \in TxType /\ k \in DOMAIN tx[j].link
  BY DEF Types, MoveKey, Migrates
<1>1. DOMAIN tx[j].link \subseteq Keys /\ tx[j].link \in [DOMAIN tx[j].link -> Nat]
  BY <1>0, PartialHas DEF TxType
<1>2. i \in Nat
  BY <1>0, <1>1
<1>3. moved \in Partial(Nat, Keys)
  BY <1>0, <1>2, PutIs DEF TxType
<1>4. owners # {} => o \in Nat
  <2>1. owners # {} => o \in owners
    OBVIOUS
  <2> QED BY <2>1, IdsAre DEF WithKey
<1>5. owners # {} => link \in [DOMAIN tx[j].link -> Nat]
  BY <1>1, <1>4
<1>6. owners # {} => link \in Partial(Keys, Nat)
  BY <1>1, <1>5, PartialIs
<1>7. tx' = [tx EXCEPT ![j] = t]
  BY DEF MoveKey, Types
<1> HIDE DEF i, owners, o, moved, link
<1>8. t \in TxType
  BY <1>0, <1>3, <1>6 DEF TxType
<1> HIDE DEF t
<1>9. report[j] = "cases" /\ Move(j, "cases") /\ UNCHANGED <<suite, rows, by, tests, failures, faults>>
  BY DEF MoveKey, Move, Types
<1> QED BY <1>7, <1>8, <1>9, OwnTypes DEF States

\* A draft, or a skipped one.
LEMMA DraftTypes ==
    ASSUME Types, NEW j \in Reports, NEW k \in Keys, Draft(j, k)
    PROVE  Types'
<1> DEFINE made == IF Taken(j, k) THEN tx[j].made ELSE Append(tx[j].made, k)
           t == [tx[j] EXCEPT !.todo = @ \ {k}, !.made = made]
<1>0. tx[j] \in TxType
  BY DEF Types
<1>1. made \in Seq(Keys)
  BY <1>0 DEF TxType
<1>2. tx' = [tx EXCEPT ![j] = t]
  BY DEF Draft, Types
<1> HIDE DEF made
<1>3. t \in TxType
  BY <1>0, <1>1 DEF TxType
<1> HIDE DEF t
<1>4. report[j] = "cases" /\ Move(j, "cases") /\ UNCHANGED <<suite, rows, by, tests, failures, faults>>
  BY DEF Draft, Move, Types
<1> QED BY <1>2, <1>3, <1>4, OwnTypes DEF States

\* The content read is that of the linked rows.
LEMMA RelinkTypes ==
    ASSUME Types, Table, Work, NEW j \in Reports, Relink(j)
    PROVE  Types'
<1> DEFINE found == {k \in tx[j].missing : WithKey(k) # {}}
           link == [k \in found \cup DOMAIN tx[j].link |->
                      IF k \in found THEN CHOOSE i \in WithKey(k) : TRUE ELSE tx[j].link[k]]
           version == [k \in DOMAIN link |-> cases[link[k]].version]
           t == [tx[j] EXCEPT !.link = link, !.version = version]
<1>0. tx[j] \in TxType
  BY DEF Types
<1>1. DOMAIN tx[j].link \subseteq Keys /\ tx[j].missing \subseteq Keys
  BY <1>0, PartialHas DEF TxType
<1>2. \A k \in DOMAIN link : link[k] \in Ids
  <2>1. \A k \in found : (CHOOSE i \in WithKey(k) : TRUE) \in WithKey(k)
    OBVIOUS
  <2>2. \A k \in DOMAIN tx[j].link : tx[j].link[k] \in Ids
    BY DEF Relink, Work, WorkOf, Writing, Reads
  <2> QED BY <2>1, <2>2 DEF WithKey
<1>3. link \in [DOMAIN link -> Nat] /\ DOMAIN link \subseteq Keys
  BY <1>1, <1>2, IdsAre
<1>4. version \in [DOMAIN link -> 0 .. MaxVersion]
  BY <1>2, IdsAre DEF RowType
<1>5. tx' = [tx EXCEPT ![j] = t]
  BY DEF Relink, Types
<1> HIDE DEF link, version
<1>6. link \in Partial(Keys, Nat) /\ version \in Partial(Keys, 0 .. MaxVersion)
  BY <1>3, <1>4, PartialIs
<1>7. t \in TxType
  BY <1>0, <1>6 DEF TxType
<1> HIDE DEF t
<1> QED BY <1>5, <1>7, OwnTypes DEF Relink, States

\* The rows a report writes.
LEMMA NewRowsType ==
    ASSUME Types, Table, NEW j \in Reports, report[j] = "save"
    PROVE  NewRows(j) \subseteq RowRec
<1>0. tx[j] \in TxType
  BY DEF Types
<1>1. \A k \in TestsOf(j) : ReadVersion(j, k) \in 0 .. MaxVersion
  <2>1. tx[j].version \in [DOMAIN tx[j].version -> 0 .. MaxVersion]
    BY <1>0, PartialHas DEF TxType
  <2> QED BY <2>1, AdoptionAssumption DEF ReadVersion
<1>2. \A k \in TestsOf(j) : Executed(j, k) \in 0 .. MaxVersion
  <2> SUFFICES ASSUME NEW k \in TestsOf(j) PROVE Executed(j, k) \in 0 .. MaxVersion
    OBVIOUS
  <2> DEFINE kept == {x \in tx[j].old : x.case = CaseId(j, k) /\ x.case # None}
  <2>1. CASE kept = {}
    BY <1>1, <2>1 DEF Executed
  <2>2. CASE kept # {}
    <3>1. (CHOOSE x \in kept : TRUE) \in kept
      BY <2>2
    <3>2. (CHOOSE x \in kept : TRUE) \in RowRec
      BY <1>0, <3>1 DEF TxType
    <3> QED BY <2>2, <3>2 DEF Executed, RowRec
  <2> QED BY <2>1, <2>2
<1>3. \A k \in TestsOf(j) : CaseId(j, k) \in Nat \cup {None}
  <2>1. tx[j].link \in [DOMAIN tx[j].link -> Nat]
    BY <1>0, PartialHas DEF TxType
  <2>2. DOMAIN tx[j].made \subseteq Nat
    BY <1>0 DEF TxType
  <2>3. \A k \in ToSet(tx[j].made) :
            (CHOOSE n \in DOMAIN tx[j].made : tx[j].made[n] = k) \in DOMAIN tx[j].made
    BY DEF ToSet
  <2> SUFFICES ASSUME NEW k \in TestsOf(j) PROVE CaseId(j, k) \in Nat \cup {None}
    OBVIOUS
  <2>4. CASE k \in DOMAIN tx[j].link
    BY <2>1, <2>4 DEF CaseId
  <2>5. CASE k \notin DOMAIN tx[j].link /\ k \in ToSet(tx[j].made)
    <3>1. PICK n \in Nat : CaseId(j, k) = Len(cases) + n
      BY <2>2, <2>3, <2>5 DEF CaseId
    <3> QED BY <3>1, IdsAre
  <2>6. CASE k \notin DOMAIN tx[j].link /\ k \notin ToSet(tx[j].made)
    BY <2>6 DEF CaseId
  <2> QED BY <2>4, <2>5, <2>6
<1>4. TestsOf(j) \subseteq Keys
  BY TestsAre
<1> QED BY <1>2, <1>3, <1>4 DEF NewRows, RowRec

\* The commit.
LEMMA SaveTypes ==
    ASSUME Types, Table, NEW j \in Reports, Save(j)
    PROVE  Types'
<1>1. rows' \in [Runs -> SUBSET RowRec]
  BY NewRowsType DEF Save, Types
<1>2. by' \in [Runs -> Reports \cup {None}]
  BY DEF Save, Types, Runs
<1>3. report' \in [Reports -> States] /\ tx' \in [Reports -> TxType]
  BY NoTxType DEF Save, Types, Move, States
<1>4. \A o \in Reports : report'[o] # "failed" => report[o] # "failed"
  BY DEF Save, Types, Move
<1> QED BY <1>1, <1>2, <1>3, <1>4 DEF Save, Types

\* Every step keeps the types.
LEMMA NextTypes ==
    ASSUME Types, Table, Work, [Next]_vars
    PROVE  Types'
<1>1. ASSUME NEW j \in Reports, FindSuite(j) PROVE Types'
  <2> DEFINE t == [tx[j] EXCEPT !.seen = suite]
  <2>1. tx' = [tx EXCEPT ![j] = t] /\ t \in TxType
    BY <1>1 DEF FindSuite, Types, TxType
  <2> HIDE DEF t
  <2> QED BY <1>1, <2>1, OwnTypes DEF FindSuite, States
<1>2. ASSUME NEW j \in Reports, ClaimSuite(j) \/ UpsertRun(j) \/ Finish(j) PROVE Types'
  <2>1. PICK s \in States : Move(j, s)
    BY <1>2 DEF ClaimSuite, UpsertRun, Finish, States
  <2>2. tx' = [tx EXCEPT ![j] = tx[j]] /\ tx[j] \in TxType
    BY <1>2 DEF ClaimSuite, UpsertRun, Finish, Types
  <2> QED BY <1>2, <2>1, <2>2, OwnTypes DEF ClaimSuite, UpsertRun, Finish
<1>3. ASSUME NEW j \in Reports, SuiteRaceLost(j) \/ Deadlock(j) \/ Fault(j) PROVE Types'
  <2>1. report[j] # "failed"
    BY <1>3 DEF SuiteRaceLost, Deadlock, Fault, Blockers, Open
  <2>2. faults' \in 0 .. MaxFaults
    BY <1>3, AdoptionAssumption DEF SuiteRaceLost, Deadlock, Fault, Types
  <2> QED BY <1>3, <2>1, <2>2, RollbackTypes DEF SuiteRaceLost, Deadlock, Fault
<1>4. ASSUME NEW j \in Reports, DeleteRows(j) PROVE Types'
  <2> DEFINE t == [tx[j] EXCEPT !.old = rows[RunOf[j]]]
  <2>1. rows[RunOf[j]] \subseteq RowRec
    BY DEF Types, Runs
  <2>2. tx' = [tx EXCEPT ![j] = t] /\ t \in TxType
    <3>1. tx[j] \in TxType
      BY DEF Types
    <3>2. t \in TxType
      BY <2>1, <3>1 DEF TxType
    <3> QED BY <1>4, <3>2 DEF DeleteRows
  <2> HIDE DEF t
  <2> QED BY <1>4, <2>2, OwnTypes DEF DeleteRows, States
<1>5. ASSUME NEW i \in Ids, PublishVersion(i) PROVE Types'
  BY <1>5 DEF PublishVersion, Types
<1>6. CASE UNCHANGED vars
  BY <1>6 DEF vars, Types
<1>7. \A j \in Reports : TestsOf(j) \subseteq Keys
  BY TestsAre
<1> QED BY <1>1, <1>2, <1>3, <1>4, <1>5, <1>6, <1>7, MatchTypes, MoveKeyTypes, DraftTypes,
           RelinkTypes, SaveTypes DEF Next, Step

-----------------------------------------------------------------------------
(* What the open transactions have read and written                        *)

\* Every part but the types.
Rest == Table /\ Work /\ Apart /\ RowsOfCases /\ Snapshots /\ RowsOfOneReport

\* What a report has read, written and holds depends on its own entries and on
\* the keys and names of the cases alone.
LEMMA SameWork ==
    ASSUME NEW o, report'[o] = report[o], tx'[o] = tx[o], UNCHANGED tests, WorkOf(o), Ids' = Ids,
           \A i \in Ids : cases'[i].key = cases[i].key /\ cases'[i].name = cases[i].name
    PROVE  WorkOf(o)'
<1>1. TestsOf(o)' = TestsOf(o) /\ Ids' = Ids /\ \A k : WithKey(k)' = WithKey(k)
  BY DEF TestsOf, ToSet, WithKey
<1>2. Writing(o)' = Writing(o)
  BY DEF Writing
<1>3. Fresh(o) => Fresh(o)'
  BY DEF Fresh
<1>4. Reads(o) => Reads(o)'
  BY <1>1 DEF Reads
<1>5. Moves(o) => Moves(o)'
  BY <1>1 DEF Moves
<1>6. Drafts(o) => Drafts(o)'
  <2>1. \A k : Taken(o, k)' <=> Taken(o, k)
    BY <1>1 DEF Taken
  <2> QED BY <2>1 DEF Drafts
<1> QED BY <1>2, <1>3, <1>4, <1>5, <1>6 DEF WorkOf

\* So does what it shares with another.
LEMMA SameApart ==
    ASSUME NEW o, NEW p, report'[o] = report[o], tx'[o] = tx[o],
           report'[p] = report[p], tx'[p] = tx[p], (o \in Open)' <=> o \in Open,
           (p \in Open)' <=> p \in Open, ApartFrom(o, p)
    PROVE  ApartFrom(o, p)'
<1>1. Writes(o)' = Writes(o) /\ Writes(p)' = Writes(p)
  BY DEF Writes, ToSet
<1>2. HeldNames(o)' = HeldNames(o) /\ HeldNames(p)' = HeldNames(p)
  BY DEF HeldNames, ToSet
<1>3. (HoldsSuite(o)' <=> HoldsSuite(o)) /\ (HoldsSuite(p)' <=> HoldsSuite(p))
  BY DEF HoldsSuite
<1>4. (HoldsRun(o)' <=> HoldsRun(o)) /\ (HoldsRun(p)' <=> HoldsRun(p))
  BY DEF HoldsRun
<1> QED BY <1>1, <1>2, <1>3, <1>4 DEF ApartFrom

\* Being apart is mutual.
LEMMA ApartMutual ==
    ASSUME NEW o, NEW p
    PROVE  /\ ApartFrom(o, p) => ApartFrom(p, o)
           /\ ApartFrom(o, p)' => ApartFrom(p, o)'
  BY DEF ApartFrom

\* A step that changes one report's entries alone, no case and no row, keeps the
\* invariant if it keeps what that report knows, and it apart from the others.
LEMMA OneReport ==
    ASSUME Types, Rest, NEW j \in Reports, Types', UNCHANGED <<cases, rows, by, tests>>,
           \A o \in Reports : o # j => report'[o] = report[o] /\ tx'[o] = tx[o],
           WorkOf(j)', SnapshotOf(j)',
           \A o \in Open : o # j /\ (j \in Open)' => ApartFrom(j, o)'
    PROVE  Rest'
<1>1. Table' /\ RowsOfCases'
  BY DEF Rest, Table, RowsOfCases, Ids
<1>2. RowsOfOneReport'
  <2>1. \A o : TestsOf(o)' = TestsOf(o)
    BY DEF TestsOf, ToSet
  <2> QED BY <2>1 DEF Rest, RowsOfOneReport
<1>3. Work'
  <2>1. Ids' = Ids
    BY DEF Ids
  <2> QED BY <2>1, SameWork DEF Rest, Work
<1>4. \A o \in Reports : o # j => ((o \in Open)' <=> o \in Open)
  BY DEF Open
<1>5. Apart'
  <2> SUFFICES ASSUME NEW o \in Open', NEW p \in Open', o # p PROVE ApartFrom(o, p)'
    BY DEF Apart
  <2>0. o \in Reports /\ p \in Reports
    BY DEF Open
  <2>1. CASE o # j /\ p # j
    BY <2>0, <2>1, <1>4, SameApart DEF Rest, Apart
  <2>2. CASE o = j
    BY <2>0, <2>2, <1>4
  <2>3. CASE p = j
    BY <2>0, <2>3, <1>4, ApartMutual
  <2> QED BY <2>1, <2>2, <2>3
<1>6. Snapshots'
  <2> SUFFICES ASSUME NEW o \in Reports, o # j PROVE SnapshotOf(o)'
    BY DEF Snapshots
  <2> QED BY DEF Rest, Snapshots, SnapshotOf
<1> QED BY <1>1, <1>2, <1>3, <1>5, <1>6 DEF Rest

\* A transaction that is rolled back knows nothing.
LEMMA RollbackStep ==
    ASSUME Types, Rest, NEW j \in Reports, Types', EndAttempt(j)
    PROVE  Rest'
<1>1. tx'[j] = NoTx /\ report'[j] \in {"queued", "failed"}
  BY DEF EndAttempt, Types, Move, AfterFailure
<1>2. \A o \in Reports : o # j => report'[o] = report[o] /\ tx'[o] = tx[o]
  BY DEF EndAttempt, Types, Move
<1>3. WorkOf(j)' /\ SnapshotOf(j)' /\ ~ (j \in Open)'
  BY <1>1 DEF WorkOf, Writing, Fresh, NoTx, SnapshotOf, Open
<1> QED BY <1>2, <1>3, OneReport DEF EndAttempt

\* What a report that has written nothing shares with the others.
LEMMA FreshApart ==
    ASSUME NEW j, NEW o, Fresh(j)', HoldsSuite(j)' => ~ HoldsSuite(o)', ~ HoldsRun(j)'
    PROVE  ApartFrom(j, o)'
<1>1. Writes(j)' = {} /\ HeldNames(j)' = {} /\ (DOMAIN tx[j].moved)' = {}
  BY DEF Fresh, Writes, HeldNames, ToSet
<1> QED BY <1>1 DEF ApartFrom

\* adoptSuiteByName finds the suite.
LEMMA FindSuiteStep ==
    ASSUME Types, Rest, NEW j \in Reports, Types', FindSuite(j)
    PROVE  Rest'
<1>1. /\ tx'[j] = [tx[j] EXCEPT !.seen = suite]
      /\ report'[j] = IF suite = "keyed" THEN "match" ELSE "claim"
      /\ \A o \in Reports : o # j => report'[o] = report[o] /\ tx'[o] = tx[o]
      /\ tx[j] \in TxType
  BY DEF FindSuite, Types, Move
<1>2. Fresh(j)
  BY DEF FindSuite, Rest, Work, WorkOf, Writing
<1>3. Fresh(j)' /\ WorkOf(j)' /\ SnapshotOf(j)'
  BY <1>1, <1>2 DEF Fresh, WorkOf, Writing, SnapshotOf, TxType
<1>4. ~ HoldsSuite(j)' /\ ~ HoldsRun(j)'
  BY <1>1 DEF HoldsSuite, HoldsRun, TxType
<1>5. \A o \in Open : o # j => ApartFrom(j, o)'
  BY <1>3, <1>4, FreshApart
<1> QED BY <1>1, <1>3, <1>5, OneReport DEF FindSuite

\* It claims the suite, which no other open transaction holds.
LEMMA ClaimSuiteStep ==
    ASSUME Types, Rest, NEW j \in Reports, Types', ClaimSuite(j)
    PROVE  Rest'
<1>1. /\ tx' = tx /\ report'[j] = "match"
      /\ \A o \in Reports : o # j => report'[o] = report[o]
  BY DEF ClaimSuite, Types, Move
<1>2. Fresh(j)' /\ WorkOf(j)' /\ SnapshotOf(j)'
  BY <1>1 DEF ClaimSuite, Rest, Work, Fresh, WorkOf, Writing, SnapshotOf
<1>3. \A o \in Open : o # j => ApartFrom(j, o)'
  <2> SUFFICES ASSUME NEW o \in Open, o # j PROVE ApartFrom(j, o)'
    OBVIOUS
  <2>1. ~ HoldsSuite(o)
    BY DEF ClaimSuite, Free, Blockers
  <2>2. report'[o] = report[o] /\ tx'[o] = tx[o]
    BY <1>1 DEF Open
  <2>3. ~ HoldsSuite(o)'
    BY <2>1, <2>2 DEF HoldsSuite, Open
  <2>4. ~ HoldsRun(j)'
    BY <1>1 DEF HoldsRun
  <2> QED BY <1>2, <2>3, <2>4, FreshApart
<1> QED BY <1>1, <1>2, <1>3, OneReport DEF ClaimSuite

\* A step that writes no case keeps the report apart from the others.
LEMMA KeepApart ==
    ASSUME NEW j, NEW o, j \in Open, o \in Open, report'[o] = report[o], tx'[o] = tx[o],
           tx'[j].moved = tx[j].moved, tx'[j].made = tx[j].made, tx'[j].name = tx[j].name,
           tx'[j].seen = tx[j].seen, report[j] # "claim", ApartFrom(j, o),
           HoldsRun(j)' /\ HoldsRun(o) => RunOf[j] # RunOf[o]
    PROVE  ApartFrom(j, o)'
<1>1. Writes(o)' = Writes(o) /\ Writes(j)' = Writes(j)
  BY DEF Writes, ToSet
<1>2. HeldNames(o)' = HeldNames(o) /\ HeldNames(j)' = HeldNames(j)
  BY DEF HeldNames, ToSet
<1>3. (HoldsSuite(o)' => HoldsSuite(o)) /\ (HoldsSuite(j)' => HoldsSuite(j))
  BY DEF HoldsSuite
<1>4. HoldsRun(o)' <=> HoldsRun(o)
  BY DEF HoldsRun
<1> QED BY <1>1, <1>2, <1>3, <1>4 DEF ApartFrom

\* findLegacyKeyCollisions: a name two tests share is ambiguous.
LEMMA AmbiguousIs ==
    ASSUME Types, NEW j \in Reports, NEW k \in TestsOf(j), NEW l \in TestsOf(j), k # l,
           Bare[k] = Bare[l], Bare[k] \in Keys
    PROVE  Bare[k] \in Ambiguous(j)
<1> DEFINE S == {x \in TestsOf(j) : Bare[x] = Bare[k]}
<1>1. IsFiniteSet(S) /\ k \in S /\ l \in S
  BY TestsAre, FS_Subset
<1>2. Cardinality(S) \in Nat
  BY <1>1, FS_CardinalityType
<1>3. Cardinality(S) # 0
  BY <1>1, FS_EmptySet
<1>4. Cardinality(S) # 1
  BY <1>1, FS_Singleton
<1>5. Cardinality(S) > 1
  BY <1>2, <1>3, <1>4
<1> QED BY <1>5 DEF Ambiguous

\* No two drafts of a report have one name: of two tests with one bare name the
\* later one takes its key, which no other test has for its bare name.
LEMMA NamesDiffer ==
    ASSUME Types, NEW j \in Reports, NEW missing,
           \A k \in missing : k \in TestsOf(j) /\ Missing(j, k),
           NEW k \in missing, NEW l \in missing,
           DraftName(j, missing, k) = DraftName(j, missing, l)
    PROVE  k = l
<1> SUFFICES ASSUME k # l PROVE FALSE
  OBVIOUS
<1>1. k \in TestsOf(j) /\ l \in TestsOf(j) /\ k \in Keys /\ l \in Keys
  BY TestsAre
<1>2. \A x \in Keys : Bare[x] \in Keys /\ Bare[Bare[x]] = Bare[x]
  BY AdoptionAssumption
<1>3. ASSUME NEW x \in {k, l}, NEW y \in {k, l}, x # y, DraftName(j, missing, x) = x,
             DraftName(j, missing, y) = Bare[y], x = Bare[y] PROVE FALSE
  <2>1. Bare[x] = Bare[y] /\ Bare[x] = x
    BY <1>1, <1>2, <1>3
  <2>2. x \in Ambiguous(j)
    BY <1>1, <1>2, <1>3, <2>1, AmbiguousIs
  <2> QED BY <2>2 DEF Missing
<1>4. \A x : DraftName(j, missing, x) = x \/ DraftName(j, missing, x) = Bare[x]
  BY DEF DraftName
<1>5. DraftName(j, missing, k) = k => FALSE
  BY <1>3, <1>4
<1>6. DraftName(j, missing, l) = l => FALSE
  BY <1>3, <1>4
<1>7. Bare[k] = Bare[l]
  BY <1>4, <1>5, <1>6
<1>8. Before(j, k, l) \/ Before(j, l, k)
  BY <1>1, Ordered
<1> QED BY <1>5, <1>6, <1>7, <1>8 DEF DraftName

\* reconcile matches the tests: each to a row, or to a draft with a name.
LEMMA MatchStep ==
    ASSUME Types, Rest, NEW j \in Reports, Types', Match(j)
    PROVE  Rest'
<1> DEFINE missing == {k \in TestsOf(j) : Missing(j, k)}
           link == [k \in Matched(j) |-> CHOOSE i \in RowOf(j, k) : TRUE]
           name == [k \in missing |-> DraftName(j, missing, k)]
           todo == {k \in TestsOf(j) : Moving(j, k)} \cup missing
<1>0. tx[j] \in TxType
  BY DEF Types
<1>1. /\ tx'[j].link = link /\ tx'[j].missing = missing /\ tx'[j].name = name
      /\ tx'[j].todo = todo
      /\ tx'[j].moved = tx[j].moved /\ tx'[j].made = tx[j].made /\ tx'[j].seen = tx[j].seen
  <2>1. PICK t : t = [tx[j] EXCEPT !.link = link, !.missing = missing, !.name = name, !.todo = todo]
    OBVIOUS
  <2>2. tx'[j] = t
    BY <2>1 DEF Match, Types
  <2> HIDE DEF link, missing, name, todo
  <2>3. /\ t.link = link /\ t.missing = missing /\ t.name = name /\ t.todo = todo
        /\ t.moved = tx[j].moved /\ t.made = tx[j].made /\ t.seen = tx[j].seen
    BY <1>0, <2>1 DEF TxType
  <2> QED BY <2>2, <2>3
<1>2. /\ report'[j] = "cases" /\ report[j] = "match"
      /\ \A o \in Reports : o # j => report'[o] = report[o] /\ tx'[o] = tx[o]
  BY DEF Match, Types, Move
<1>3. Ids' = Ids /\ TestsOf(j)' = TestsOf(j)
  BY DEF Match, Ids, TestsOf, ToSet
<1>4. \A k \in DOMAIN link : link[k] \in Ids
  <2>1. \A k \in Matched(j) : (CHOOSE i \in RowOf(j, k) : TRUE) \in RowOf(j, k)
    BY DEF Matched
  <2> QED BY <2>1, RowOfType
<1>5. \A k, l \in missing : name[k] = name[l] => k = l
  BY NamesDiffer
<1>6. todo \cup missing \subseteq TestsOf(j)
  OBVIOUS
<1>7. DOMAIN link \cap missing = {} /\ todo \subseteq DOMAIN link \cup missing
  BY DEF Matched, Missing, Moving, RowOf
<1>8. DOMAIN link = Matched(j) /\ DOMAIN name = missing
  OBVIOUS
<1> HIDE DEF link, missing, name, todo
<1>9. Reads(j)'
  BY <1>1, <1>3, <1>4, <1>5, <1>6, <1>7, <1>8 DEF Reads
<1>10. Fresh(j) /\ Fresh(j)'
  BY <1>1, <1>2 DEF Rest, Work, WorkOf, Writing, Fresh
<1>11. Moves(j)' /\ Drafts(j)'
  BY <1>10 DEF Fresh, Moves, Drafts
<1>12. WorkOf(j)' /\ SnapshotOf(j)'
  BY <1>2, <1>9, <1>11 DEF WorkOf, Writing, SnapshotOf
<1>13. \A o \in Open : o # j => ApartFrom(j, o)'
  <2> SUFFICES ASSUME NEW o \in Open, o # j PROVE ApartFrom(j, o)'
    OBVIOUS
  <2>1. j \in Open /\ o \in Reports
    BY <1>2 DEF Open
  <2>2. ApartFrom(j, o)
    BY <2>1 DEF Rest, Apart
  <2>3. ~ HoldsRun(j)'
    BY <1>2 DEF HoldsRun
  <2>4. HoldsSuite(j)' => ~ HoldsSuite(o)'
    BY <1>1, <1>2, <2>1, <2>2 DEF HoldsSuite, Open, ApartFrom
  <2> QED BY <1>10, <2>3, <2>4, FreshApart
<1> QED BY <1>2, <1>12, <1>13, OneReport DEF Match

\* A row is read, written or locked: the content of the linked cases, the run's
\* row, which no other open transaction holds, its previous rows.
LEMMA RelinkStep ==
    ASSUME Types, Rest, NEW j \in Reports, Types', Relink(j)
    PROVE  Rest'
<1> DEFINE found == {k \in tx[j].missing : WithKey(k) # {}}
           link == [k \in found \cup DOMAIN tx[j].link |->
                      IF k \in found THEN CHOOSE i \in WithKey(k) : TRUE ELSE tx[j].link[k]]
           version == [k \in DOMAIN link |-> cases[link[k]].version]
<1>0. tx[j] \in TxType
  BY DEF Types
<1>1. /\ tx'[j].link = link /\ tx'[j].version = version /\ tx'[j].missing = tx[j].missing
      /\ tx'[j].name = tx[j].name /\ tx'[j].todo = tx[j].todo /\ tx'[j].seen = tx[j].seen
      /\ tx'[j].moved = tx[j].moved /\ tx'[j].made = tx[j].made
  BY <1>0 DEF Relink, Types, TxType
<1>2. /\ report'[j] = "run" /\ report[j] = "cases"
      /\ \A o \in Reports : o # j => report'[o] = report[o] /\ tx'[o] = tx[o]
  BY DEF Relink, Types, Move
<1>3. Ids' = Ids /\ TestsOf(j)' = TestsOf(j) /\ \A k : WithKey(k)' = WithKey(k)
  BY DEF Relink, Ids, TestsOf, ToSet, WithKey
<1>4. Reads(j) /\ Moves(j) /\ Drafts(j)
  BY <1>2 DEF Rest, Work, WorkOf, Writing
<1>5. \A k \in DOMAIN link : link[k] \in Ids
  <2>1. \A k \in found : (CHOOSE i \in WithKey(k) : TRUE) \in WithKey(k)
    OBVIOUS
  <2> QED BY <1>4, <2>1 DEF WithKey, Reads
<1>6. DOMAIN version = DOMAIN link /\ \A k, l \in DOMAIN link : link[k] = link[l] => version[k] = version[l]
  OBVIOUS
<1> HIDE DEF link, version
<1>7. Reads(j)'
  BY <1>1, <1>2, <1>3, <1>4, <1>5 DEF Reads
<1>8. Moves(j)' /\ Drafts(j)'
  <2>1. \A k : Taken(j, k)' <=> Taken(j, k)
    BY <1>1, <1>3 DEF Taken, Relink
  <2> QED BY <1>1, <1>3, <1>4, <2>1 DEF Moves, Drafts
<1>9. WorkOf(j)' /\ SnapshotOf(j)'
  BY <1>1, <1>2, <1>6, <1>7, <1>8 DEF WorkOf, Writing, SnapshotOf
<1>10. \A o \in Open : o # j => ApartFrom(j, o)'
  <2> SUFFICES ASSUME NEW o \in Open, o # j PROVE ApartFrom(j, o)'
    OBVIOUS
  <2>1. j \in Open /\ o \in Reports
    BY <1>2 DEF Open
  <2>2. ApartFrom(j, o)
    BY <2>1 DEF Rest, Apart
  <2>3. ~ HoldsRun(j)'
    BY <1>2 DEF HoldsRun
  <2> QED BY <1>1, <1>2, <2>1, <2>2, <2>3, KeepApart
<1> QED BY <1>2, <1>9, <1>10, OneReport DEF Relink

\* Every other step of an open transaction leaves what it matched and wrote.
LEMMA LockStep ==
    ASSUME Types, Rest, NEW j \in Reports, Types', UpsertRun(j) \/ DeleteRows(j)
    PROVE  Rest'
<1>0. tx[j] \in TxType
  BY DEF Types
<1>1. /\ tx'[j].link = tx[j].link /\ tx'[j].version = tx[j].version
      /\ tx'[j].missing = tx[j].missing
      /\ tx'[j].name = tx[j].name /\ tx'[j].todo = tx[j].todo /\ tx'[j].seen = tx[j].seen
      /\ tx'[j].moved = tx[j].moved /\ tx'[j].made = tx[j].made
  BY <1>0 DEF UpsertRun, DeleteRows, Types, TxType
<1>2. /\ UpsertRun(j) => report[j] = "run" /\ report'[j] = "rows"
      /\ DeleteRows(j) => /\ report[j] = "rows" /\ report'[j] = "save"
                          /\ tx'[j].old = rows[RunOf[j]]
      /\ \A o \in Reports : o # j => report'[o] = report[o] /\ tx'[o] = tx[o]
      /\ UNCHANGED <<suite, cases, rows, by, tests>>
  BY <1>0 DEF UpsertRun, DeleteRows, Types, TxType, Move
<1>3. Ids' = Ids /\ TestsOf(j)' = TestsOf(j) /\ \A k : WithKey(k)' = WithKey(k)
  BY <1>2 DEF Ids, TestsOf, ToSet, WithKey
<1>4. Reads(j) /\ Moves(j) /\ Drafts(j)
  BY <1>2 DEF Rest, Work, WorkOf, Writing
<1>5. Reads(j)'
  BY <1>1, <1>2, <1>3, <1>4 DEF Reads
<1>6. Moves(j)' /\ Drafts(j)'
  <2>1. \A k : Taken(j, k)' <=> Taken(j, k)
    BY <1>1, <1>2, <1>3 DEF Taken
  <2> QED BY <1>1, <1>3, <1>4, <2>1 DEF Moves, Drafts
<1>7. SnapshotOf(j)
  BY DEF Rest, Snapshots
<1>8. WorkOf(j)' /\ SnapshotOf(j)'
  BY <1>1, <1>2, <1>5, <1>6, <1>7 DEF WorkOf, Writing, SnapshotOf
<1>9. \A o \in Open : o # j => ApartFrom(j, o)'
  <2> SUFFICES ASSUME NEW o \in Open, o # j PROVE ApartFrom(j, o)'
    OBVIOUS
  <2>1. j \in Open /\ o \in Reports /\ report[j] # "claim"
    BY <1>2 DEF Open
  <2>2. ApartFrom(j, o)
    BY <2>1 DEF Rest, Apart
  <2>3. HoldsRun(j)' /\ HoldsRun(o) => RunOf[j] # RunOf[o]
    <3>1. CASE UpsertRun(j)
      BY <3>1, <1>2 DEF UpsertRun, Free, Blockers
    <3>2. CASE DeleteRows(j)
      BY <3>2, <1>2, <2>2 DEF HoldsRun, ApartFrom
    <3> QED BY <3>1, <3>2
  <2> QED BY <1>1, <1>2, <2>1, <2>2, <2>3, KeepApart
<1> QED BY <1>2, <1>8, <1>9, OneReport

\* What follows the commit writes nothing.
LEMMA FinishStep ==
    ASSUME Types, Rest, NEW j \in Reports, Types', Finish(j)
    PROVE  Rest'
<1>1. /\ tx' = tx /\ report'[j] = "done" /\ report[j] = "saved"
      /\ \A o \in Reports : o # j => report'[o] = report[o]
  BY DEF Finish, Types, Move
<1>2. WorkOf(j)' /\ SnapshotOf(j)' /\ ~ (j \in Open)'
  BY <1>1 DEF Rest, Work, Fresh, WorkOf, Writing, SnapshotOf, Open
<1> QED BY <1>1, <1>2, OneReport DEF Finish

\* A key a transaction has written is one that others wait for.
LEMMA WritesHeld == ASSUME NEW o PROVE Writes(o) \subseteq HeldKeys(o)
<1>1. ASSUME NEW i \in DOMAIN tx[o].moved PROVE tx[o].moved[i] \in HeldKeys(o)
  <2>1. tx[o].moved[i] \in {tx[o].moved[i], cases[i].key}
    OBVIOUS
  <2> QED BY <2>1 DEF HeldKeys
<1>2. ToSet(tx[o].made) \subseteq HeldKeys(o)
  BY DEF HeldKeys
<1> QED BY <1>1, <1>2 DEF Writes

\* migrateAutomationKeys: the key goes to the linked row, where no other row has
\* it and no open transaction has written it; else the test to the row that has it.
LEMMA MoveKeyStep ==
    ASSUME Types, Rest, NEW j \in Reports, NEW k \in TestsOf(j), Types', MoveKey(j, k)
    PROVE  Rest'
<1> DEFINE i == tx[j].link[k]
           owners == WithKey(k) \ {i}
           o == CHOOSE x \in owners : TRUE
<1>0. tx[j] \in TxType /\ k \in Keys
  BY TestsAre DEF Types
<1>1. /\ report[j] = "cases" /\ report' = report /\ UNCHANGED <<suite, cases, rows, by, tests>>
      /\ k \in DOMAIN tx[j].link /\ k \in tx[j].todo /\ Free(j) /\ Due(j, k) /\ Migrates(j, k)
      /\ \A p \in Reports : p # j => tx'[p] = tx[p]
  BY DEF MoveKey, Migrates, Due, Types
<1>2. /\ tx'[j].missing = tx[j].missing /\ tx'[j].name = tx[j].name /\ tx'[j].seen = tx[j].seen
      /\ tx'[j].made = tx[j].made /\ tx'[j].todo = tx[j].todo \ {k}
      /\ owners = {} => tx'[j].moved = Put(tx[j].moved, i, k) /\ tx'[j].link = tx[j].link
      /\ owners # {} => /\ tx'[j].link = [tx[j].link EXCEPT ![k] = o]
                        /\ tx'[j].moved = tx[j].moved
  <2>1. CASE owners = {}
    <3>1. PICK t : t = [tx[j] EXCEPT !.moved = Put(@, i, k), !.todo = @ \ {k}]
      OBVIOUS
    <3>2. tx'[j] = t
      BY <2>1, <3>1 DEF MoveKey, Types
    <3> HIDE DEF i, owners, o
    <3>3. /\ t.moved = Put(tx[j].moved, i, k) /\ t.todo = tx[j].todo \ {k} /\ t.link = tx[j].link
          /\ t.missing = tx[j].missing /\ t.name = tx[j].name /\ t.seen = tx[j].seen
          /\ t.made = tx[j].made
      BY <1>0, <3>1 DEF TxType
    <3> QED BY <2>1, <3>2, <3>3
  <2>2. CASE owners # {}
    <3>1. PICK t : t = [tx[j] EXCEPT !.link = [@ EXCEPT ![k] = o], !.todo = @ \ {k}]
      OBVIOUS
    <3>2. tx'[j] = t
      BY <2>2, <3>1 DEF MoveKey, Types
    <3> HIDE DEF i, owners, o
    <3>3. /\ t.link = [tx[j].link EXCEPT ![k] = o] /\ t.todo = tx[j].todo \ {k}
          /\ t.moved = tx[j].moved /\ t.missing = tx[j].missing /\ t.name = tx[j].name
          /\ t.seen = tx[j].seen /\ t.made = tx[j].made
      BY <1>0, <3>1 DEF TxType
    <3> QED BY <2>2, <3>2, <3>3
  <2> QED BY <2>1, <2>2
<1>3. Ids' = Ids /\ TestsOf(j)' = TestsOf(j) /\ \A x : WithKey(x)' = WithKey(x)
  BY <1>1 DEF Ids, TestsOf, ToSet, WithKey
<1>4. Reads(j) /\ Moves(j) /\ Drafts(j)
  BY <1>1 DEF Rest, Work, WorkOf, Writing
<1>5. i \in Ids /\ i \in Nat /\ k \notin tx[j].missing
  BY <1>1, <1>4, IdsAre DEF Reads, Rest
<1>6. owners # {} => o \in Ids
  <2>1. owners # {} => o \in owners
    OBVIOUS
  <2> QED BY <2>1 DEF WithKey
<1>7. owners = {} => /\ DOMAIN tx'[j].moved = DOMAIN tx[j].moved \cup {i} /\ tx'[j].moved[i] = k
                     /\ \A x \in DOMAIN tx[j].moved : x # i => tx'[j].moved[x] = tx[j].moved[x]
  <2> DEFINE f == tx[j].moved
  <2>1. f \in Partial(Nat, Keys) /\ i \in Nat /\ k \in Keys
    BY <1>0, <1>5 DEF TxType
  <2>2. owners = {} => tx'[j].moved = Put(f, i, k)
    BY <1>2
  <2> HIDE DEF f, i
  <2>3. DOMAIN Put(f, i, k) = DOMAIN f \cup {i} /\ Put(f, i, k)[i] = k
    BY DEF Put
  <2>4. \A x \in DOMAIN f : x # i => Put(f, i, k)[x] = f[x]
    BY DEF Put
  <2> QED BY <2>2, <2>3, <2>4 DEF f
<1>8. owners = {} => WithKey(k) \subseteq {i}
  OBVIOUS
<1> HIDE DEF owners, o
<1>9. Reads(j)'
  <2>1. DOMAIN tx'[j].link = DOMAIN tx[j].link /\ \A x \in DOMAIN tx[j].link : tx'[j].link[x] \in Ids
    BY <1>1, <1>2, <1>4, <1>6 DEF Reads
  <2> QED BY <2>1, <1>1, <1>2, <1>3, <1>4 DEF Reads
<1>10. Moves(j)'
  <2>1. CASE owners = {}
    <3>1. DOMAIN tx'[j].moved \subseteq Ids
      BY <2>1, <1>4, <1>5, <1>7 DEF Moves
    <3>2. ASSUME NEW x \in DOMAIN tx'[j].moved
          PROVE  /\ tx'[j].moved[x] \notin tx'[j].todo \cup tx'[j].missing
                 /\ WithKey(tx'[j].moved[x]) \subseteq {x}
      <4>1. CASE x = i
        BY <4>1, <2>1, <1>2, <1>5, <1>7, <1>8
      <4>2. CASE x # i
        BY <4>2, <2>1, <1>2, <1>4, <1>7 DEF Moves
      <4> QED BY <4>1, <4>2
    <3>3. ASSUME NEW x \in DOMAIN tx'[j].moved, NEW y \in DOMAIN tx'[j].moved,
                 tx'[j].moved[x] = tx'[j].moved[y] PROVE x = y
      BY <2>1, <3>3, <1>1, <1>4, <1>7 DEF Moves
    <3> QED BY <3>1, <3>2, <3>3, <1>3 DEF Moves
  <2>2. CASE owners # {}
    BY <2>2, <1>2, <1>3, <1>4 DEF Moves
  <2> QED BY <2>1, <2>2
<1>11. Drafts(j)'
  <2>1. \A x : Taken(j, x)' <=> Taken(j, x)
    BY <1>1, <1>2, <1>3 DEF Taken
  <2> QED BY <1>2, <1>4, <2>1 DEF Drafts
<1>12. WorkOf(j)' /\ SnapshotOf(j)'
  BY <1>1, <1>9, <1>10, <1>11 DEF WorkOf, Writing, SnapshotOf
<1>13. ASSUME NEW p \in Open, p # j PROVE ApartFrom(j, p)'
  <2>1. j \in Open /\ p \in Reports
    BY <1>1 DEF Open
  <2>2. ApartFrom(j, p)
    BY <2>1, <1>13 DEF Rest, Apart
  <2>3. k \notin HeldKeys(p) /\ i \notin DOMAIN tx[p].moved
    BY <1>1, <1>13 DEF Free, Blockers
  <2>4. k \notin Writes(p)
    BY <2>3, WritesHeld
  <2>5. Writes(j)' \subseteq Writes(j) \cup {k} /\ DOMAIN tx'[j].moved \subseteq DOMAIN tx[j].moved \cup {i}
    BY <1>2, <1>7 DEF Writes, ToSet
  <2>6. Writes(p)' = Writes(p) /\ HeldNames(p)' = HeldNames(p) /\ HeldNames(j)' = HeldNames(j)
    BY <1>1, <1>2, <1>13, <2>1 DEF Writes, HeldNames, ToSet
  <2>7. (HoldsSuite(j)' <=> HoldsSuite(j)) /\ (HoldsSuite(p)' <=> HoldsSuite(p)) /\ ~ HoldsRun(j)'
    BY <1>1, <1>2, <1>13, <2>1 DEF HoldsSuite, HoldsRun, Open
  <2>8. tx'[p] = tx[p]
    BY <1>1, <1>13, <2>1
  <2> QED BY <2>2, <2>3, <2>4, <2>5, <2>6, <2>7, <2>8 DEF ApartFrom
<1> QED BY <1>1, <1>12, <1>13, OneReport

\* createMany: a draft whose key and name are free, in the table and among the
\* values other open transactions have written.
LEMMA DraftStep ==
    ASSUME Types, Rest, NEW j \in Reports, NEW k \in TestsOf(j), Types', Draft(j, k)
    PROVE  Rest'
<1>0. tx[j] \in TxType /\ k \in Keys
  BY TestsAre DEF Types
<1>1. /\ report[j] = "cases" /\ report' = report /\ UNCHANGED <<suite, cases, rows, by, tests>>
      /\ k \notin DOMAIN tx[j].link /\ k \in tx[j].todo /\ Free(j) /\ Due(j, k) /\ ~ Migrates(j, k)
      /\ \A p \in Reports : p # j => tx'[p] = tx[p]
  BY DEF Draft, Migrates, Due, Types
<1>2. /\ tx'[j].missing = tx[j].missing /\ tx'[j].name = tx[j].name /\ tx'[j].seen = tx[j].seen
      /\ tx'[j].moved = tx[j].moved /\ tx'[j].link = tx[j].link
      /\ tx'[j].todo = tx[j].todo \ {k}
      /\ tx'[j].made = IF Taken(j, k) THEN tx[j].made ELSE Append(tx[j].made, k)
  BY <1>0 DEF Draft, Types, TxType
<1>3. Ids' = Ids /\ TestsOf(j)' = TestsOf(j) /\ \A x : WithKey(x)' = WithKey(x)
  BY <1>1 DEF Ids, TestsOf, ToSet, WithKey
<1>4. Reads(j) /\ Moves(j) /\ Drafts(j)
  BY <1>1 DEF Rest, Work, WorkOf, Writing
<1>5. k \in tx[j].missing
  BY <1>1, <1>4 DEF Reads
<1>6. Reads(j)'
  BY <1>1, <1>2, <1>3, <1>4 DEF Reads
<1>7. Moves(j)'
  BY <1>2, <1>3, <1>4 DEF Moves
<1>8. /\ tx[j].made \in Seq(Keys)
      /\ \A n \in DOMAIN tx'[j].made :
            \/ n \in DOMAIN tx[j].made /\ tx'[j].made[n] = tx[j].made[n]
            \/ ~ Taken(j, k) /\ n = Len(tx[j].made) + 1 /\ tx'[j].made[n] = k
  BY <1>0, <1>2 DEF TxType
<1>9. Drafts(j)'
  <2>1. \A x : Taken(j, x)' <=> Taken(j, x)
    BY <1>1, <1>2, <1>3 DEF Taken
  <2>2. \A n \in DOMAIN tx[j].made : tx[j].made[n] # k
    BY <1>1, <1>4 DEF Drafts
  <2>3. \A n \in DOMAIN tx'[j].made : /\ tx'[j].made[n] \in tx'[j].missing \ tx'[j].todo
                                      /\ ~ Taken(j, tx'[j].made[n])
    BY <1>2, <1>4, <1>5, <1>8 DEF Drafts
  <2>4. \A m, n \in DOMAIN tx'[j].made : tx'[j].made[m] = tx'[j].made[n] => m = n
    BY <1>4, <1>8, <2>2 DEF Drafts
  <2> QED BY <2>1, <2>3, <2>4 DEF Drafts
<1>10. WorkOf(j)' /\ SnapshotOf(j)'
  BY <1>1, <1>6, <1>7, <1>9 DEF WorkOf, Writing, SnapshotOf
<1>11. ASSUME NEW p \in Open, p # j PROVE ApartFrom(j, p)'
  <2>1. j \in Open /\ p \in Reports
    BY <1>1 DEF Open
  <2>2. ApartFrom(j, p)
    BY <2>1, <1>11 DEF Rest, Apart
  <2>3. k \notin HeldKeys(p) /\ tx[j].name[k] \notin HeldNames(p)
    BY <1>1, <1>11 DEF Free, Blockers
  <2>4. k \notin Writes(p)
    BY <2>3, WritesHeld
  <2>5. ToSet(tx'[j].made) \subseteq ToSet(tx[j].made) \cup {k}
    BY <1>8 DEF ToSet
  <2>6. Writes(j)' \subseteq Writes(j) \cup {k} /\ HeldNames(j)' \subseteq HeldNames(j) \cup {tx[j].name[k]}
    BY <1>2, <2>5 DEF Writes, HeldNames
  <2>7. Writes(p)' = Writes(p) /\ HeldNames(p)' = HeldNames(p)
    BY <1>1, <1>11, <2>1 DEF Writes, HeldNames, ToSet
  <2>8. (HoldsSuite(j)' <=> HoldsSuite(j)) /\ (HoldsSuite(p)' <=> HoldsSuite(p)) /\ ~ HoldsRun(j)'
    BY <1>1, <1>2, <1>11, <2>1 DEF HoldsSuite, HoldsRun, Open
  <2>9. tx'[p] = tx[p]
    BY <1>1, <1>11, <2>1
  <2> QED BY <1>2, <2>2, <2>3, <2>4, <2>6, <2>7, <2>8, <2>9 DEF ApartFrom
<1> QED BY <1>1, <1>10, <1>11, OneReport

-----------------------------------------------------------------------------
(* The commit, and a version published in between                          *)

\* What the commit makes of the cases: a moved row takes its key, the others
\* stay, and the drafts follow.
LEMMA SaveIs ==
    ASSUME Types, Rest, NEW j \in Reports, Save(j)
    PROVE  LET t == tx[j] IN
           /\ cases' \in Seq(RowType) /\ t.made \in Seq(Keys)
           /\ Len(cases') = Len(cases) + Len(t.made)
           /\ \A i \in Ids : /\ cases'[i].name = cases[i].name
                             /\ cases'[i].key = IF i \in DOMAIN t.moved THEN t.moved[i] ELSE cases[i].key
           /\ \A n \in DOMAIN t.made : /\ cases'[Len(cases) + n].key = t.made[n]
                                       /\ cases'[Len(cases) + n].name = t.name[t.made[n]]
<1> DEFINE t == tx[j]
           a == [i \in Ids |-> IF i \in DOMAIN t.moved
                               THEN [cases[i] EXCEPT !.key = t.moved[i]] ELSE cases[i]]
           b == [n \in DOMAIN t.made |->
                   [key |-> t.made[n], name |-> t.name[t.made[n]], version |-> 0]]
<1>0. t \in TxType /\ t.made \in Seq(Keys)
  BY DEF Types, TxType
<1>1. Reads(j) /\ Moves(j) /\ Drafts(j)
  BY DEF Save, Rest, Work, WorkOf, Writing
<1>2. \A i \in DOMAIN t.moved : t.moved[i] \in Keys
  BY <1>0, PartialHas DEF TxType
<1>3. a \in [Ids -> RowType]
  <2>1. \A i \in Ids : cases[i] \in RowType
    BY IdsAre DEF Rest
  <2> QED BY <1>2, <2>1 DEF RowType
<1>4. b \in [DOMAIN t.made -> RowType]
  <2>1. \A n \in DOMAIN t.made : t.made[n] \in Keys /\ t.made[n] \in DOMAIN t.name
    BY <1>0, <1>1 DEF Drafts, Reads
  <2>2. \A k \in DOMAIN t.name : t.name[k] \in Keys
    BY <1>0, PartialHas DEF TxType
  <2> QED BY <2>1, <2>2, AdoptionAssumption DEF RowType
<1>5. a \in Seq(RowType) /\ Len(a) = Len(cases)
  BY <1>3, IdsAre DEF Rest, Ids
<1>6. b \in Seq(RowType) /\ Len(b) = Len(t.made)
  <2>1. DOMAIN t.made = 1 .. Len(t.made) /\ Len(t.made) \in Nat
    BY <1>0
  <2> QED BY <1>4, <2>1
<1>7. cases' = a \o b
  BY DEF Save
<1>8. \A i \in Ids : /\ a[i].name = cases[i].name
                     /\ a[i].key = IF i \in DOMAIN t.moved THEN t.moved[i] ELSE cases[i].key
  <2>1. \A i \in Ids : cases[i] \in RowType
    BY IdsAre DEF Rest
  <2> QED BY <2>1 DEF RowType
<1>9. \A n \in DOMAIN t.made : b[n].key = t.made[n] /\ b[n].name = t.name[t.made[n]]
  OBVIOUS
<1> HIDE DEF a, b
<1>10. cases' \in Seq(RowType) /\ Len(cases') = Len(cases) + Len(t.made)
  <2>1. a \o b \in Seq(RowType) /\ Len(a \o b) = Len(a) + Len(b)
    BY <1>5, <1>6, ConcatProperties
  <2> QED BY <1>5, <1>6, <1>7, <2>1
<1>11. \A i \in Ids : cases'[i] = a[i]
  BY <1>5, <1>6, <1>7 DEF Ids
<1>12. \A n \in DOMAIN t.made : cases'[Len(cases) + n] = b[n]
  BY <1>0, <1>5, <1>6, <1>7
<1> QED BY <1>0, <1>8, <1>9, <1>10, <1>11, <1>12

\* A committed row is an old one, under its key or a moved one, or a draft.
LEMMA SaveRows ==
    ASSUME Types, Rest, NEW j \in Reports, Save(j), NEW x \in Ids'
    PROVE  \/ /\ x \in Ids /\ cases'[x].name = cases[x].name
              /\ cases'[x].key = IF x \in DOMAIN tx[j].moved THEN tx[j].moved[x] ELSE cases[x].key
           \/ \E n \in DOMAIN tx[j].made :
                 /\ x = Len(cases) + n /\ cases'[x].key = tx[j].made[n]
                 /\ cases'[x].name = tx[j].name[tx[j].made[n]]
<1>1. Len(cases) \in Nat /\ Len(tx[j].made) \in Nat /\ DOMAIN tx[j].made = 1 .. Len(tx[j].made)
      /\ Len(cases') = Len(cases) + Len(tx[j].made)
  BY SaveIs, IdsAre DEF Rest
<1>2. CASE x \in Ids
  BY <1>2, SaveIs
<1>3. CASE x \notin Ids
  <2>1. x - Len(cases) \in DOMAIN tx[j].made /\ x = Len(cases) + (x - Len(cases))
    BY <1>1, <1>3 DEF Ids
  <2> DEFINE n == x - Len(cases)
  <2> HIDE DEF n
  <2>2. n \in DOMAIN tx[j].made /\ x = Len(cases) + n
    BY <2>1 DEF n
  <2> QED BY <2>2, SaveIs
<1> QED BY <1>2, <1>3

\* The commit keeps names and keys unique.
LEMMA SaveTable ==
    ASSUME Types, Rest, NEW j \in Reports, Save(j)
    PROVE  Table'
<1> DEFINE t == tx[j]
<1>1. Reads(j) /\ Moves(j) /\ Drafts(j)
  BY DEF Save, Rest, Work, WorkOf, Writing
<1>2. cases' \in Seq(RowType) /\ DOMAIN cases' = Ids'
  BY SaveIs DEF Ids
<1>3. Unique(cases) /\ DOMAIN cases = Ids
  BY IdsAre DEF Rest, Table
<1>4. ASSUME NEW x \in Ids', NEW y \in Ids', x # y
      PROVE  cases'[x].name # cases'[y].name /\ (cases'[x].key # cases'[y].key \/ cases'[x].key = None)
  <2> DEFINE Old(z) == /\ z \in Ids /\ cases'[z].name = cases[z].name
                       /\ cases'[z].key = IF z \in DOMAIN t.moved THEN t.moved[z] ELSE cases[z].key
             New(z) == \E n \in DOMAIN t.made :
                          /\ z = Len(cases) + n /\ cases'[z].key = t.made[n]
                          /\ cases'[z].name = t.name[t.made[n]]
  <2>1. (Old(x) \/ New(x)) /\ (Old(y) \/ New(y))
    BY SaveRows
  <2>2. ASSUME NEW u \in Ids', NEW v \in Ids', u # v, Old(u), Old(v)
        PROVE  cases'[u].name # cases'[v].name /\ (cases'[u].key # cases'[v].key \/ cases'[u].key = None)
    <3>1. cases'[u].name # cases'[v].name
      BY <2>2, <1>3 DEF Unique
    <3>0. /\ u \in Ids /\ v \in Ids
          /\ cases'[u].key = IF u \in DOMAIN t.moved THEN t.moved[u] ELSE cases[u].key
          /\ cases'[v].key = IF v \in DOMAIN t.moved THEN t.moved[v] ELSE cases[v].key
          /\ \A z \in DOMAIN t.moved : WithKey(t.moved[z]) \subseteq {z}
          /\ \A w, z \in DOMAIN t.moved : t.moved[w] = t.moved[z] => w = z
      BY <2>2, <1>1 DEF Moves
    <3> HIDE DEF t
    <3>2. CASE u \in DOMAIN t.moved /\ v \in DOMAIN t.moved
      BY <2>2, <3>0, <3>1, <3>2
    <3>3. CASE u \in DOMAIN t.moved /\ v \notin DOMAIN t.moved
      BY <2>2, <3>0, <3>1, <3>3 DEF WithKey
    <3>4. CASE u \notin DOMAIN t.moved /\ v \in DOMAIN t.moved
      BY <2>2, <3>0, <3>1, <3>4 DEF WithKey
    <3>5. CASE u \notin DOMAIN t.moved /\ v \notin DOMAIN t.moved
      BY <2>2, <3>0, <3>5, <1>3 DEF Unique
    <3> QED BY <3>1, <3>2, <3>3, <3>4, <3>5
  <2>3. ASSUME NEW u \in Ids', NEW v \in Ids', Old(u), New(v)
        PROVE  cases'[u].name # cases'[v].name /\ cases'[u].key # cases'[v].key
    <3>1. PICK n \in DOMAIN t.made : cases'[v].key = t.made[n] /\ cases'[v].name = t.name[t.made[n]]
      BY <2>3
    <3>2. WithKey(t.made[n]) = {} /\ cases[u].name # t.name[t.made[n]] /\ t.made[n] \in t.missing
      BY <1>1, <2>3 DEF Drafts, Taken
    <3>3. cases'[u].key # t.made[n]
      BY <1>1, <2>3, <3>2 DEF Moves, WithKey
    <3> QED BY <2>3, <3>1, <3>2, <3>3
  <2>4. ASSUME New(x), New(y)
        PROVE  cases'[x].name # cases'[y].name /\ cases'[x].key # cases'[y].key
    <3>1. PICK m \in DOMAIN t.made : x = Len(cases) + m /\ cases'[x].key = t.made[m]
                                     /\ cases'[x].name = t.name[t.made[m]]
      BY <2>4
    <3>2. PICK n \in DOMAIN t.made : y = Len(cases) + n /\ cases'[y].key = t.made[n]
                                     /\ cases'[y].name = t.name[t.made[n]]
      BY <2>4
    <3>3. t.made[m] # t.made[n]
      BY <1>1, <1>4, <3>1, <3>2 DEF Drafts
    <3>4. t.made[m] \in t.missing /\ t.made[n] \in t.missing
      BY <1>1 DEF Drafts
    <3> QED BY <1>1, <3>1, <3>2, <3>3, <3>4 DEF Reads
  <2> HIDE DEF Old, New
  <2> QED BY <1>4, <2>1, <2>2, <2>3, <2>4
<1> QED BY <1>2, <1>4 DEF Table, Unique

\* No key or name it commits is one that another open transaction has written.
LEMMA SaveWork ==
    ASSUME Types, Rest, NEW j \in Reports, Save(j)
    PROVE  Work'
<1>0. report[j] = "save" /\ report'[j] = "saved" /\ tx'[j] = NoTx
      /\ \A o \in Reports : o # j => report'[o] = report[o] /\ tx'[o] = tx[o]
  BY DEF Save, Types, Move
<1>1. WorkOf(j)'
  BY <1>0 DEF WorkOf, Writing, Fresh, NoTx
<1>2. ASSUME NEW o \in Reports, o # j PROVE WorkOf(o)'
  <2>1. report'[o] = report[o] /\ tx'[o] = tx[o]
    BY <1>0, <1>2
  <2>2. CASE ~ Writing(o)
    BY <2>1, <2>2 DEF Rest, Work, WorkOf, Writing, Fresh
  <2>3. CASE Writing(o)
    <3>1. Reads(o) /\ Moves(o) /\ Drafts(o)
      BY <2>3 DEF Rest, Work, WorkOf
    <3>2. Ids \subseteq Ids' /\ TestsOf(o)' = TestsOf(o)
      <4>1. Len(cases) \in Nat /\ Len(tx[j].made) \in Nat /\ Len(cases') = Len(cases) + Len(tx[j].made)
        BY SaveIs, IdsAre DEF Rest
      <4>2. TestsOf(o)' = TestsOf(o)
        BY DEF Save, TestsOf, ToSet
      <4> QED BY <4>1, <4>2 DEF Ids
    <3>3. ApartFrom(j, o)
      BY <1>0, <1>2, <2>3 DEF Rest, Apart, Open, Writing
    <3>4. \A k \in Writes(o) : WithKey(k)' \subseteq WithKey(k)
      <4> SUFFICES ASSUME NEW k \in Writes(o), NEW x \in WithKey(k)' PROVE x \in WithKey(k)
        OBVIOUS
      <4>1. x \in Ids' /\ cases'[x].key = k
        BY DEF WithKey
      <4>2. k \notin Writes(j)
        BY <3>3 DEF ApartFrom
      <4>3. (\A i \in DOMAIN tx[j].moved : tx[j].moved[i] # k) /\ \A n \in DOMAIN tx[j].made : tx[j].made[n] # k
        BY <4>2 DEF Writes, ToSet
      <4> QED BY <4>1, <4>3, SaveRows DEF WithKey
    <3>5. Reads(o)'
      BY <2>1, <3>1, <3>2 DEF Reads
    <3>6. Moves(o)'
      <4>1. \A i \in DOMAIN tx[o].moved : tx[o].moved[i] \in Writes(o)
        BY DEF Writes
      <4> QED BY <2>1, <3>1, <3>2, <3>4, <4>1 DEF Moves
    <3>7. Drafts(o)'
      <4>1. ASSUME NEW n \in DOMAIN tx[o].made PROVE ~ Taken(o, tx[o].made[n])'
        <5>0. PICK k : k = tx[o].made[n]
          OBVIOUS
        <5>1. k \in ToSet(tx[o].made)
          BY <5>0 DEF ToSet
        <5>2. k \in Writes(o) /\ tx[o].name[k] \in HeldNames(o)
          BY <5>1 DEF Writes, HeldNames
        <5>3. ~ Taken(o, k)
          BY <3>1, <5>0 DEF Drafts
        <5>4. tx[o].name[k] \notin HeldNames(j)
          BY <3>3, <5>2 DEF ApartFrom
        <5>5. \A m \in DOMAIN tx[j].made : tx[o].name[k] # tx[j].name[tx[j].made[m]]
          BY <5>4 DEF HeldNames, ToSet
        <5>6. \A i \in Ids' : cases'[i].name # tx[o].name[k]
          BY <5>3, <5>5, SaveRows DEF Taken
        <5>7. WithKey(k)' = {}
          <6>1. WithKey(k) = {}
            BY <5>3 DEF Taken
          <6> QED BY <3>4, <5>2, <6>1
        <5> QED BY <2>1, <5>0, <5>6, <5>7 DEF Taken
      <4> QED BY <2>1, <3>1, <4>1 DEF Drafts
    <3> QED BY <2>1, <2>3, <3>5, <3>6, <3>7 DEF WorkOf, Writing
  <2> QED BY <2>2, <2>3
<1> QED BY <1>1, <1>2 DEF Work

\* The case of a test: the linked row, its draft, or none.
LEMMA CaseIdIs ==
    ASSUME Types, Rest, NEW j \in Reports, report[j] = "save", NEW k \in TestsOf(j)
    PROVE  \/ k \in DOMAIN tx[j].link /\ CaseId(j, k) = tx[j].link[k] /\ CaseId(j, k) \in Ids
           \/ /\ k \notin DOMAIN tx[j].link
              /\ \E n \in DOMAIN tx[j].made : tx[j].made[n] = k /\ CaseId(j, k) = Len(cases) + n
           \/ CaseId(j, k) = None
<1>1. Reads(j)
  BY DEF Rest, Work, WorkOf, Writing
<1>2. CASE k \in DOMAIN tx[j].link
  BY <1>1, <1>2 DEF CaseId, Reads
<1>3. CASE k \notin DOMAIN tx[j].link /\ k \in ToSet(tx[j].made)
  <2>1. \E n \in DOMAIN tx[j].made : tx[j].made[n] = k
    BY <1>3 DEF ToSet
  <2> DEFINE n == CHOOSE n \in DOMAIN tx[j].made : tx[j].made[n] = k
  <2>2. n \in DOMAIN tx[j].made /\ tx[j].made[n] = k
    BY <2>1
  <2>3. CaseId(j, k) = Len(cases) + n
    BY <1>3 DEF CaseId
  <2> HIDE DEF n
  <2> QED BY <1>3, <2>2, <2>3
<1>4. CASE k \notin DOMAIN tx[j].link /\ k \notin ToSet(tx[j].made)
  BY <1>4 DEF CaseId
<1> QED BY <1>2, <1>3, <1>4

\* Two tests of a report on one case carry one version.
LEMMA OneVersion ==
    ASSUME Types, Rest, NEW j \in Reports, report[j] = "save", NEW k \in TestsOf(j), NEW l \in TestsOf(j),
           CaseId(j, k) = CaseId(j, l), CaseId(j, k) # None
    PROVE  Executed(j, k) = Executed(j, l)
<1>1. /\ DOMAIN tx[j].version = DOMAIN tx[j].link
      /\ \A x, y \in DOMAIN tx[j].link : tx[j].link[x] = tx[j].link[y] => tx[j].version[x] = tx[j].version[y]
  BY DEF Rest, Snapshots, SnapshotOf
<1>2. /\ tx[j].made \in Seq(Keys) /\ Len(cases) \in Nat
      /\ \A n \in DOMAIN tx[j].made : Len(cases) + n \notin Ids /\ n \in Nat
  <2>1. tx[j].made \in Seq(Keys) /\ Len(cases) \in Nat
    BY IdsAre DEF Types, TxType, Rest
  <2>2. \A n \in DOMAIN tx[j].made : n \in Nat /\ n > 0
    BY <2>1
  <2> QED BY <2>1, <2>2 DEF Ids
<1>3. ReadVersion(j, k) = ReadVersion(j, l)
  <2>1. CASE k \in DOMAIN tx[j].link
    <3>1. CaseId(j, k) \in Ids /\ CaseId(j, k) = tx[j].link[k]
      BY <2>1, <1>2, CaseIdIs
    <3>2. l \in DOMAIN tx[j].link /\ CaseId(j, l) = tx[j].link[l]
      BY <3>1, <1>2, CaseIdIs
    <3> QED BY <2>1, <3>1, <3>2, <1>1 DEF ReadVersion
  <2>2. CASE k \notin DOMAIN tx[j].link
    <3>1. CaseId(j, k) \notin Ids
      BY <2>2, <1>2, CaseIdIs
    <3>2. l \notin DOMAIN tx[j].link
      BY <3>1, CaseIdIs
    <3> QED BY <2>2, <3>2, <1>1 DEF ReadVersion
  <2> QED BY <2>1, <2>2
<1> QED BY <1>3 DEF Executed

\* The rows a commit leaves to its run: those of the report's tests, on cases of
\* the suite, and of one version for a case.
LEMMA SaveRowsOf ==
    ASSUME Types, Rest, NEW j \in Reports, Save(j)
    PROVE  /\ rows'[RunOf[j]] = NewRows(j)
           /\ \A x \in NewRows(j) : x.case \in Ids' \cup {None}
           /\ \A x, y \in NewRows(j) : x.case = y.case /\ x.case # None => x.version = y.version
           /\ {x.test : x \in NewRows(j)} = TestsOf(j) /\ \A x \in NewRows(j) : x.by = j
           /\ Cardinality(NewRows(j)) = Cardinality(TestsOf(j))
<1>0. report[j] = "save" /\ RunOf[j] \in Runs
  BY DEF Save, Runs
<1>1. rows'[RunOf[j]] = NewRows(j)
  <2>1. tx[j].old = rows[RunOf[j]]
    BY <1>0 DEF Rest, Snapshots, SnapshotOf
  <2>2. rows'[RunOf[j]] = (rows[RunOf[j]] \ tx[j].old) \cup NewRows(j)
    BY <1>0 DEF Save, Types
  <2> QED BY <2>1, <2>2
<1>2. \A x \in NewRows(j) : x.case \in Ids' \cup {None}
  <2>1. Len(cases) \in Nat /\ tx[j].made \in Seq(Keys) /\ Len(cases') = Len(cases) + Len(tx[j].made)
    BY SaveIs, IdsAre DEF Rest
  <2>2. Ids \subseteq Ids' /\ \A n \in DOMAIN tx[j].made : Len(cases) + n \in Ids'
    BY <2>1 DEF Ids
  <2>3. \A k \in TestsOf(j) : CaseId(j, k) \in Ids' \cup {None}
    BY <1>0, <2>2, CaseIdIs
  <2> QED BY <2>3 DEF NewRows
<1>3. \A x, y \in NewRows(j) : x.case = y.case /\ x.case # None => x.version = y.version
  <2>1. \A k, l \in TestsOf(j) : CaseId(j, k) = CaseId(j, l) /\ CaseId(j, k) # None
                                   => Executed(j, k) = Executed(j, l)
    BY <1>0, OneVersion
  <2> QED BY <2>1 DEF NewRows
<1> DEFINE row(k) == [test |-> k, case |-> CaseId(j, k), version |-> Executed(j, k), by |-> j]
           f == [k \in TestsOf(j) |-> row(k)]
<1>4. f \in Bijection(TestsOf(j), NewRows(j))
  <2>1. NewRows(j) = {row(k) : k \in TestsOf(j)}
    BY DEF NewRows
  <2>2. \A k \in TestsOf(j) : row(k).test = k
    OBVIOUS
  <2> HIDE DEF row
  <2>3. f \in [TestsOf(j) -> NewRows(j)]
    BY <2>1
  <2>4. \A k, l \in TestsOf(j) : f[k] = f[l] => k = l
    BY <2>2
  <2>5. \A x \in NewRows(j) : \E k \in TestsOf(j) : f[k] = x
    BY <2>1
  <2> HIDE DEF f
  <2> QED BY <2>3, <2>4, <2>5 DEF Bijection, Injection, Surjection, IsInjective
<1>5. Cardinality(NewRows(j)) = Cardinality(TestsOf(j))
  <2> HIDE DEF f
  <2>1. IsFiniteSet(TestsOf(j))
    BY TestsAre
  <2> QED BY <2>1, <1>4, FS_Bijection DEF ExistsBijection
<1>6. {x.test : x \in NewRows(j)} = TestsOf(j) /\ \A x \in NewRows(j) : x.by = j
  <2>1. NewRows(j) = {row(k) : k \in TestsOf(j)}
    BY DEF NewRows
  <2>2. \A k \in TestsOf(j) : row(k).test = k /\ row(k).by = j
    OBVIOUS
  <2> HIDE DEF row
  <2> QED BY <2>1, <2>2
<1> QED BY <1>1, <1>2, <1>3, <1>5, <1>6

\* The commit of a report.
LEMMA SaveStep ==
    ASSUME Types, Rest, NEW j \in Reports, Save(j)
    PROVE  Rest'
<1>0. /\ report[j] = "save" /\ report'[j] = "saved" /\ j \in Open /\ RunOf[j] \in Runs
      /\ \A o \in Reports : o # j => report'[o] = report[o] /\ tx'[o] = tx[o]
      /\ by'[RunOf[j]] = j /\ UNCHANGED tests
      /\ \A r \in Runs : r # RunOf[j] => rows'[r] = rows[r] /\ by'[r] = by[r]
  BY DEF Save, Types, Move, Open, Runs
<1>1. \A o \in Open' : o \in Open /\ o \in Reports /\ o # j /\ report'[o] = report[o] /\ tx'[o] = tx[o]
  BY <1>0 DEF Open
<1>2. Apart'
  <2> SUFFICES ASSUME NEW o \in Open', NEW p \in Open', o # p PROVE ApartFrom(o, p)'
    BY DEF Apart
  <2>1. ApartFrom(o, p)
    BY <1>1 DEF Rest, Apart
  <2> QED BY <2>1, <1>1, SameApart
<1>3. Snapshots'
  <2> SUFFICES ASSUME NEW o \in Reports PROVE SnapshotOf(o)'
    BY DEF Snapshots
  <2>1. CASE o = j
    BY <1>0, <2>1 DEF SnapshotOf
  <2>2. CASE o # j
    <3>1. report'[o] = report[o] /\ tx'[o] = tx[o] /\ SnapshotOf(o)
      BY <1>0, <2>2 DEF Rest, Snapshots
    <3>2. ASSUME report[o] = "save" PROVE RunOf[o] # RunOf[j]
      <4>1. ApartFrom(j, o)
        BY <1>0, <2>2, <3>2 DEF Rest, Apart, Open
      <4> QED BY <4>1, <1>0, <3>2 DEF ApartFrom, HoldsRun
    <3>3. report[o] = "save" => rows'[RunOf[o]] = rows[RunOf[o]]
      BY <1>0, <3>2 DEF Runs
    <3> QED BY <3>1, <3>3 DEF SnapshotOf
  <2> QED BY <2>1, <2>2
<1>4. RowsOfCases'
  <2>1. Ids \subseteq Ids'
    <3>1. Len(cases) \in Nat /\ tx[j].made \in Seq(Keys) /\ Len(cases') = Len(cases) + Len(tx[j].made)
      BY SaveIs, IdsAre DEF Rest
    <3> QED BY <3>1 DEF Ids
  <2> SUFFICES ASSUME NEW r \in Runs
               PROVE  /\ \A x \in rows'[r] : x.case \in Ids' \cup {None}
                      /\ \A x, y \in rows'[r] : x.case = y.case /\ x.case # None => x.version = y.version
    BY DEF RowsOfCases
  <2>2. CASE r = RunOf[j]
    BY <2>2, SaveRowsOf
  <2>3. CASE r # RunOf[j]
    BY <2>1, <2>3, <1>0 DEF Rest, RowsOfCases
  <2> QED BY <2>2, <2>3
<1>5. RowsOfOneReport'
  <2>1. \A o : TestsOf(o)' = TestsOf(o)
    BY <1>0 DEF TestsOf, ToSet
  <2> SUFFICES ASSUME NEW r \in Runs, by'[r] # None
               PROVE  /\ {x.test : x \in rows'[r]} = TestsOf(by'[r])
                      /\ \A x \in rows'[r] : x.by = by'[r]
                      /\ Cardinality(rows'[r]) = Cardinality(TestsOf(by'[r]))
    BY <2>1 DEF RowsOfOneReport
  <2>2. CASE r = RunOf[j]
    BY <2>2, <1>0, SaveRowsOf
  <2>3. CASE r # RunOf[j]
    BY <2>3, <1>0 DEF Rest, RowsOfOneReport
  <2> QED BY <2>2, <2>3
<1> QED BY <1>2, <1>3, <1>4, <1>5, SaveWork, SaveTable DEF Rest

\* A reviewer's publication changes the version of one case, and no key or name.
LEMMA PublishVersionStep ==
    ASSUME Types, Rest, NEW i \in Ids, PublishVersion(i)
    PROVE  Rest'
<1>1. cases \in Seq(RowType) /\ Unique(cases) /\ DOMAIN cases = Ids
  BY IdsAre DEF Rest, Table
<1>2. cases[i] \in RowType /\ cases[i].version + 1 \in 0 .. MaxVersion
  <2>1. cases[i] \in RowType
    BY <1>1
  <2>2. cases[i].version \in 0 .. MaxVersion /\ cases[i].version < MaxVersion
    BY <2>1 DEF PublishVersion, RowType
  <2> QED BY <2>1, <2>2, AdoptionAssumption
<1>3. /\ cases' \in Seq(RowType) /\ Ids' = Ids /\ DOMAIN cases' = Ids
      /\ \A x \in Ids : cases'[x].key = cases[x].key /\ cases'[x].name = cases[x].name
  <2>1. [cases[i] EXCEPT !.version = @ + 1] \in RowType
    BY <1>1, <1>2 DEF RowType
  <2>2. cases' = [cases EXCEPT ![i] = [cases[i] EXCEPT !.version = @ + 1]]
    BY DEF PublishVersion
  <2>3. cases' \in Seq(RowType) /\ Len(cases') = Len(cases)
    BY <1>1, <2>1, <2>2
  <2>4. \A x \in Ids : cases'[x].key = cases[x].key /\ cases'[x].name = cases[x].name
    BY <1>1, <2>2 DEF RowType
  <2> QED BY <1>1, <2>2, <2>3, <2>4 DEF Ids
<1>4. Table'
  BY <1>1, <1>3 DEF Table, Unique
<1>5. UNCHANGED <<rows, by, report, tests, tx>>
  BY DEF PublishVersion
<1>6. Work'
  BY <1>3, <1>5, SameWork DEF Rest, Work
<1>7. Apart'
  <2>1. Open' = Open
    BY <1>5 DEF Open
  <2> QED BY <1>5, <2>1, SameApart DEF Rest, Apart
<1>8. RowsOfCases' /\ Snapshots'
  BY <1>3, <1>5 DEF Rest, RowsOfCases, Snapshots, SnapshotOf
<1>9. RowsOfOneReport'
  <2>1. \A o : TestsOf(o)' = TestsOf(o)
    BY <1>5 DEF TestsOf, ToSet
  <2> QED BY <2>1, <1>5 DEF Rest, RowsOfOneReport
<1> QED BY <1>4, <1>6, <1>7, <1>8, <1>9 DEF Rest

-----------------------------------------------------------------------------
(* The theorems                                                            *)

\* Nothing is saved and no transaction is open at first.
LEMMA InitInv == Init => IInv
<1> SUFFICES ASSUME Init PROVE IInv
  OBVIOUS
<1>1. Types
  <2>1. rows \in [Runs -> SUBSET RowRec] /\ by \in [Runs -> Reports \cup {None}]
    BY DEF Init
  <2>2. tx \in [Reports -> TxType] /\ report \in [Reports -> States] /\ failures \in [Reports -> Nat]
    BY NoTxType DEF Init, States
  <2>3. \A j \in Reports : failures[j] < Attempts[j] /\ failures[j] <= Attempts[j]
    BY AdoptionAssumption DEF Init
  <2> QED BY <2>1, <2>2, <2>3, AdoptionAssumption DEF Init, Types
<1>2. Table
  <2>1. CASE cases = <<>>
    BY <2>1 DEF Table, Unique
  <2>2. CASE cases \in OldCases
    BY <2>2, AdoptionAssumption DEF Table
  <2> QED BY <2>1, <2>2 DEF Init
<1>3. Work
  BY DEF Init, Work, WorkOf, Writing, Fresh, NoTx
<1>4. Apart
  BY DEF Init, Apart, Open
<1>5. RowsOfCases /\ Snapshots /\ RowsOfOneReport
  BY DEF Init, RowsOfCases, Snapshots, SnapshotOf, RowsOfOneReport
<1> QED BY <1>1, <1>2, <1>3, <1>4, <1>5 DEF IInv

\* Every step keeps the invariant.
LEMMA NextInv == IInv /\ [Next]_vars => IInv'
<1> SUFFICES ASSUME IInv, [Next]_vars PROVE IInv'
  OBVIOUS
<1>1. Types /\ Rest
  BY DEF IInv, Rest
<1>2. Types'
  BY <1>1, NextTypes DEF Rest
<1>3. ASSUME NEW j \in Reports, Step(j) PROVE Rest'
  <2>1. ASSUME SuiteRaceLost(j) \/ Deadlock(j) PROVE Rest'
    BY <1>1, <1>2, <2>1, RollbackStep DEF SuiteRaceLost, Deadlock
  <2>2. ASSUME NEW k \in TestsOf(j), MoveKey(j, k) \/ Draft(j, k) PROVE Rest'
    BY <1>1, <1>2, <2>2, MoveKeyStep, DraftStep
  <2>3. ASSUME UpsertRun(j) \/ DeleteRows(j) PROVE Rest'
    BY <1>1, <1>2, <2>3, LockStep
  <2>4. ASSUME FindSuite(j) \/ ClaimSuite(j) \/ Match(j) \/ Relink(j) PROVE Rest'
    BY <1>1, <1>2, <2>4, FindSuiteStep, ClaimSuiteStep, MatchStep, RelinkStep
  <2>5. ASSUME Save(j) \/ Finish(j) PROVE Rest'
    BY <1>1, <1>2, <2>5, SaveStep, FinishStep
  <2> QED BY <1>3, <2>1, <2>2, <2>3, <2>4, <2>5 DEF Step
<1>4. ASSUME NEW j \in Reports, Fault(j) PROVE Rest'
  BY <1>1, <1>2, <1>4, RollbackStep DEF Fault
<1>5. ASSUME NEW i \in Ids, PublishVersion(i) PROVE Rest'
  BY <1>1, <1>5, PublishVersionStep
<1>6. ASSUME UNCHANGED vars PROVE Rest'
  <2>1. UNCHANGED <<cases, rows, by, report, tests, tx>>
    BY <1>6 DEF vars
  <2>2. Ids' = Ids /\ Open' = Open /\ \A o : TestsOf(o)' = TestsOf(o)
    BY <2>1 DEF Ids, Open, TestsOf, ToSet
  <2>3. Work'
    BY <1>1, <2>1, <2>2, SameWork DEF Rest, Work
  <2>4. Apart'
    BY <1>1, <2>1, <2>2, SameApart DEF Rest, Apart
  <2>5. Table' /\ RowsOfCases' /\ Snapshots' /\ RowsOfOneReport'
    BY <1>1, <2>1, <2>2 DEF Rest, Table, RowsOfCases, Snapshots, SnapshotOf, RowsOfOneReport
  <2> QED BY <2>3, <2>4, <2>5 DEF Rest
<1>7. Rest'
  BY <1>3, <1>4, <1>5, <1>6 DEF Next
<1> QED BY <1>2, <1>7 DEF IInv, Rest

\* The invariant holds of every reachable state, however many reports, attempts
\* and publications.
THEOREM InvTheorem == Spec => []IInv
<1>1. Init => IInv
  BY InitInv
<1>2. IInv /\ [Next]_vars => IInv'
  BY NextInv
<1> QED BY <1>1, <1>2, PTL DEF Spec

\* No two cases of a suite share a key or a name, and no two transactions write
\* one of them, one row, one suite or one run at once: what the unique indexes
\* and the row locks that ingest and reconcile wait for have to give.
THEOREM TypeTheorem == Spec => []TypeOK
<1>1. IInv => TypeOK
  <2> SUFFICES ASSUME IInv PROVE TypeOK
    OBVIOUS
  <2>1. ASSUME NEW r \in Runs
        PROVE  rows[r] \subseteq [test : Keys, case : Ids \cup {None}, version : 0 .. MaxVersion, by : Reports]
    <3>1. \A x \in rows[r] : x \in RowRec /\ x.case \in Ids \cup {None}
      BY DEF IInv, Types, RowsOfCases
    <3> QED BY <3>1 DEF RowRec
  <2>2. \A j \in Reports : failures[j] \in 0 .. Attempts[j]
    BY AdoptionAssumption DEF IInv, Types
  <2>3. \A j, o \in Open : j # o =>
          /\ HeldNames(j) \cap HeldNames(o) = {} /\ ~ (HoldsSuite(j) /\ HoldsSuite(o))
          /\ DOMAIN tx[j].moved \cap DOMAIN tx[o].moved = {}
          /\ ~ (HoldsRun(j) /\ HoldsRun(o) /\ RunOf[j] = RunOf[o])
    BY DEF IInv, Apart, ApartFrom
  <2> QED BY <2>1, <2>2, <2>3 DEF IInv, Types, Table, TypeOK, States
<1> QED BY <1>1, InvTheorem, PTL

\* A run shows the tests of one report, each once, and the report its columns
\* come from: deleteMany and createMany of two reports never mix.
THEOREM RowsTheorem == Spec => []RowsOfOneReport
<1>1. IInv => RowsOfOneReport
  BY DEF IInv
<1> QED BY <1>1, InvTheorem, PTL

\* A late report, or a retried one, never replaces the version a case was run at
\* (resolveExecutedCatalog), whatever was published meanwhile.
THEOREM SnapshotTheorem == Spec => SnapshotKept
<1> DEFINE Kept == \A r \in Runs : \A x \in rows[r], y \in rows'[r] :
                      x.case = y.case /\ x.case # None => y.version = x.version
<1>1. IInv /\ [Next]_vars => Kept
  <2> SUFFICES ASSUME IInv, [Next]_vars, NEW r \in Runs, NEW x \in rows[r], NEW y \in rows'[r],
                      x.case = y.case, x.case # None
               PROVE  y.version = x.version
    BY DEF Kept
  <2>0. Types /\ Rest /\ \A u, v \in rows[r] : u.case = v.case /\ u.case # None => u.version = v.version
    BY DEF IInv, Rest, RowsOfCases
  <2>1. CASE rows'[r] = rows[r]
    BY <2>0, <2>1
  <2>2. CASE rows'[r] # rows[r]
    <3>1. PICK j \in Reports : Save(j) /\ r = RunOf[j]
      <4>1. rows' = rows \/ \E j \in Reports : Save(j)
        <5>1. ASSUME NEW j \in Reports, Step(j) PROVE rows' = rows \/ Save(j)
          <6>1. CASE FindSuite(j) \/ ClaimSuite(j) \/ SuiteRaceLost(j)
            BY <6>1 DEF FindSuite, ClaimSuite, SuiteRaceLost, EndAttempt
          <6>2. CASE Match(j) \/ Relink(j)
            BY <6>2 DEF Match, Relink
          <6>3. CASE \E k \in TestsOf(j) : MoveKey(j, k) \/ Draft(j, k)
            BY <6>3 DEF MoveKey, Draft
          <6>4. CASE UpsertRun(j) \/ DeleteRows(j) \/ Finish(j)
            BY <6>4 DEF UpsertRun, DeleteRows, Finish
          <6>5. CASE Deadlock(j)
            BY <6>5 DEF Deadlock, EndAttempt
          <6> QED BY <5>1, <6>1, <6>2, <6>3, <6>4, <6>5 DEF Step
        <5>2. ASSUME NEW j \in Reports, Fault(j) PROVE rows' = rows
          BY <5>2 DEF Fault, EndAttempt
        <5>3. ASSUME NEW i \in Ids, PublishVersion(i) PROVE rows' = rows
          BY <5>3 DEF PublishVersion
        <5>4. CASE UNCHANGED vars
          BY <5>4 DEF vars
        <5> QED BY <5>1, <5>2, <5>3, <5>4 DEF Next
      <4>2. PICK j \in Reports : Save(j)
        BY <2>2, <4>1
      <4>3. rows' = [rows EXCEPT ![RunOf[j]] = (@ \ tx[j].old) \cup NewRows(j)]
        BY <4>2 DEF Save
      <4> QED BY <2>0, <2>2, <4>2, <4>3 DEF Types
    <3>2. y \in NewRows(j) /\ report[j] = "save"
      BY <2>0, <3>1, SaveRowsOf DEF Save
    <3>3. PICK k \in TestsOf(j) : y.case = CaseId(j, k) /\ y.version = Executed(j, k)
      BY <3>2 DEF NewRows
    <3>4. tx[j].old = rows[r]
      BY <2>0, <3>1, <3>2 DEF Rest, Snapshots, SnapshotOf
    <3> DEFINE kept == {z \in tx[j].old : z.case = CaseId(j, k) /\ z.case # None}
    <3>5. x \in kept
      BY <3>3, <3>4
    <3>6. (CHOOSE z \in kept : TRUE) \in kept
      BY <3>5
    <3>7. Executed(j, k) = (CHOOSE z \in kept : TRUE).version
      BY <3>5 DEF Executed
    <3> HIDE DEF kept
    <3>8. \A z \in kept : z \in rows[r] /\ z.case = x.case
      BY <3>3, <3>4 DEF kept
    <3> QED BY <2>0, <3>3, <3>6, <3>7, <3>8
  <2> QED BY <2>1, <2>2
<1> QED BY <1>1, InvTheorem, PTL DEF Spec, SnapshotKept, Kept

=============================================================================
