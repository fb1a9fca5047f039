----------------------------- MODULE RunAdoption -----------------------------
(***************************************************************************)
(* Saving the reports of one suite (RunsService.ingest and                 *)
(* OfficialCaseReconciler.reconcile): each report is one READ COMMITTED    *)
(* transaction that adopts the suite by its name, matches its tests to the *)
(* cases of the suite, moves the keys of old cases, drafts the cases that  *)
(* are missing, and replaces the rows of its run.  Several run at once:    *)
(* the queue takes four, and POST /runs/ingest runs in its request.        *)
(*                                                                         *)
(* A transaction sees what is committed and what it wrote.  It waits for a *)
(* row, or a value of a unique index, that another one has written, until  *)
(* that one ends; of a cycle of waits the database aborts one.             *)
(***************************************************************************)
EXTENDS Naturals, Sequences, FiniteSets, SequencesExt

CONSTANTS
    Reports,     \* ingest jobs and requests
    RunOf,       \* report -> the run its externalId names
    Attempts,    \* report -> attempts of its job; 1 for a request
    Keys,        \* identity keys: class::name, or the name alone
    Bare,        \* key -> the name alone; humanized, the title of the case too
    Contents,    \* bound: the tests of a report, sequences of keys
    OldCases,    \* the cases the suite may have at first, sequences of rows
    MaxVersion,  \* bound: versions of a case
    MaxFaults,   \* bound: failed calls and transaction timeouts
    None

RowType == [key : Keys \cup {None}, name : Keys, version : 0 .. MaxVersion]

\* The unique indexes of TestCase: one row of a suite for a name or a key.
Unique(rs) == \A i, k \in DOMAIN rs : i # k =>
    /\ rs[i].name # rs[k].name
    /\ rs[i].key # rs[k].key \/ rs[i].key = None

ASSUME AdoptionAssumption ==
    /\ None \notin Keys /\ Bare \in [Keys -> Keys] /\ \A k \in Keys : Bare[Bare[k]] = Bare[k]
    /\ \A c \in Contents : IsInjective(c) /\ c \in Seq(Keys)
    /\ \A c \in OldCases : c \in Seq(RowType) /\ Unique(c)
    /\ Attempts \in [Reports -> Nat \ {0}]
    /\ MaxVersion \in Nat /\ MaxFaults \in Nat

VARIABLES
    suite,    \* "none", "legacy" (no ingestionKey) or "keyed"
    cases,    \* committed TestCase rows of the suite, by id
    rows,     \* run -> its RunCase rows
    by,       \* run -> the report its own columns (status, name) come from
    report,   \* report -> where it is
    tests,    \* report -> its tests, in order
    failures, \* report -> failed attempts
    tx,       \* report -> what its transaction has read and written
    faults

vars == <<suite, cases, rows, by, report, tests, failures, tx, faults>>

Runs  == {RunOf[j] : j \in Reports}
Ids   == 1 .. Len(cases)
TestsOf(j) == ToSet(tests[j])

\* seen: the suite read; link: test -> case; missing: tests without a case;
\* todo: tests whose key has still to be moved or whose case to be drafted;
\* moved: case -> its new key; made: keys drafted; name: of a missing test's
\* draft; old: the run's previous rows.
NoTx == [seen |-> "none", link |-> [k \in {} |-> None], missing |-> {}, todo |-> {},
         moved |-> [i \in {} |-> None], made |-> <<>>, name |-> [k \in {} |-> None],
         version |-> [k \in {} |-> 0], old |-> {}]

Init ==
    /\ suite \in {"none", "legacy", "keyed"}
    /\ cases \in IF suite = "none" THEN {<<>>} ELSE OldCases
    /\ rows = [r \in Runs |-> {}]
    /\ by = [r \in Runs |-> None]
    /\ report = [j \in Reports |-> "queued"]
    /\ tests \in [Reports -> Contents]
    /\ failures = [j \in Reports |-> 0]
    /\ tx = [j \in Reports |-> NoTx]
    /\ faults = 0

Move(j, s) == report' = [report EXCEPT ![j] = s]
Put(f, x, y) == [z \in DOMAIN f \cup {x} |-> IF z = x THEN y ELSE f[z]]

----------------------------------------------------------------------------
(* What an open transaction has written, and who waits for it              *)

Open == {j \in Reports : report[j] \in {"claim", "match", "cases", "run", "rows", "save"}}

HoldsSuite(o) == o \in Open /\ report[o] # "claim" /\ tx[o].seen # "keyed"
\* A key a moved row leaves is in doubt until the end, as the one it takes.
HeldKeys(o)   == (UNION {{tx[o].moved[i], cases[i].key} : i \in DOMAIN tx[o].moved}) \cup ToSet(tx[o].made)
HeldNames(o)  == {tx[o].name[k] : k \in ToSet(tx[o].made)}
\* Mutant: the rows go before the run's row is locked.
RunUnlocked(o) == FALSE
HoldsRun(o)    == report[o] \in {"rows", "save"}

\* The order of the report's tests.
Before(j, k, l) == \E m, n \in DOMAIN tests[j] : m < n /\ tests[j][m] = k /\ tests[j][n] = l

\* The test j turns to next: keys are moved before cases are drafted.
Migrates(j, k) == k \in DOMAIN tx[j].link
Due(j, k) ==
    /\ k \in tx[j].todo
    /\ \A l \in tx[j].todo \ {k} :
          IF Migrates(j, k) = Migrates(j, l) THEN Before(j, k, l) ELSE Migrates(j, k)

\* Those the next statement of j waits for.
Blockers(j) == {o \in Open \ {j} :
    \/ report[j] = "claim" /\ HoldsSuite(o)
    \/ report[j] = "cases" /\ \E k \in tx[j].todo :
         /\ Due(j, k)
         /\ \/ k \in HeldKeys(o)
            \/ Migrates(j, k) /\ tx[j].link[k] \in DOMAIN tx[o].moved
            \/ ~ Migrates(j, k) /\ tx[j].name[k] \in HeldNames(o)
    \/ report[j] = "run" /\ RunOf[o] = RunOf[j] /\ HoldsRun(o)}

Free(j) == Blockers(j) = {}

\* Mutant: a failed attempt is the last.
GivesUp(j) == "failed"
\* BullMQ runs the job again; a request answers 500.
AfterFailure(j) == IF failures[j] + 1 < Attempts[j] THEN "queued" ELSE "failed"

\* The transaction rolls back.
EndAttempt(j) ==
    /\ failures' = [failures EXCEPT ![j] = @ + 1]
    /\ Move(j, AfterFailure(j))
    /\ tx' = [tx EXCEPT ![j] = NoTx]
    /\ UNCHANGED <<suite, cases, rows, by, tests>>

----------------------------------------------------------------------------
(* adoptSuiteByName                                                        *)

\* The backoff of a failed job outlasts every statement that waits for nobody.
BackoffOver(j) == failures[j] = 0 \/ \A o \in Open : ~ Free(o)

FindSuite(j) ==
    /\ report[j] = "queued" /\ BackoffOver(j)
    /\ tx' = [tx EXCEPT ![j].seen = suite]
    /\ Move(j, IF suite = "keyed" THEN "match" ELSE "claim")
    /\ UNCHANGED <<suite, cases, rows, by, tests, failures, faults>>

\* A legacy suite takes its ingestionKey, or the suite is created.
ClaimSuite(j) ==
    /\ report[j] = "claim" /\ Free(j)
    /\ tx[j].seen = "legacy" \/ suite = "none"
    /\ Move(j, "match")
    /\ UNCHANGED <<suite, cases, rows, by, tests, failures, tx, faults>>

\* The create lost the race: the read that follows the unique violation runs in
\* a transaction the database has already aborted.
SuiteRaceLost(j) ==
    /\ report[j] = "claim" /\ Free(j)
    /\ tx[j].seen = "none" /\ suite # "none"
    /\ EndAttempt(j)
    /\ UNCHANGED faults

----------------------------------------------------------------------------
(* reconcile                                                               *)

\* findLegacyKeyCollisions: names that two tests of the report share.
Ambiguous(j) == {n \in Keys : Cardinality({k \in TestsOf(j) : Bare[k] = n}) > 1}

WithKey(k) == {i \in Ids : cases[i].key = k}
Unkeyed(n) == {i \in Ids : cases[i].key = None /\ cases[i].name = n}

\* resolveCaseMatch: by its own key, else, where the name is not ambiguous, by
\* the old key (the bare name), else by the name of a row without key.
OwnRow(j, k)    == IF k \in Ambiguous(j) THEN {} ELSE WithKey(k)
LegacyRow(j, k) ==
    IF OwnRow(j, k) # {} \/ Bare[k] \in Ambiguous(j) THEN {}
    ELSE IF WithKey(Bare[k]) # {} THEN WithKey(Bare[k]) ELSE Unkeyed(Bare[k])

RowOf(j, k) == OwnRow(j, k) \cup LegacyRow(j, k)
Matched(j)  == {k \in TestsOf(j) : RowOf(j, k) # {}}
Moving(j, k)  == LegacyRow(j, k) # {}
Missing(j, k) == RowOf(j, k) = {} /\ k \notin Ambiguous(j)

\* A title already taken, by a case or by an earlier draft, gives way to the key.
DraftName(j, missing, k) ==
    IF \/ \E i \in Ids : cases[i].name = Bare[k]
       \/ \E l \in missing : Bare[l] = Bare[k] /\ Before(j, l, k)
    THEN k ELSE Bare[k]

Match(j) ==
    /\ report[j] = "match"
    /\ LET missing == {k \in TestsOf(j) : Missing(j, k)}
       IN tx' = [tx EXCEPT ![j].link = [k \in Matched(j) |-> CHOOSE i \in RowOf(j, k) : TRUE],
                           ![j].missing = missing,
                           ![j].name = [k \in missing |-> DraftName(j, missing, k)],
                           ![j].todo = {k \in TestsOf(j) : Moving(j, k)} \cup missing]
    /\ Move(j, "cases")
    /\ UNCHANGED <<suite, cases, rows, by, tests, failures, faults>>

\* migrateAutomationKeys: by id, whatever its key became since it was read; a
\* key that another row has by now makes that row the test's.
MoveKey(j, k) ==
    /\ report[j] = "cases" /\ Due(j, k) /\ Migrates(j, k) /\ Free(j)
    /\ LET i == tx[j].link[k]
           owners == WithKey(k) \ {i}
       IN tx' = IF owners = {} THEN [tx EXCEPT ![j].moved = Put(@, i, k), ![j].todo = @ \ {k}]
                ELSE [tx EXCEPT ![j].link[k] = CHOOSE o \in owners : TRUE, ![j].todo = @ \ {k}]
    /\ UNCHANGED <<suite, cases, rows, by, report, tests, failures, faults>>

\* Mutant: only the key is looked at.
KeyTaken(j, k) == WithKey(k) # {}
\* createMany with skipDuplicates: a key or a name taken by now is skipped.
Taken(j, k) == WithKey(k) # {} \/ \E i \in Ids : cases[i].name = tx[j].name[k]

Draft(j, k) ==
    /\ report[j] = "cases" /\ Due(j, k) /\ ~ Migrates(j, k) /\ Free(j)
    /\ tx' = [tx EXCEPT ![j].todo = @ \ {k},
                        ![j].made = IF Taken(j, k) THEN @ ELSE Append(@, k)]
    /\ UNCHANGED <<suite, cases, rows, by, report, tests, failures, faults>>

\* The missing keys are read again, then the content of every linked case.
Relink(j) ==
    /\ report[j] = "cases" /\ tx[j].todo = {}
    /\ LET found == {k \in tx[j].missing : WithKey(k) # {}}
           link  == [k \in found \cup DOMAIN tx[j].link |->
                       IF k \in found THEN CHOOSE i \in WithKey(k) : TRUE ELSE tx[j].link[k]]
       IN tx' = [tx EXCEPT ![j].link = link,
                           ![j].version = [k \in DOMAIN link |-> cases[link[k]].version]]
    /\ Move(j, "run")
    /\ UNCHANGED <<suite, cases, rows, by, tests, failures, faults>>

----------------------------------------------------------------------------
(* The run and its rows                                                    *)

\* run.upsert locks the run's row, new or old, until the end.
UpsertRun(j) ==
    /\ report[j] = "run" /\ Free(j)
    /\ Move(j, "rows")
    /\ UNCHANGED <<suite, cases, rows, by, tests, failures, tx, faults>>

\* The id of a test's case, the drafts numbered after the committed ones.
CaseId(j, k) ==
    IF k \in DOMAIN tx[j].link THEN tx[j].link[k]
    ELSE IF k \in ToSet(tx[j].made)
         THEN Len(cases) + (CHOOSE n \in DOMAIN tx[j].made : tx[j].made[n] = k) ELSE None

ReadVersion(j, k) == IF k \in DOMAIN tx[j].version THEN tx[j].version[k] ELSE 0

\* Mutant: the content read last.
Latest(j, k) == ReadVersion(j, k)
\* resolveExecutedCatalog: a case the run already recorded keeps its snapshot.
Executed(j, k) ==
    LET kept == {x \in tx[j].old : x.case = CaseId(j, k) /\ x.case # None}
    IN IF kept = {} THEN ReadVersion(j, k) ELSE (CHOOSE x \in kept : TRUE).version

NewRows(j) == {[test |-> k, case |-> CaseId(j, k), version |-> Executed(j, k), by |-> j] :
                 k \in TestsOf(j)}

\* loadPreviousCatalog, then deleteMany.
DeleteRows(j) ==
    /\ report[j] = "rows"
    /\ tx' = [tx EXCEPT ![j].old = rows[RunOf[j]]]
    /\ Move(j, "save")
    /\ UNCHANGED <<suite, cases, rows, by, tests, failures, faults>>

\* createMany, and the commit of everything the transaction wrote.
Save(j) ==
    /\ report[j] = "save"
    /\ suite' = "keyed"
    /\ cases' = [i \in Ids |-> IF i \in DOMAIN tx[j].moved
                               THEN [cases[i] EXCEPT !.key = tx[j].moved[i]] ELSE cases[i]]
                \o [n \in DOMAIN tx[j].made |->
                     [key |-> tx[j].made[n], name |-> tx[j].name[tx[j].made[n]], version |-> 0]]
    /\ rows' = [rows EXCEPT ![RunOf[j]] = (@ \ tx[j].old) \cup NewRows(j)]
    /\ by' = [by EXCEPT ![RunOf[j]] = j]
    /\ tx' = [tx EXCEPT ![j] = NoTx]
    /\ Move(j, "saved")
    /\ UNCHANGED <<tests, failures, faults>>

\* The reclassification and the notification follow the commit.
Finish(j) ==
    /\ report[j] = "saved"
    /\ Move(j, "done")
    /\ UNCHANGED <<suite, cases, rows, by, tests, failures, tx, faults>>

----------------------------------------------------------------------------
\* j waits, and so does one of those it waits for, back to j.
Deadlock(j) ==
    /\ \E o \in Blockers(j) : j \in Blockers(o) \/ \E p \in Blockers(o) : j \in Blockers(p)
    /\ EndAttempt(j)
    /\ UNCHANGED faults

\* A call fails, or the transaction exceeds Prisma's five seconds; also after
\* the commit, when the report is then saved again.
Fault(j) ==
    /\ j \in Open \/ report[j] = "saved"
    /\ faults < MaxFaults
    /\ faults' = faults + 1
    /\ EndAttempt(j)

\* A reviewer publishes a version of a case no report is writing.
PublishVersion(i) ==
    /\ cases[i].version < MaxVersion
    /\ \A j \in Open : i \notin DOMAIN tx[j].moved
    /\ cases' = [cases EXCEPT ![i].version = @ + 1]
    /\ UNCHANGED <<suite, rows, by, report, tests, failures, tx, faults>>

Step(j) ==
    \/ FindSuite(j) \/ ClaimSuite(j) \/ SuiteRaceLost(j)
    \/ Match(j) \/ Relink(j) \/ \E k \in TestsOf(j) : MoveKey(j, k) \/ Draft(j, k)
    \/ UpsertRun(j) \/ DeleteRows(j) \/ Save(j) \/ Finish(j) \/ Deadlock(j)

Next ==
    \/ \E j \in Reports : Step(j) \/ Fault(j)
    \/ \E i \in Ids : PublishVersion(i)

Spec == Init /\ [][Next]_vars

\* A started transaction goes on, and the queue has a worker free.
Fairness == \A j \in Reports : WF_vars(Step(j))
FairSpec == Spec /\ Fairness

----------------------------------------------------------------------------
\* No two cases of the suite share a key or a name, and no two open transactions
\* have written one value of a unique index, one suite or one run.
TypeOK ==
    /\ suite \in {"none", "legacy", "keyed"} /\ faults \in 0 .. MaxFaults
    /\ cases \in Seq(RowType) /\ Unique(cases)
    /\ by \in [Runs -> Reports \cup {None}] /\ tests \in [Reports -> Contents]
    /\ \A r \in Runs : rows[r] \subseteq [test : Keys, case : Ids \cup {None},
                                          version : 0 .. MaxVersion, by : Reports]
    /\ report \in [Reports -> {"queued", "claim", "match", "cases", "run", "rows", "save",
                               "saved", "done", "failed"}]
    /\ \A j \in Reports : failures[j] \in 0 .. Attempts[j]
    /\ \A j, o \in Open : j # o =>
          /\ HeldNames(j) \cap HeldNames(o) = {} /\ ~ (HoldsSuite(j) /\ HoldsSuite(o))
          /\ DOMAIN tx[j].moved \cap DOMAIN tx[o].moved = {}
          /\ ~ (HoldsRun(j) /\ HoldsRun(o) /\ RunOf[j] = RunOf[o])

\* A run shows one report: its rows are those of the report its status comes
\* from, each once, however two reports of the run overlap and are retried.
RowsOfOneReport ==
    \A r \in Runs : by[r] # None =>
        /\ {x.test : x \in rows[r]} = TestsOf(by[r])
        /\ \A x \in rows[r] : x.by = by[r]
        /\ Cardinality(rows[r]) = Cardinality(TestsOf(by[r]))

\* "A late re-send never replaces 'as executed' with newer content"
\* (catalog-snapshot.ts): the snapshot of a case stays as long as the case does.
SnapshotKept ==
    [][\A r \in Runs : \A x \in rows[r], y \in rows'[r] :
          x.case = y.case /\ x.case # None => y.version = x.version]_vars

\* With no fault, lost races and deadlocks included, a queued report is saved.
ReportIsSaved ==
    [](faults = 0) => <>(\A j \in Reports : Attempts[j] > 1 => report[j] = "done")
=============================================================================
