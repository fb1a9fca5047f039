--------------------------- MODULE CaseReviewProofs ---------------------------
(***************************************************************************)
(* Proofs about CaseReview for any pushes, reviewers and presses of        *)
(* Document: the types with the bound on a test's proposals, that no       *)
(* transactions wait for each other, that no two of them publish one       *)
(* version, what an approval, a decision and a newer push protect, and     *)
(* that a document run delivered again publishes nothing more.             *)
(***************************************************************************)
EXTENDS CaseReview, FiniteSetTheorems, SequenceTheorems, TLAPS

-----------------------------------------------------------------------------
(* The inductive invariant                                                 *)

PropType == [status : {"in_review", "approved", "rejected", "deleted"}, owner : Owners,
             text : Texts, target : BOOLEAN, manual : BOOLEAN, base : Nat \cup {None},
             superseded : Nat, version : Nat]

TxType == [step : Steps, prop : 0 .. MaxProposals, base : Nat \cup {None},
           text : Texts, target : BOOLEAN, seen : Nat, number : Nat]

\* What a job or a request goes through.
PushSteps     == {"none", "lockFile", "read", "refresh", "refreshed", "create"}
RunSteps      == {"none", "queued", "lockCases", "decide", "delete", "superseded", "skipped",
                  "publish", "done"}
ReviewerSteps == {"none", "viewed", "lockCase", "claim", "publish", "reject"}

StepOf(t) == /\ t \in Pushes => tx[t].step \in PushSteps
             /\ t = Run => tx[t].step \in RunSteps
             /\ t \in Reviewers => tx[t].step \in ReviewerSteps

Types ==
    /\ case \in [exists : BOOLEAN, queued : BOOLEAN, human : BOOLEAN]
    /\ versions \in Seq(Texts) /\ proposals \in Seq(PropType)
    /\ holder \in [Locks -> Txs \cup {None}] /\ tx \in [Txs -> TxType]
    /\ \A t \in Txs : StepOf(t)
    /\ relink \subseteq Rows /\ pressed \in BOOLEAN
    /\ presses \in 0 .. MaxPresses

\* Where a transaction holds a lock.
Holds(t, l) ==
    \/ l = Org  /\ t \in Jobs /\ tx[t].step \notin {"none", "queued", "done"}
    \/ l = File /\ t \in Pushes /\ tx[t].step \in {"read", "refresh", "refreshed", "create"}
    \/ l = Case /\ \/ /\ t = Run
                      /\ tx[t].step \in {"decide", "delete", "superseded", "skipped", "publish"}
                   \/ t \in Reviewers /\ tx[t].target /\ tx[t].step \in {"claim", "publish"}
    \/ /\ tx[t].prop # 0 /\ l = Prop(tx[t].prop)
       /\ tx[t].step = IF t \in Pushes THEN "refreshed" ELSE "publish"

LocksHeld == \A l \in Locks, t \in Txs : holder[l] = t <=> Holds(t, l)

\* Every proposal a push answered is older than p.
AllOlder(p) == \A i \in Rows : Live(i) => proposals[i].owner < p

\* What a push found, under the lock of the file: the only open proposal, its own
\* or of an older push, or none.
PushKnows(p) ==
    LET i == tx[p].prop IN
    /\ tx[p].step = "create" => AllOlder(p) /\ \A k \in Rows : ~ InReview(k)
    /\ tx[p].step \in {"refresh", "refreshed"} =>
          /\ i \in Rows /\ \A k \in Rows : InReview(k) => k = i
          /\ proposals[i].owner = p \/ AllOlder(p)
    /\ tx[p].step = "refreshed" => InReview(i)

\* What the document-file run found, under the lock of the case.
RunKnows ==
    LET i == tx[Run].prop IN
    /\ tx[Run].step \in {"delete", "publish"} =>
          case.queued /\ ~ case.human /\ tx[Run].number = Current + 1
    /\ i # 0 => /\ tx[Run].step = "publish" /\ i \in Rows
                /\ InReview(i) /\ proposals[i].manual

\* What a reviewer's request found, under the locks of the case and the proposal.
ReviewerKnows(r) ==
    LET t == tx[r] IN
    /\ t.step # "none" => t.prop \in Rows
    /\ t.step = "lockCase" => t.target
    /\ t.step = "publish" => InReview(t.prop)
    /\ t.target /\ t.step \in {"claim", "publish"} => t.seen = Current /\ t.base \in {None, Current}
    /\ t.target /\ t.step = "publish" => t.number = Current + 1

KnowsOf(t) == /\ t \in Pushes => PushKnows(t)
              /\ t = Run => RunKnows
              /\ t \in Reviewers => ReviewerKnows(t)

Knows == \A t \in Txs : KnowsOf(t)

\* Until the test has a case nothing points at one.
NoCase(t) ==
    /\ ~ tx[t].target /\ tx[t].seen = 0 /\ tx[t].base \in {None, 0}
    /\ t = Run => tx[t].step = "none"
    /\ t \in Reviewers /\ tx[t].step = "publish" => tx[t].number = 1

Unborn ==
    ~ case.exists =>
        /\ Current = 0 /\ relink = {} /\ ~ pressed
        /\ \A i \in Rows : ~ proposals[i].target
        /\ \A t \in Txs : NoCase(t)

\* The fallback is the first proposal; the others answer a push each.
Inbox ==
    /\ \A i \in Rows : /\ proposals[i].manual => i = 1
                       /\ ~ proposals[i].manual => Live(i) /\ proposals[i].owner \in Pushes
    /\ \A i, j \in Rows : Live(i) /\ Live(j) /\ proposals[i].owner = proposals[j].owner => i = j

IInv == Types /\ LocksHeld /\ Knows /\ Unborn /\ Inbox /\ NewestPushWins /\ NothingOverwrittenUnseen

-----------------------------------------------------------------------------
(* Locks and rows                                                          *)

\* The locks are of different rows.
LEMMA LocksDiffer ==
    /\ Org # File /\ Org # Case /\ File # Case
    /\ \A i : Prop(i) # Org /\ Prop(i) # File /\ Prop(i) # Case
    /\ \A i, j : Prop(i) = Prop(j) => i = j
    /\ \A i : ApprovalLocks(i)[1] = Case /\ ApprovalLocks(i)[2] = Prop(i)
  BY DEF Org, File, Case, Prop, ApprovalLocks

\* The proposals after the first answer different pushes, so they all have a lock.
LEMMA RowsBound ==
    ASSUME proposals \in Seq(PropType), Inbox
    PROVE  /\ Len(proposals) \in Nat /\ Len(proposals) <= MaxProposals /\ MaxProposals \in Nat
           /\ Rows \subseteq 1 .. MaxProposals
           /\ \A i \in Rows : Prop(i) \in Locks
<1> DEFINE S == 2 .. Len(proposals)
           f == [i \in S |-> proposals[i].owner]
<1>1. Len(proposals) \in Nat /\ IsFiniteSet(Pushes) /\ Cardinality(Pushes) \in Nat
  BY ReviewAssumption, FS_CardinalityType
<1>2. \A i \in S : i \in Rows /\ Live(i) /\ proposals[i].owner \in Pushes
  BY <1>1 DEF Inbox, Rows
<1>3. f \in [S -> Pushes] /\ \A i, j \in S : f[i] = f[j] => i = j
  BY <1>2 DEF Inbox
<1>4. f \in Injection(S, Pushes)
  BY <1>3 DEF Injection, IsInjective
<1>5. Cardinality(S) <= Cardinality(Pushes)
  <2> HIDE DEF f, S
  <2> QED BY <1>1, <1>4, FS_Injection
<1>6. Cardinality(S) = IF 2 > Len(proposals) THEN 0 ELSE Len(proposals) - 2 + 1
  <2>1. 2 \in Int /\ Len(proposals) \in Int
    BY <1>1
  <2> QED BY <2>1, FS_Interval
<1>7. Len(proposals) <= MaxProposals /\ MaxProposals \in Nat
  BY <1>1, <1>5, <1>6 DEF MaxProposals
<1> QED BY <1>1, <1>7 DEF Rows, Locks

\* Jobs, the run and the reviewers are all that have transactions.
LEMMA Actors ==
    /\ Txs = Pushes \cup {Run} \cup Reviewers /\ Jobs = Pushes \cup {Run}
    /\ Run \notin Pushes /\ Run \notin Reviewers /\ Pushes \cap Reviewers = {}
    /\ None \notin Txs /\ None \notin Nat
    /\ \A p \in Pushes : p \in Nat /\ p # 0
  BY ReviewAssumption DEF Txs, Jobs

\* What a transaction holds depends on where it stands alone.
LEMMA SameHolds ==
    ASSUME NEW t, tx'[t] = tx[t]
    PROVE  \A l : Holds(t, l)' <=> Holds(t, l)
  BY DEF Holds

\* A lock that is free is taken by one transaction.
LEMMA TakeLocks ==
    ASSUME Types, LocksHeld, NEW t \in Txs, NEW k \in Locks, Take(t, k),
           \A u \in Txs : u # t => tx'[u] = tx[u],
           \A l \in Locks : Holds(t, l)' <=> Holds(t, l) \/ l = k
    PROVE  LocksHeld' /\ holder' \in [Locks -> Txs \cup {None}]
<1>1. holder[k] = None /\ holder' = [holder EXCEPT ![k] = t] /\ holder \in [Locks -> Txs \cup {None}]
  BY DEF Take, Types
<1>2. ASSUME NEW l \in Locks, NEW u \in Txs PROVE holder'[l] = u <=> Holds(u, l)'
  <2>1. holder[l] = u <=> Holds(u, l)
    BY DEF LocksHeld
  <2>2. ~ Holds(u, k)
    BY <1>1, Actors DEF LocksHeld
  <2>3. CASE u = t
    BY <1>1, <2>1, <2>3
  <2>4. CASE u # t
    <3>1. Holds(u, l)' <=> Holds(u, l)
      BY <2>4, SameHolds
    <3> QED BY <1>1, <2>1, <2>2, <2>4, <3>1
  <2> QED BY <2>3, <2>4
<1> QED BY <1>1, <1>2 DEF LocksHeld

\* The end of a transaction frees its locks.
LEMMA ReleaseLocks ==
    ASSUME Types, LocksHeld, NEW t \in Txs, Release(t),
           \A u \in Txs : u # t => tx'[u] = tx[u], \A l \in Locks : ~ Holds(t, l)'
    PROVE  LocksHeld' /\ holder' \in [Locks -> Txs \cup {None}]
<1>1. holder' = [l \in Locks |-> IF holder[l] = t THEN None ELSE holder[l]]
  BY DEF Release
<1>2. ASSUME NEW l \in Locks, NEW u \in Txs PROVE holder'[l] = u <=> Holds(u, l)'
  <2>1. holder[l] = u <=> Holds(u, l)
    BY DEF LocksHeld
  <2>2. CASE u = t
    BY <1>1, <2>2, Actors
  <2>3. CASE u # t
    <3>1. Holds(u, l)' <=> Holds(u, l)
      BY <2>3, SameHolds
    <3> QED BY <1>1, <2>1, <2>3, <3>1, Actors
  <2> QED BY <2>2, <2>3
<1>3. holder' \in [Locks -> Txs \cup {None}]
  BY <1>1 DEF Types
<1> QED BY <1>2, <1>3 DEF LocksHeld

\* A step that neither takes nor frees one.
LEMMA SameLocks ==
    ASSUME Types, LocksHeld, NEW t, UNCHANGED holder,
           \A u \in Txs : u # t => tx'[u] = tx[u],
           t \in Txs => \A l \in Locks : Holds(t, l)' <=> Holds(t, l)
    PROVE  LocksHeld' /\ holder' \in [Locks -> Txs \cup {None}]
<1>1. ASSUME NEW l \in Locks, NEW u \in Txs PROVE Holds(u, l)' <=> Holds(u, l)
  BY <1>1, SameHolds
<1> QED BY <1>1 DEF LocksHeld, Types

\* What another transaction knows is protected by its locks: an open proposal by
\* the proposal's, the answered pushes by the file's, the version by the case's.
LEMMA Protected ==
    ASSUME NEW u \in Txs, KnowsOf(u), tx'[u] = tx[u], Rows \subseteq Rows',
           \A k \in Rows : /\ proposals'[k].manual = proposals[k].manual
                           /\ InReview(k) /\ Holds(u, Prop(k)) => InReview(k)',
           u \in Pushes /\ Holds(u, File) =>
              /\ Rows' = Rows
              /\ \A k \in Rows : /\ InReview(k)' => InReview(k)
                                 /\ Live(k)' => Live(k)
                                 /\ proposals'[k].owner = proposals[k].owner,
           Holds(u, Case) => /\ case'.queued = case.queued /\ case'.human = case.human
                             /\ Current' = Current
    PROVE  KnowsOf(u)'
<1>1. ASSUME u \in Pushes PROVE PushKnows(u)'
  <2> DEFINE i == tx[u].prop
  <2>1. PushKnows(u)
    BY <1>1 DEF KnowsOf
  <2>2. CASE tx[u].step \in {"refresh", "refreshed", "create"}
    <3>1. Holds(u, File)
      BY <1>1, <2>2 DEF Holds
    <3>2. AllOlder(u) => AllOlder(u)'
      BY <1>1, <3>1 DEF AllOlder
    <3>3. tx[u].step = "refreshed" => InReview(i)'
      <4> SUFFICES ASSUME tx[u].step = "refreshed" PROVE InReview(i)'
        OBVIOUS
      <4>1. i \in Rows /\ InReview(i)
        BY <2>1 DEF PushKnows
      <4>2. Holds(u, Prop(i))
        BY <1>1, <4>1 DEF Holds, Rows
      <4> QED BY <4>1, <4>2
    <3> QED BY <1>1, <2>1, <3>1, <3>2, <3>3 DEF PushKnows
  <2>3. CASE tx[u].step \notin {"refresh", "refreshed", "create"}
    BY <2>3 DEF PushKnows
  <2> QED BY <2>2, <2>3
<1>2. ASSUME u = Run PROVE RunKnows'
  <2> DEFINE i == tx[u].prop
  <2>1. RunKnows
    BY <1>2 DEF KnowsOf
  <2>2. tx[u].step \in {"delete", "publish"} => Holds(u, Case)
    BY <1>2 DEF Holds
  <2>3. i # 0 => Holds(u, Prop(i))
    BY <1>2, <2>1, Actors DEF RunKnows, Holds
  <2> QED BY <1>2, <2>1, <2>2, <2>3 DEF RunKnows
<1>3. ASSUME u \in Reviewers PROVE ReviewerKnows(u)'
  <2> DEFINE i == tx[u].prop
  <2>1. ReviewerKnows(u)
    BY <1>3 DEF KnowsOf
  <2>2. tx[u].target /\ tx[u].step \in {"claim", "publish"} => Holds(u, Case)
    BY <1>3 DEF Holds
  <2>3. tx[u].step = "publish" => i \in Rows /\ Holds(u, Prop(i))
    BY <1>3, <2>1, Actors DEF ReviewerKnows, Holds, Rows
  <2> QED BY <1>3, <2>1, <2>2, <2>3 DEF ReviewerKnows
<1> QED BY <1>1, <1>2, <1>3 DEF KnowsOf

\* A step of one transaction that writes no row keeps the invariant if what the
\* transaction then knows is so.
LEMMA OneTx ==
    ASSUME IInv, NEW t \in Txs, UNCHANGED <<case, versions, proposals, relink, pressed, presses>>,
           tx' \in [Txs -> TxType], \A u \in Txs : u # t => tx'[u] = tx[u], StepOf(t)',
           LocksHeld' /\ holder' \in [Locks -> Txs \cup {None}],
           KnowsOf(t)', ~ case.exists => NoCase(t)'
    PROVE  IInv'
<1>1. Rows' = Rows /\ Current' = Current /\ \A k : (InReview(k)' <=> InReview(k)) /\ (Live(k)' <=> Live(k))
  BY DEF Rows, Current, InReview, Live
<1>2. Types'
  <2>1. \A u \in Txs : StepOf(u)'
    BY DEF IInv, Types, StepOf
  <2> QED BY <1>1, <2>1 DEF IInv, Types
<1>3. Knows'
  <2> SUFFICES ASSUME NEW u \in Txs, u # t PROVE KnowsOf(u)'
    BY DEF Knows
  <2>1. KnowsOf(u) /\ tx'[u] = tx[u]
    BY DEF IInv, Knows
  <2> QED BY <1>1, <2>1, Protected
<1>4. Unborn'
  BY <1>1 DEF IInv, Unborn, NoCase
<1>5. Inbox' /\ NewestPushWins' /\ NothingOverwrittenUnseen'
  BY <1>1 DEF IInv, Inbox, NewestPushWins, NothingOverwrittenUnseen
<1> QED BY <1>2, <1>3, <1>4, <1>5 DEF IInv

-----------------------------------------------------------------------------
(* Steps that take locks and read                                          *)

\* A transaction goes on and keeps what it has read.
LEMMA GotoIs ==
    ASSUME Types, NEW t \in Txs, NEW s \in Steps, Goto(t, s)
    PROVE  /\ tx' \in [Txs -> TxType] /\ \A u \in Txs : u # t => tx'[u] = tx[u]
           /\ tx'[t].step = s /\ tx'[t].prop = tx[t].prop /\ tx'[t].base = tx[t].base
           /\ tx'[t].text = tx[t].text /\ tx'[t].target = tx[t].target
           /\ tx'[t].seen = tx[t].seen /\ tx'[t].number = tx[t].number
<1>1. tx \in [Txs -> TxType] /\ tx[t] \in TxType
  BY DEF Types
<1> QED BY <1>1 DEF Goto, TxType

\* One that has not begun has read nothing.
LEMMA NoTxIs ==
    /\ NoTx \in TxType /\ [NoTx EXCEPT !.step = "queued"] \in TxType
    /\ [NoTx EXCEPT !.step = "done"] \in TxType
    /\ NoTx.step = "none" /\ NoTx.prop = 0 /\ NoTx.base = None /\ ~ NoTx.target /\ NoTx.seen = 0
<1>1. MaxProposals \in Nat /\ None \in Texts
  BY ReviewAssumption, FS_CardinalityType DEF MaxProposals, Texts
<1>2. 0 \in 0 .. MaxProposals
  BY <1>1
<1>3. "none" \in Steps /\ "queued" \in Steps /\ "done" \in Steps
  BY DEF Steps
<1>4. NoTx \in TxType
  BY <1>1, <1>2, <1>3 DEF NoTx, TxType
<1>5. \A s \in Steps : [NoTx EXCEPT !.step = s] \in TxType
  BY <1>4 DEF TxType
<1>6. NoTx.step = "none" /\ NoTx.prop = 0 /\ NoTx.base = None /\ ~ NoTx.target /\ NoTx.seen = 0
  BY DEF NoTx
<1> QED BY <1>3, <1>4, <1>5, <1>6

\* The end of a job of a push, or of a request, that writes nothing more.
LEMMA EndStep ==
    ASSUME IInv, NEW t \in Pushes \cup Reviewers, tx' = [tx EXCEPT ![t] = NoTx],
           Release(t) \/ (UNCHANGED holder /\ \A l \in Locks : ~ Holds(t, l)),
           UNCHANGED <<case, versions, proposals, relink, pressed, presses>>
    PROVE  IInv'
<1>1. t \in Txs /\ t # Run
  BY Actors
<1>2. tx'[t] = NoTx /\ tx' \in [Txs -> TxType] /\ \A u \in Txs : u # t => tx'[u] = tx[u]
  BY <1>1, NoTxIs DEF IInv, Types
<1>3. \A l \in Locks : ~ Holds(t, l)'
  BY <1>1, <1>2 DEF Holds, NoTx
<1>4. LocksHeld' /\ holder' \in [Locks -> Txs \cup {None}]
  BY <1>1, <1>2, <1>3, ReleaseLocks, SameLocks DEF IInv
<1>5. StepOf(t)' /\ NoCase(t)'
  BY <1>1, <1>2 DEF StepOf, NoCase, NoTx, PushSteps, ReviewerSteps
<1>6. KnowsOf(t)'
  BY <1>1, <1>2 DEF KnowsOf, PushKnows, ReviewerKnows, NoTx
<1> QED BY <1>1, <1>2, <1>4, <1>5, <1>6, OneTx

\* A process dies or a transaction aborts.
LEMMA CrashStep == ASSUME IInv, NEW t \in Txs, Crash(t) PROVE IInv'
<1>1. CASE t # Run
  BY <1>1, Actors, EndStep DEF Crash
<1>2. CASE t = Run
  <2>1. tx'[t] = [NoTx EXCEPT !.step = "queued"] /\ tx' \in [Txs -> TxType]
        /\ \A u \in Txs : u # t => tx'[u] = tx[u]
    BY <1>2, NoTxIs DEF Crash, IInv, Types
  <2>2. \A l \in Locks : ~ Holds(t, l)'
    BY <1>2, <2>1, Actors DEF Holds, NoTx
  <2>3. LocksHeld' /\ holder' \in [Locks -> Txs \cup {None}]
    BY <2>1, <2>2, ReleaseLocks DEF IInv, Crash
  <2>4. StepOf(t)' /\ KnowsOf(t)'
    BY <1>2, <2>1, Actors DEF StepOf, KnowsOf, RunKnows, NoTx, RunSteps
  <2>5. case.exists
    BY <1>2 DEF Crash, IInv, Unborn, NoCase
  <2> QED BY <2>1, <2>3, <2>4, <2>5, OneTx DEF Crash
<1> QED BY <1>1, <1>2

\* The credit is spent first, under the lock of the organization.
LEMMA SpendCreditStep == ASSUME IInv, NEW t \in Jobs, SpendCredit(t) PROVE IInv'
<1> DEFINE s == IF t = Run THEN "lockCases" ELSE "lockFile"
<1>1. t \in Txs /\ t \notin Reviewers /\ (t \in Pushes <=> t # Run)
  BY Actors
<1>2. tx' \in [Txs -> TxType] /\ (\A u \in Txs : u # t => tx'[u] = tx[u])
      /\ tx'[t].step = s /\ tx'[t].prop = tx[t].prop /\ tx'[t].base = tx[t].base
      /\ tx'[t].target = tx[t].target /\ tx'[t].seen = tx[t].seen
  BY <1>1, GotoIs DEF SpendCredit, IInv, Steps
<1>3. tx[t].step = IF t = Run THEN "queued" ELSE "none"
  BY DEF SpendCredit
<1>4. \A l \in Locks : Holds(t, l)' <=> Holds(t, l) \/ l = Org
  BY <1>1, <1>2, <1>3 DEF Holds
<1>5. LocksHeld' /\ holder' \in [Locks -> Txs \cup {None}]
  BY <1>1, <1>2, <1>4, TakeLocks DEF SpendCredit, IInv, Locks
<1>6. KnowsOf(t) /\ (~ case.exists => NoCase(t))
  BY <1>1 DEF IInv, Knows, Unborn
<1>7. StepOf(t)' /\ KnowsOf(t)'
  BY <1>1, <1>2, <1>3, <1>6 DEF StepOf, KnowsOf, PushKnows, RunKnows, PushSteps, RunSteps
<1>8. ~ case.exists => NoCase(t)'
  BY <1>1, <1>2, <1>3, <1>6 DEF NoCase
<1> QED BY <1>1, <1>2, <1>5, <1>7, <1>8, OneTx DEF SpendCredit

\* persistExtracted locks the file.
LEMMA LockFileStep == ASSUME IInv, NEW p \in Pushes, LockFile(p) PROVE IInv'
<1>1. p \in Txs /\ p \in Jobs /\ p \notin Reviewers /\ p # Run
  BY Actors
<1>2. tx' \in [Txs -> TxType] /\ (\A u \in Txs : u # p => tx'[u] = tx[u])
      /\ tx'[p].step = "read" /\ tx[p].step = "lockFile" /\ tx'[p].prop = tx[p].prop
      /\ tx'[p].base = tx[p].base /\ tx'[p].target = tx[p].target /\ tx'[p].seen = tx[p].seen
  BY <1>1, GotoIs DEF LockFile, IInv, Steps
<1>3. \A l \in Locks : Holds(p, l)' <=> Holds(p, l) \/ l = File
  BY <1>1, <1>2 DEF Holds
<1>4. LocksHeld' /\ holder' \in [Locks -> Txs \cup {None}]
  BY <1>1, <1>2, <1>3, TakeLocks DEF LockFile, IInv, Locks
<1>5. StepOf(p)' /\ KnowsOf(p)' /\ (~ case.exists => NoCase(p)')
  BY <1>1, <1>2 DEF StepOf, KnowsOf, PushKnows, PushSteps, IInv, Unborn, NoCase
<1> QED BY <1>1, <1>2, <1>4, <1>5, OneTx DEF LockFile

\* What persistExtracted reads under it: its own proposal, the newest older one
\* that is open, which then is the only one, or that none is open.
LEMMA ReadStep == ASSUME IInv, NEW p \in Pushes, Read(p) PROVE IInv'
<1>1. p \in Txs /\ p \in Jobs /\ p \notin Reviewers /\ p # Run /\ p \in Nat
  BY Actors
<1>2. /\ proposals \in Seq(PropType) /\ Inbox /\ NewestPushWins /\ Rows \subseteq 1 .. MaxProposals
      /\ \A i \in Rows : proposals[i].owner \in Nat
  <2>1. proposals \in Seq(PropType) /\ Inbox /\ NewestPushWins
    BY DEF IInv, Types
  <2>2. \A i \in Rows : proposals[i] \in PropType
    BY <2>1 DEF Rows
  <2>3. \A i \in Rows : proposals[i].owner \in Nat
    BY <2>2, Actors DEF PropType, Owners
  <2> QED BY <2>1, <2>3, RowsBound
<1>3. Own(p) = {} /\ Newer(p) = {} => AllOlder(p)
  BY <1>1, <1>2 DEF Own, Newer, AllOlder
<1>4. tx[p] \in TxType /\ tx \in [Txs -> TxType] /\ tx[p].step = "read"
      /\ UNCHANGED <<case, versions, proposals, relink, pressed, presses>>
  BY <1>1 DEF IInv, Types, Read
<1>5. ASSUME NEW s \in {"refresh", "create"}, NEW i \in 0 .. MaxProposals, UNCHANGED holder,
             tx' = [tx EXCEPT ![p] = [tx[p] EXCEPT !.step = s, !.prop = i, !.target = case.exists]],
             s = "create" => AllOlder(p) /\ \A k \in Rows : ~ InReview(k),
             s = "refresh" => /\ i \in Rows /\ \A k \in Rows : InReview(k) => k = i
                              /\ proposals[i].owner = p \/ AllOlder(p)
      PROVE  IInv'
  <2>0. case.exists \in BOOLEAN
    BY DEF IInv, Types
  <2>1. /\ tx'[p].step = s /\ tx'[p].prop = i /\ tx'[p].target = case.exists
        /\ tx'[p].base = tx[p].base /\ tx'[p].seen = tx[p].seen
        /\ tx' \in [Txs -> TxType] /\ \A u \in Txs : u # p => tx'[u] = tx[u]
    BY <1>1, <1>4, <1>5, <2>0 DEF TxType, Steps
  <2>2. \A l \in Locks : Holds(p, l)' <=> Holds(p, l)
    BY <1>1, <1>4, <1>5, <2>1 DEF Holds
  <2>3. LocksHeld' /\ holder' \in [Locks -> Txs \cup {None}]
    BY <1>5, <2>1, <2>2, SameLocks DEF IInv
  <2>4. StepOf(p)' /\ (~ case.exists => NoCase(p)')
    BY <1>1, <1>5, <2>1 DEF StepOf, PushSteps, IInv, Unborn, NoCase
  <2>5. KnowsOf(p)'
    <3>1. Rows' = Rows /\ (AllOlder(p) => AllOlder(p)') /\ \A k : InReview(k)' <=> InReview(k)
      BY <1>4 DEF Rows, AllOlder, Live, InReview
    <3> QED BY <1>1, <1>4, <1>5, <2>1, <3>1 DEF KnowsOf, PushKnows
  <2> QED BY <1>1, <1>4, <2>1, <2>3, <2>4, <2>5, OneTx
<1>6. ASSUME NEW i \in Rows, InReview(i), Refreshes(p, i), proposals[i].owner = p \/ AllOlder(p)
      PROVE  IInv'
  <2>1. \A k \in Rows : InReview(k) => k = i
    BY <1>2, <1>6 DEF NewestPushWins, InReview, Live
  <2>2. tx' = [tx EXCEPT ![p] = [tx[p] EXCEPT !.step = "refresh", !.prop = i, !.target = case.exists]]
    BY <1>6, <1>4 DEF Refreshes, TxType
  <2>3. i \in 0 .. MaxProposals /\ UNCHANGED holder
    BY <1>2, <1>6 DEF Refreshes
  <2> QED BY <1>5, <1>6, <2>1, <2>2, <2>3
<1>7. CASE \E i \in Own(p) : IF InReview(i) THEN Refreshes(p, i) ELSE End(p)
  BY <1>1, <1>4, <1>6, <1>7, EndStep DEF Own, End
<1>8. CASE Newer(p) # {} /\ End(p)
  BY <1>4, <1>8, EndStep DEF End
<1>9. CASE Own(p) = {} /\ Newer(p) = {} /\ \E i \in Older(p) : Refreshes(p, i)
  BY <1>3, <1>6, <1>9 DEF Older
<1>10. CASE /\ Own(p) = {} /\ Newer(p) = {} /\ Older(p) = {} /\ UNCHANGED holder
            /\ tx' = [tx EXCEPT ![p].step = "create", ![p].target = case.exists]
  <2>1. \A k \in Rows : ~ InReview(k)
    <3> SUFFICES ASSUME NEW k \in Rows, InReview(k) PROVE FALSE
      OBVIOUS
    <3>1. Live(k) /\ proposals[k].owner < p
      BY <1>3, <1>10 DEF AllOlder, InReview, Live
    <3>2. \A j \in Rows : InReview(j) => j = k
      BY <1>2 DEF NewestPushWins, InReview, Live
    <3>3. k \in Older(p)
      BY <1>2, <3>1, <3>2 DEF Older
    <3> QED BY <1>10, <3>3
  <2>2. tx' = [tx EXCEPT ![p] = [tx[p] EXCEPT !.step = "create", !.prop = tx[p].prop,
                                              !.target = case.exists]]
    BY <1>4, <1>10 DEF TxType
  <2>3. tx[p].prop \in 0 .. MaxProposals
    BY <1>4 DEF TxType
  <2> QED BY <1>3, <1>5, <1>10, <2>1, <2>2, <2>3
<1> QED BY <1>7, <1>8, <1>9, <1>10 DEF Read

\* What the invariant says of one transaction.
LEMMA Standing ==
    ASSUME IInv, NEW t \in Txs
    PROVE  /\ tx \in [Txs -> TxType] /\ tx[t] \in TxType /\ StepOf(t) /\ KnowsOf(t)
           /\ ~ case.exists => NoCase(t)
           /\ Current \in Nat /\ Rows \subseteq 1 .. MaxProposals
           /\ \A i \in Rows : proposals[i] \in PropType /\ i # 0 /\ Prop(i) \in Locks
<1>1. proposals \in Seq(PropType) /\ versions \in Seq(Texts) /\ Inbox
  BY DEF IInv, Types
<1>2. Rows \subseteq 1 .. MaxProposals /\ \A i \in Rows : Prop(i) \in Locks
  BY <1>1, RowsBound
<1>3. \A i \in Rows : proposals[i] \in PropType /\ i # 0
  BY <1>1 DEF Rows
<1> QED BY <1>1, <1>2, <1>3 DEF IInv, Types, Knows, Unborn, Current

\* A step that writes no row leaves what is read of them.
LEMMA SameRows ==
    ASSUME UNCHANGED <<case, versions, proposals>>
    PROVE  /\ Rows' = Rows /\ Current' = Current
           /\ \A k : (InReview(k)' <=> InReview(k)) /\ (Live(k)' <=> Live(k))
           /\ \A p : AllOlder(p)' <=> AllOlder(p)
  BY DEF Rows, Current, InReview, Live, AllOlder

\* The conditional update of a refresh takes the open proposal; one decided
\* meanwhile ends the job of its own push, and another push then opens a new one.
LEMMA RefreshStep == ASSUME IInv, NEW p \in Pushes, Refresh(p) PROVE IInv'
<1>1. p \in Txs /\ p \in Jobs /\ p \notin Reviewers /\ p # Run
  BY Actors
<1>2. PICK i : i = tx[p].prop
  OBVIOUS
<1>3. /\ tx[p].step = "refresh" /\ PushKnows(p) /\ Types /\ LocksHeld
      /\ UNCHANGED <<case, versions, proposals, relink, pressed, presses>>
  BY <1>1, Standing DEF KnowsOf, Refresh, IInv
<1>4. i \in Rows /\ i # 0 /\ Prop(i) \in Locks /\ (\A k \in Rows : InReview(k) => k = i)
      /\ (proposals[i].owner = p \/ AllOlder(p))
  BY <1>1, <1>2, <1>3, Standing DEF PushKnows
<1>5. ~ case.exists => NoCase(p)
  BY <1>1, Standing
<1>6. CASE InReview(i) /\ Take(p, Prop(i)) /\ Goto(p, "refreshed")
  <2>1. tx' \in [Txs -> TxType] /\ (\A u \in Txs : u # p => tx'[u] = tx[u])
        /\ tx'[p].step = "refreshed" /\ tx'[p].prop = i /\ tx'[p].base = tx[p].base
        /\ tx'[p].target = tx[p].target /\ tx'[p].seen = tx[p].seen
    BY <1>1, <1>2, <1>3, <1>6, GotoIs DEF Steps
  <2>2. \A l \in Locks : Holds(p, l)' <=> Holds(p, l) \/ l = Prop(i)
    BY <1>1, <1>2, <1>3, <1>4, <2>1 DEF Holds
  <2>3. LocksHeld' /\ holder' \in [Locks -> Txs \cup {None}]
    BY <1>1, <1>3, <1>4, <1>6, <2>1, <2>2, TakeLocks
  <2>4. StepOf(p)' /\ KnowsOf(p)'
    BY <1>1, <1>3, <1>4, <1>6, <2>1, SameRows DEF StepOf, KnowsOf, PushKnows, PushSteps
  <2>5. ~ case.exists => NoCase(p)'
    BY <1>1, <1>5, <2>1 DEF NoCase
  <2> QED BY <1>1, <1>3, <2>1, <2>3, <2>4, <2>5, OneTx
<1>7. CASE End(p)
  BY <1>3, <1>7, EndStep DEF End
<1>8. CASE ~ InReview(i) /\ proposals[i].owner # p /\ Goto(p, "create") /\ UNCHANGED holder
  <2>1. tx' \in [Txs -> TxType] /\ (\A u \in Txs : u # p => tx'[u] = tx[u])
        /\ tx'[p].step = "create" /\ tx'[p].prop = i /\ tx'[p].base = tx[p].base
        /\ tx'[p].target = tx[p].target /\ tx'[p].seen = tx[p].seen
    BY <1>1, <1>2, <1>3, <1>8, GotoIs DEF Steps
  <2>2. \A l \in Locks : Holds(p, l)' <=> Holds(p, l)
    BY <1>1, <1>2, <1>3, <2>1 DEF Holds
  <2>3. LocksHeld' /\ holder' \in [Locks -> Txs \cup {None}]
    BY <1>1, <1>3, <1>8, <2>1, <2>2, SameLocks
  <2>4. StepOf(p)' /\ KnowsOf(p)'
    BY <1>1, <1>3, <1>4, <1>8, <2>1, SameRows DEF StepOf, KnowsOf, PushKnows, PushSteps
  <2>5. ~ case.exists => NoCase(p)'
    BY <1>1, <1>5, <2>1 DEF NoCase
  <2> QED BY <1>1, <1>3, <2>1, <2>3, <2>4, <2>5, OneTx
<1> QED BY <1>2, <1>6, <1>7, <1>8 DEF Refresh, StillOpen

\* What a document-file run holds and knows, and that the case exists.
LEMMA RunStanding ==
    ASSUME IInv
    PROVE  /\ Run \in Txs /\ Run \in Jobs /\ Run \notin Reviewers /\ Run \notin Pushes
           /\ tx \in [Txs -> TxType] /\ tx[Run] \in TxType /\ RunKnows
           /\ tx[Run].step # "none" => case.exists
           /\ tx[Run].step # "publish" => tx[Run].prop = 0
  BY Actors, Standing DEF KnowsOf, RunKnows, NoCase

\* The run locks its case.
LEMMA LockCasesStep == ASSUME IInv, LockCases PROVE IInv'
<1>1. /\ tx[Run].step = "lockCases" /\ Types /\ LocksHeld /\ Case \in Locks
      /\ UNCHANGED <<case, versions, proposals, relink, pressed, presses>>
  BY DEF LockCases, IInv, Locks
<1>2. tx' \in [Txs -> TxType] /\ (\A u \in Txs : u # Run => tx'[u] = tx[u])
      /\ tx'[Run].step = "decide" /\ tx'[Run].prop = 0
  BY <1>1, RunStanding, GotoIs DEF LockCases, Steps
<1>3. \A l \in Locks : Holds(Run, l)' <=> Holds(Run, l) \/ l = Case
  BY <1>1, <1>2, RunStanding DEF Holds
<1>4. LocksHeld' /\ holder' \in [Locks -> Txs \cup {None}]
  BY <1>1, <1>2, <1>3, RunStanding, TakeLocks DEF LockCases
<1>5. StepOf(Run)' /\ KnowsOf(Run)'
  BY <1>2, RunStanding DEF StepOf, KnowsOf, RunKnows, RunSteps
<1> QED BY <1>1, <1>2, <1>4, <1>5, RunStanding, OneTx

\* It skips the case, leaves it, or goes on with a number of its own.
LEMMA DecideStep == ASSUME IInv, Decide PROVE IInv'
<1>1. /\ tx[Run].step = "decide" /\ Types /\ LocksHeld /\ UNCHANGED holder
      /\ UNCHANGED <<case, versions, proposals, relink, pressed, presses>>
  BY DEF Decide, IInv
<1>2. PICK s \in {"superseded", "skipped", "delete"}, n \in Nat :
        /\ tx' = [tx EXCEPT ![Run] = [tx[Run] EXCEPT !.step = s, !.number = n]]
        /\ s = "delete" => case.queued /\ ~ case.human /\ n = Current + 1
  <2>1. tx[Run].number \in Nat /\ Current + 1 \in Nat
    BY RunStanding, Standing DEF TxType
  <2>2. CASE Goto(Run, "superseded") \/ Goto(Run, "skipped")
    <3>1. ASSUME NEW s, Goto(Run, s)
          PROVE  tx' = [tx EXCEPT ![Run] = [tx[Run] EXCEPT !.step = s, !.number = tx[Run].number]]
      BY <3>1, RunStanding DEF Goto, TxType
    <3> QED BY <2>1, <2>2, <3>1
  <2>3. CASE OwnsCase /\ ~ Skipped
             /\ tx' = [tx EXCEPT ![Run].step = "delete", ![Run].number = Current + 1]
    BY <2>1, <2>3, RunStanding DEF OwnsCase, Skipped, TxType
  <2> QED BY <2>2, <2>3 DEF Decide
<1>3. tx' \in [Txs -> TxType] /\ (\A u \in Txs : u # Run => tx'[u] = tx[u])
      /\ tx'[Run].step = s /\ tx'[Run].prop = 0 /\ tx'[Run].number = n
  BY <1>1, <1>2, RunStanding DEF Steps, TxType
<1>4. \A l \in Locks : Holds(Run, l)' <=> Holds(Run, l)
  BY <1>1, <1>2, <1>3, RunStanding DEF Holds
<1>5. LocksHeld' /\ holder' \in [Locks -> Txs \cup {None}]
  BY <1>1, <1>3, <1>4, RunStanding, SameLocks
<1>6. StepOf(Run)' /\ KnowsOf(Run)'
  BY <1>1, <1>2, <1>3, RunStanding, SameRows DEF StepOf, KnowsOf, RunKnows, RunSteps
<1> QED BY <1>1, <1>3, <1>5, <1>6, RunStanding, OneTx

\* It deletes a fallback that waits for manual review, under its lock.
LEMMA DeleteFallbackStep == ASSUME IInv, DeleteFallback PROVE IInv'
<1>1. /\ tx[Run].step = "delete" /\ Types /\ LocksHeld
      /\ UNCHANGED <<case, versions, proposals, relink, pressed, presses>>
  BY DEF DeleteFallback, IInv
<1>2. CASE Goto(Run, "publish") /\ UNCHANGED holder
  <2>1. tx' \in [Txs -> TxType] /\ (\A u \in Txs : u # Run => tx'[u] = tx[u])
        /\ tx'[Run].step = "publish" /\ tx'[Run].prop = 0 /\ tx'[Run].number = tx[Run].number
    BY <1>1, <1>2, RunStanding, GotoIs DEF Steps
  <2>2. \A l \in Locks : Holds(Run, l)' <=> Holds(Run, l)
    BY <1>1, <2>1, RunStanding DEF Holds
  <2>3. LocksHeld' /\ holder' \in [Locks -> Txs \cup {None}]
    BY <1>1, <1>2, <2>1, <2>2, RunStanding, SameLocks
  <2>4. StepOf(Run)' /\ KnowsOf(Run)'
    BY <1>1, <2>1, RunStanding, SameRows DEF StepOf, KnowsOf, RunKnows, RunSteps
  <2> QED BY <1>1, <2>1, <2>3, <2>4, RunStanding, OneTx
<1>3. ASSUME NEW i \in Fallbacks, Take(Run, Prop(i)),
             tx' = [tx EXCEPT ![Run].step = "publish", ![Run].prop = i]
      PROVE  IInv'
  <2>1. i \in Rows /\ InReview(i) /\ proposals[i].manual /\ i # 0 /\ Prop(i) \in Locks
        /\ i \in 0 .. MaxProposals
    BY <1>3, RunStanding, Standing DEF Fallbacks
  <2>2. tx' \in [Txs -> TxType] /\ (\A u \in Txs : u # Run => tx'[u] = tx[u])
        /\ tx'[Run].step = "publish" /\ tx'[Run].prop = i /\ tx'[Run].number = tx[Run].number
    BY <1>3, <2>1, RunStanding DEF Steps, TxType
  <2>3. \A l \in Locks : Holds(Run, l)' <=> Holds(Run, l) \/ l = Prop(i)
    BY <1>1, <2>1, <2>2, RunStanding DEF Holds
  <2>4. LocksHeld' /\ holder' \in [Locks -> Txs \cup {None}]
    BY <1>1, <1>3, <2>1, <2>2, <2>3, RunStanding, TakeLocks
  <2>5. StepOf(Run)' /\ KnowsOf(Run)'
    BY <1>1, <2>1, <2>2, RunStanding, SameRows DEF StepOf, KnowsOf, RunKnows, RunSteps
  <2> QED BY <1>1, <2>2, <2>4, <2>5, RunStanding, OneTx
<1> QED BY <1>2, <1>3 DEF DeleteFallback

\* Its record leaves the queue.
LEMMA CompleteStep == ASSUME IInv, Complete PROVE IInv'
<1>1. /\ tx[Run].step = "done" /\ Types /\ LocksHeld /\ UNCHANGED holder
      /\ UNCHANGED <<case, versions, proposals, relink, pressed, presses>>
  BY DEF Complete, IInv
<1>2. tx' \in [Txs -> TxType] /\ (\A u \in Txs : u # Run => tx'[u] = tx[u])
      /\ tx'[Run].step = "none" /\ tx'[Run].prop = 0
  BY <1>1, RunStanding, GotoIs DEF Complete, Steps
<1>3. \A l \in Locks : Holds(Run, l)' <=> Holds(Run, l)
  BY <1>1, <1>2, RunStanding DEF Holds
<1>4. LocksHeld' /\ holder' \in [Locks -> Txs \cup {None}]
  BY <1>1, <1>2, <1>3, RunStanding, SameLocks
<1>5. StepOf(Run)' /\ KnowsOf(Run)'
  BY <1>2, RunStanding DEF StepOf, KnowsOf, RunKnows, RunSteps
<1> QED BY <1>1, <1>2, <1>4, <1>5, RunStanding, OneTx

\* What a reviewer's request holds and knows.
LEMMA ReviewerStanding ==
    ASSUME IInv, NEW r \in Reviewers
    PROVE  /\ r \in Txs /\ r \notin Jobs /\ r \notin Pushes /\ r # Run
           /\ tx \in [Txs -> TxType] /\ tx[r] \in TxType /\ ReviewerKnows(r)
           /\ ~ case.exists => NoCase(r)
  BY Actors, Standing DEF KnowsOf

\* A detail shows the current version, or none while the test has no case.
LEMMA ViewStep ==
    ASSUME IInv, NEW r \in Reviewers, NEW i \in 1 .. MaxProposals, View(r, i)
    PROVE  IInv'
<1>1. /\ tx[r].step = "none" /\ i \in Rows /\ Types /\ LocksHeld /\ UNCHANGED holder
      /\ UNCHANGED <<case, versions, proposals, relink, pressed, presses>>
  BY DEF View, IInv
<1>2. PICK b \in {None, IF proposals[i].target THEN Current ELSE 0} :
         tx' = [tx EXCEPT ![r] = [NoTx EXCEPT !.step = "viewed", !.prop = i, !.base = b]]
  BY DEF View
<1>3. b \in Nat \cup {None} /\ i \in 0 .. MaxProposals
  BY <1>1, ReviewerStanding, Standing
<1>4. tx' \in [Txs -> TxType] /\ (\A u \in Txs : u # r => tx'[u] = tx[u])
      /\ tx'[r].step = "viewed" /\ tx'[r].prop = i /\ tx'[r].base = b
      /\ ~ tx'[r].target /\ tx'[r].seen = 0
  <2>1. PICK t : t = [NoTx EXCEPT !.step = "viewed", !.prop = i, !.base = b]
    OBVIOUS
  <2>2. /\ t \in TxType /\ t.step = "viewed" /\ t.prop = i /\ t.base = b
        /\ ~ t.target /\ t.seen = 0
    BY <1>3, <2>1, NoTxIs DEF Steps, TxType
  <2>3. tx \in [Txs -> TxType] /\ r \in Txs /\ tx' = [tx EXCEPT ![r] = t]
    BY <1>2, <2>1, ReviewerStanding
  <2> QED BY <2>2, <2>3
<1>5. \A l \in Locks : Holds(r, l)' <=> Holds(r, l)
  BY <1>1, <1>4, ReviewerStanding DEF Holds
<1>6. LocksHeld' /\ holder' \in [Locks -> Txs \cup {None}]
  BY <1>1, <1>4, <1>5, SameLocks
<1>7. StepOf(r)' /\ KnowsOf(r)'
  BY <1>1, <1>4, ReviewerStanding, SameRows DEF StepOf, KnowsOf, ReviewerKnows, ReviewerSteps
<1>8. ~ case.exists => NoCase(r)'
  <2>1. ~ case.exists => b \in {None, 0}
    BY <1>1, <1>2 DEF IInv, Unborn
  <2> QED BY <1>4, <2>1, ReviewerStanding DEF NoCase
<1> QED BY <1>1, <1>4, <1>6, <1>7, <1>8, ReviewerStanding, OneTx

\* An approval reads the proposal without a lock.
LEMMA ApproveStep == ASSUME IInv, NEW r \in Reviewers, Approve(r) PROVE IInv'
<1>1. PICK p : p = proposals[tx[r].prop]
  OBVIOUS
<1>2. /\ tx[r].step = "viewed" /\ Types /\ LocksHeld /\ UNCHANGED holder
      /\ UNCHANGED <<case, versions, proposals, relink, pressed, presses>>
  BY DEF Approve, IInv
<1>3. tx[r].prop \in Rows /\ p \in PropType /\ (~ case.exists => ~ p.target)
  BY <1>1, <1>2, ReviewerStanding, Standing DEF ReviewerKnows, IInv, Unborn
<1>4. \A l \in Locks : ~ Holds(r, l)
  BY <1>2, ReviewerStanding DEF Holds
<1>5. CASE tx' = [tx EXCEPT ![r] = NoTx]
  BY <1>2, <1>4, <1>5, EndStep
<1>6. CASE tx' = [tx EXCEPT ![r].step = IF p.target THEN "lockCase" ELSE "claim",
                            ![r].text = p.text, ![r].target = p.target]
  <2>1. p.text \in Texts /\ p.target \in BOOLEAN
    BY <1>3 DEF PropType
  <2>2. tx' \in [Txs -> TxType] /\ (\A u \in Txs : u # r => tx'[u] = tx[u])
        /\ tx'[r].step = (IF p.target THEN "lockCase" ELSE "claim") /\ tx'[r].prop = tx[r].prop
        /\ tx'[r].base = tx[r].base /\ tx'[r].target = p.target /\ tx'[r].seen = tx[r].seen
    <3>1. PICK t : t = [tx[r] EXCEPT !.step = IF p.target THEN "lockCase" ELSE "claim",
                                     !.text = p.text, !.target = p.target]
      OBVIOUS
    <3>2. tx \in [Txs -> TxType] /\ r \in Txs /\ tx' = [tx EXCEPT ![r] = t]
      BY <1>6, <3>1, ReviewerStanding
    <3>3. /\ t \in TxType /\ t.step = (IF p.target THEN "lockCase" ELSE "claim")
          /\ t.prop = tx[r].prop /\ t.base = tx[r].base /\ t.target = p.target
          /\ t.seen = tx[r].seen
      <4>1. tx[r] \in TxType /\ t.step \in {"lockCase", "claim"}
        BY <3>1, <3>2 DEF TxType
      <4> QED BY <2>1, <3>1, <4>1 DEF Steps, TxType
    <3> QED BY <3>2, <3>3
  <2>3. \A l \in Locks : Holds(r, l)' <=> Holds(r, l)
    BY <1>4, <2>2, ReviewerStanding DEF Holds
  <2>4. LocksHeld' /\ holder' \in [Locks -> Txs \cup {None}]
    BY <1>2, <2>2, <2>3, SameLocks
  <2>5. StepOf(r)' /\ KnowsOf(r)'
    BY <1>2, <1>3, <2>1, <2>2, ReviewerStanding, SameRows
    DEF StepOf, KnowsOf, ReviewerKnows, ReviewerSteps
  <2>6. ~ case.exists => NoCase(r)'
    BY <1>3, <2>2, ReviewerStanding DEF NoCase
  <2> QED BY <1>2, <2>2, <2>4, <2>5, <2>6, ReviewerStanding, OneTx
<1> QED BY <1>1, <1>5, <1>6 DEF Approve

\* It compares the base, and reads the version it supersedes, under the case's.
LEMMA LockCaseStep == ASSUME IInv, NEW r \in Reviewers, LockCase(r) PROVE IInv'
<1>1. /\ tx[r].step = "lockCase" /\ Types /\ LocksHeld /\ Case \in Locks
      /\ UNCHANGED <<case, versions, proposals, relink, pressed, presses>>
  BY DEF LockCase, IInv, Locks
<1>2. tx[r].prop \in Rows /\ tx[r].target = TRUE /\ case.exists /\ Current \in Nat
  BY <1>1, ReviewerStanding, Standing DEF ReviewerKnows, NoCase, TxType
<1>3. CASE End(r)
  BY <1>1, <1>3, EndStep DEF End
<1>4. CASE ~ Stale(r) /\ Take(r, Case)
           /\ tx' = [tx EXCEPT ![r].step = "claim", ![r].seen = Current]
  <2>1. tx' \in [Txs -> TxType] /\ (\A u \in Txs : u # r => tx'[u] = tx[u])
        /\ tx'[r].step = "claim" /\ tx'[r].prop = tx[r].prop /\ tx'[r].target = TRUE
        /\ tx'[r].base = tx[r].base /\ tx'[r].seen = Current
    BY <1>2, <1>4, ReviewerStanding DEF Steps, TxType
  <2>2. \A l \in Locks : Holds(r, l)' <=> Holds(r, l) \/ l = Case
    BY <1>1, <2>1, ReviewerStanding DEF Holds
  <2>3. LocksHeld' /\ holder' \in [Locks -> Txs \cup {None}]
    BY <1>1, <1>4, <2>1, <2>2, ReviewerStanding, TakeLocks
  <2>4. StepOf(r)' /\ KnowsOf(r)'
    BY <1>1, <1>2, <1>4, <2>1, ReviewerStanding, SameRows
    DEF StepOf, KnowsOf, ReviewerKnows, ReviewerSteps, Stale
  <2> QED BY <1>1, <1>2, <2>1, <2>3, <2>4, ReviewerStanding, OneTx
<1> QED BY <1>3, <1>4, LocksDiffer DEF LockCase

\* The claim takes the open proposal and counts the versions.
LEMMA ClaimStep == ASSUME IInv, NEW r \in Reviewers, Claim(r) PROVE IInv'
<1>1. PICK i : i = tx[r].prop
  OBVIOUS
<1>2. /\ tx[r].step = "claim" /\ Types /\ LocksHeld
      /\ UNCHANGED <<case, versions, proposals, relink, pressed, presses>>
  BY DEF Claim, IInv
<1>3. i \in Rows /\ i # 0 /\ Prop(i) \in Locks /\ Current \in Nat
      /\ (tx[r].target => tx[r].seen = Current /\ tx[r].base \in {None, Current})
      /\ (~ case.exists => Current = 0)
  BY <1>1, <1>2, ReviewerStanding, Standing DEF ReviewerKnows, IInv, Unborn
<1>4. CASE End(r)
  BY <1>2, <1>4, EndStep DEF End
<1>5. CASE InReview(i) /\ Take(r, Prop(i))
           /\ tx' = [tx EXCEPT ![r].step = "publish", ![r].number = Current + 1]
  <2>1. tx' \in [Txs -> TxType] /\ (\A u \in Txs : u # r => tx'[u] = tx[u])
        /\ tx'[r].step = "publish" /\ tx'[r].prop = i /\ tx'[r].target = tx[r].target
        /\ tx'[r].base = tx[r].base /\ tx'[r].seen = tx[r].seen /\ tx'[r].number = Current + 1
    <3>1. Current + 1 \in Nat
      BY <1>3
    <3> QED BY <1>1, <1>5, <3>1, ReviewerStanding DEF Steps, TxType
  <2>2. \A l \in Locks : Holds(r, l)' <=> Holds(r, l) \/ l = Prop(i)
    BY <1>2, <1>3, <2>1, ReviewerStanding DEF Holds
  <2>3. LocksHeld' /\ holder' \in [Locks -> Txs \cup {None}]
    BY <1>2, <1>3, <1>5, <2>1, <2>2, ReviewerStanding, TakeLocks
  <2>4. StepOf(r)' /\ KnowsOf(r)'
    BY <1>2, <1>3, <1>5, <2>1, ReviewerStanding, SameRows
    DEF StepOf, KnowsOf, ReviewerKnows, ReviewerSteps
  <2>5. ~ case.exists => NoCase(r)'
    BY <1>2, <1>3, <2>1, ReviewerStanding DEF NoCase
  <2> QED BY <1>2, <2>1, <2>3, <2>4, <2>5, ReviewerStanding, OneTx
<1>6. (IF tx[r].target THEN ApprovalLocks(i)[2] ELSE Prop(i)) = Prop(i)
  BY LocksDiffer
<1> QED BY <1>1, <1>4, <1>5, <1>6 DEF Claim

\* A rejection reads the proposal without a lock.
LEMMA RejectReadStep ==
    ASSUME IInv, NEW r \in Reviewers, Reject(r), tx[r].step = "viewed"
    PROVE  IInv'
<1>1. /\ Types /\ LocksHeld /\ UNCHANGED holder
      /\ UNCHANGED <<case, versions, proposals, relink, pressed, presses>>
      /\ \/ tx' = [tx EXCEPT ![r] = NoTx]
         \/ tx' = [tx EXCEPT ![r] = [tx[r] EXCEPT !.step = "reject"]]
  BY DEF Reject, IInv
<1>2. \A l \in Locks : ~ Holds(r, l)
  BY ReviewerStanding DEF Holds
<1>3. CASE tx' = [tx EXCEPT ![r] = NoTx]
  BY <1>1, <1>2, <1>3, EndStep
<1>4. CASE tx' = [tx EXCEPT ![r] = [tx[r] EXCEPT !.step = "reject"]]
  <2>1. tx' \in [Txs -> TxType] /\ (\A u \in Txs : u # r => tx'[u] = tx[u])
        /\ tx'[r].step = "reject" /\ tx'[r].prop = tx[r].prop /\ tx'[r].target = tx[r].target
        /\ tx'[r].base = tx[r].base /\ tx'[r].seen = tx[r].seen
    BY <1>4, ReviewerStanding DEF Steps, TxType
  <2>2. \A l \in Locks : Holds(r, l)' <=> Holds(r, l)
    BY <1>2, <2>1, ReviewerStanding DEF Holds
  <2>3. LocksHeld' /\ holder' \in [Locks -> Txs \cup {None}]
    BY <1>1, <2>1, <2>2, SameLocks
  <2>4. StepOf(r)' /\ KnowsOf(r)'
    BY <1>1, <2>1, ReviewerStanding, SameRows DEF StepOf, KnowsOf, ReviewerKnows, ReviewerSteps
  <2>5. ~ case.exists => NoCase(r)'
    BY <2>1, ReviewerStanding DEF NoCase
  <2> QED BY <1>1, <2>1, <2>3, <2>4, <2>5, ReviewerStanding, OneTx
<1> QED BY <1>1, <1>3, <1>4

-----------------------------------------------------------------------------
(* Steps that write                                                        *)

\* A lock has one holder, and a free one none.
LEMMA OneHolder ==
    ASSUME LocksHeld, NEW l \in Locks, NEW t \in Txs
    PROVE  /\ Holds(t, l) => \A u \in Txs : Holds(u, l) => u = t
           /\ holder[l] = None => ~ Holds(t, l)
  BY Actors DEF LocksHeld

\* The others still know what they knew if the writer leaves alone what they hold.
LEMMA RestKnow ==
    ASSUME IInv, NEW t, \A u \in Txs : u # t => tx'[u] = tx[u], t \in Txs => KnowsOf(t)',
           Rows \subseteq Rows', \A k \in Rows : proposals'[k].manual = proposals[k].manual,
           \A k \in Rows, u \in Txs : u # t /\ InReview(k) /\ Holds(u, Prop(k)) => InReview(k)',
           \A u \in Pushes : u # t /\ Holds(u, File) =>
              /\ Rows' = Rows
              /\ \A k \in Rows : /\ InReview(k)' => InReview(k)
                                 /\ Live(k)' => Live(k)
                                 /\ proposals'[k].owner = proposals[k].owner,
           \A u \in Txs : u # t /\ Holds(u, Case) =>
              case'.queued = case.queued /\ case'.human = case.human /\ Current' = Current
    PROVE  Knows'
<1> SUFFICES ASSUME NEW u \in Txs, u # t PROVE KnowsOf(u)'
  BY DEF Knows
<1>1. KnowsOf(u) /\ tx'[u] = tx[u]
  BY DEF IInv, Knows
<1>2. \A k \in Rows : /\ proposals'[k].manual = proposals[k].manual
                      /\ InReview(k) /\ Holds(u, Prop(k)) => InReview(k)'
  OBVIOUS
<1>3. u \in Pushes /\ Holds(u, File) =>
              /\ Rows' = Rows
              /\ \A k \in Rows : /\ InReview(k)' => InReview(k)
                                 /\ Live(k)' => Live(k)
                                 /\ proposals'[k].owner = proposals[k].owner
  OBVIOUS
<1>4. Holds(u, Case) => case'.queued = case.queued /\ case'.human = case.human /\ Current' = Current
  OBVIOUS
<1> QED BY <1>1, <1>2, <1>3, <1>4, Protected

\* A step that writes at most the case, which exists, and goes on with one
\* transaction.
LEMMA CaseOnly ==
    ASSUME IInv, NEW t, UNCHANGED <<versions, proposals>>,
           tx' \in [Txs -> TxType], \A u \in Txs : u # t => tx'[u] = tx[u],
           t \in Txs => StepOf(t)' /\ KnowsOf(t)',
           LocksHeld' /\ holder' \in [Locks -> Txs \cup {None}],
           case' \in [exists : BOOLEAN, queued : BOOLEAN, human : BOOLEAN], case'.exists,
           \A u \in Txs : u # t /\ Holds(u, Case) =>
              case'.queued = case.queued /\ case'.human = case.human,
           relink' \subseteq Rows, pressed' \in BOOLEAN, presses' \in 0 .. MaxPresses
    PROVE  IInv'
<1>1. Rows' = Rows /\ Current' = Current
      /\ \A k : (InReview(k)' <=> InReview(k)) /\ (Live(k)' <=> Live(k))
  BY DEF Rows, Current, InReview, Live
<1>2. Types'
  <2>1. \A u \in Txs : StepOf(u)'
    BY DEF IInv, Types, StepOf
  <2> QED BY <1>1, <2>1 DEF IInv, Types
<1>3. Knows'
  BY <1>1, RestKnow
<1>4. Unborn'
  BY DEF Unborn
<1>5. Inbox' /\ NewestPushWins' /\ NothingOverwrittenUnseen'
  BY <1>1 DEF IInv, Inbox, NewestPushWins, NothingOverwrittenUnseen
<1> QED BY <1>2, <1>3, <1>4, <1>5 DEF IInv

\* Nothing of the transactions moves.
LEMMA NobodyMoves ==
    ASSUME IInv, UNCHANGED <<holder, tx>>
    PROVE  /\ tx' \in [Txs -> TxType] /\ (\A u \in Txs : tx'[u] = tx[u]) /\ None \notin Txs
           /\ LocksHeld' /\ holder' \in [Locks -> Txs \cup {None}]
<1>1. tx' \in [Txs -> TxType] /\ (\A u \in Txs : tx'[u] = tx[u]) /\ None \notin Txs
  BY Actors DEF IInv, Types
<1> QED BY <1>1, SameLocks DEF IInv

\* Document is pressed for a case that is eligible.
LEMMA PressStep == ASSUME IInv, Press PROVE IInv'
<1>1. /\ UNCHANGED <<case, versions, proposals, holder, tx, relink>> /\ case.exists
      /\ presses' = presses + 1 /\ presses < MaxPresses /\ pressed' = TRUE
  BY DEF Press
<1>2. presses' \in 0 .. MaxPresses
  BY <1>1, ReviewAssumption DEF IInv, Types
<1> QED BY <1>1, <1>2, NobodyMoves, CaseOnly DEF IInv, Types

\* A reclassify job reads the open proposals.
LEMMA ReclassifyStep == ASSUME IInv, Reclassify PROVE IInv'
  BY NobodyMoves, CaseOnly DEF Reclassify, IInv, Types

\* A person edits the case, which nobody has locked.
LEMMA EditCaseStep == ASSUME IInv, EditCase PROVE IInv'
<1>1. /\ UNCHANGED <<versions, proposals, holder, tx, relink, pressed, presses>> /\ case.exists
      /\ holder[Case] = None /\ LocksHeld /\ Case \in Locks /\ Types
      /\ case' = [case EXCEPT !.human = TRUE]
  BY DEF EditCase, IInv, Locks
<1>2. case' \in [exists : BOOLEAN, queued : BOOLEAN, human : BOOLEAN] /\ case'.exists
  BY <1>1 DEF Types
<1>3. \A u \in Txs : ~ Holds(u, Case)
  BY <1>1, OneHolder
<1> QED BY <1>1, <1>2, <1>3, NobodyMoves, CaseOnly DEF Types

\* The marker is set and the job added, if the queue does not hold it.
LEMMA MarkStep == ASSUME IInv, Mark PROVE IInv'
<1>1. /\ UNCHANGED <<versions, proposals, holder, relink, presses>> /\ case.exists
      /\ holder[Case] = None /\ LocksHeld /\ Case \in Locks /\ Types
      /\ case' = [case EXCEPT !.queued = TRUE] /\ pressed' = FALSE
  BY DEF Mark, IInv, Unborn, Locks
<1>2. case' \in [exists : BOOLEAN, queued : BOOLEAN, human : BOOLEAN] /\ case'.exists
  BY <1>1 DEF Types
<1>3. \A u \in Txs : ~ Holds(u, Case)
  BY <1>1, OneHolder
<1>4. CASE UNCHANGED tx
  BY <1>1, <1>2, <1>3, <1>4, NobodyMoves, CaseOnly DEF Types
<1>5. CASE tx[Run].step = "none" /\ Goto(Run, "queued")
  <2>1. tx' \in [Txs -> TxType] /\ (\A u \in Txs : u # Run => tx'[u] = tx[u])
        /\ tx'[Run].step = "queued" /\ tx'[Run].prop = 0
    BY <1>1, <1>5, RunStanding, GotoIs DEF Steps
  <2>2. \A l \in Locks : Holds(Run, l)' <=> Holds(Run, l)
    BY <1>5, <2>1, RunStanding DEF Holds
  <2>3. LocksHeld' /\ holder' \in [Locks -> Txs \cup {None}]
    BY <1>1, <2>1, <2>2, RunStanding, SameLocks
  <2>4. StepOf(Run)' /\ KnowsOf(Run)'
    BY <2>1, RunStanding DEF StepOf, KnowsOf, RunKnows, RunSteps
  <2> QED BY <1>1, <1>2, <1>3, <2>1, <2>3, <2>4, CaseOnly DEF Types
<1> QED BY <1>4, <1>5 DEF Mark

\* The extraction of a document-file job fails for good.
LEMMA RunFailsStep == ASSUME IInv, RunFails PROVE IInv'
<1>1. /\ UNCHANGED <<versions, proposals, holder, relink, pressed, presses>>
      /\ tx[Run].step = "queued" /\ tx' = [tx EXCEPT ![Run].step = "done"]
      /\ holder[Case] = None /\ LocksHeld /\ Case \in Locks /\ Types
      /\ case' = [case EXCEPT !.queued = @ /\ case.human]
  BY DEF RunFails, IInv, Locks
<1>2. case' \in [exists : BOOLEAN, queued : BOOLEAN, human : BOOLEAN] /\ case'.exists
  BY <1>1, RunStanding DEF Types
<1>3. \A u \in Txs : ~ Holds(u, Case)
  BY <1>1, OneHolder
<1>4. tx' \in [Txs -> TxType] /\ (\A u \in Txs : u # Run => tx'[u] = tx[u])
      /\ tx'[Run].step = "done" /\ tx'[Run].prop = 0
  BY <1>1, RunStanding, GotoIs DEF Goto, Steps
<1>5. \A l \in Locks : Holds(Run, l)' <=> Holds(Run, l)
  BY <1>1, <1>4, RunStanding DEF Holds
<1>6. LocksHeld' /\ holder' \in [Locks -> Txs \cup {None}]
  BY <1>1, <1>4, <1>5, RunStanding, SameLocks
<1>7. StepOf(Run)' /\ KnowsOf(Run)'
  BY <1>4, RunStanding DEF StepOf, KnowsOf, RunKnows, RunSteps
<1> QED BY <1>1, <1>2, <1>3, <1>4, <1>6, <1>7, CaseOnly DEF Types

\* One row is written.
LEMMA RowUpdate ==
    ASSUME proposals \in Seq(PropType), NEW i \in Rows, NEW q \in PropType,
           proposals' = [proposals EXCEPT ![i] = q]
    PROVE  /\ proposals' \in Seq(PropType) /\ Rows' = Rows
           /\ proposals'[i] = q /\ \A k \in Rows : k # i => proposals'[k] = proposals[k]
  BY ExceptSeq DEF Rows

\* The types after a step of one transaction.
LEMMA TypesKept ==
    ASSUME Types, NEW t, tx' \in [Txs -> TxType], \A u \in Txs : u # t => tx'[u] = tx[u],
           t \in Txs => StepOf(t)', holder' \in [Locks -> Txs \cup {None}],
           case' \in [exists : BOOLEAN, queued : BOOLEAN, human : BOOLEAN],
           versions' \in Seq(Texts), proposals' \in Seq(PropType), relink' \subseteq Rows',
           UNCHANGED <<pressed, presses>>
    PROVE  Types'
<1>1. \A u \in Txs : StepOf(u)'
  BY DEF Types, StepOf
<1> QED BY <1>1 DEF Types

\* Rows that only leave review, a fallback's to be deleted among them.
LEMMA RowsKept ==
    ASSUME Inbox, NewestPushWins, Rows' = Rows,
           \A k \in Rows : /\ proposals'[k].owner = proposals[k].owner
                           /\ proposals'[k].manual = proposals[k].manual
                           /\ InReview(k)' => InReview(k)
                           /\ Live(k)' => Live(k)
                           /\ ~ proposals[k].manual /\ Live(k) => Live(k)'
    PROVE  Inbox' /\ NewestPushWins'
<1>1. Inbox'
  BY DEF Inbox
<1>2. NewestPushWins'
  BY DEF NewestPushWins
<1> QED BY <1>1, <1>2

\* A transaction that has ended holds and knows nothing.
LEMMA Ended ==
    ASSUME Types, NEW t \in Pushes \cup Reviewers, tx' = [tx EXCEPT ![t] = NoTx]
    PROVE  /\ t \in Txs /\ t # Run /\ tx'[t] = NoTx /\ tx' \in [Txs -> TxType]
           /\ \A u \in Txs : u # t => tx'[u] = tx[u]
           /\ \A l : ~ Holds(t, l)'
           /\ StepOf(t)' /\ KnowsOf(t)' /\ NoCase(t)'
<1>1. t \in Txs /\ t # Run
  BY Actors
<1>2. tx'[t] = NoTx /\ tx' \in [Txs -> TxType] /\ \A u \in Txs : u # t => tx'[u] = tx[u]
  BY <1>1, NoTxIs DEF Types
<1>3. \A l : ~ Holds(t, l)'
  BY <1>1, <1>2 DEF Holds, NoTx
<1>4. StepOf(t)' /\ NoCase(t)'
  BY <1>1, <1>2 DEF StepOf, NoCase, NoTx, PushSteps, ReviewerSteps
<1>5. KnowsOf(t)'
  BY <1>1, <1>2 DEF KnowsOf, PushKnows, ReviewerKnows, NoTx
<1> QED BY <1>1, <1>2, <1>3, <1>4, <1>5

\* A reclassify job points a proposal at the case, open or not by then.
LEMMA RelinkStep == ASSUME IInv, NEW i \in relink, Relink(i) PROVE IInv'
<1>1. /\ UNCHANGED <<case, versions, holder, tx, pressed, presses>>
      /\ relink' = relink \ {i} /\ i \in Rows /\ case.exists /\ Types
      /\ proposals' = [proposals EXCEPT ![i] = [proposals[i] EXCEPT !.target = TRUE]]
      /\ proposals \in Seq(PropType)
  BY DEF Relink, IInv, Types, Unborn
<1>2. proposals[i] \in PropType
  BY <1>1 DEF Rows
<1>3. [proposals[i] EXCEPT !.target = TRUE] \in PropType
  BY <1>2 DEF PropType
<1>4. /\ proposals' \in Seq(PropType) /\ Rows' = Rows
      /\ proposals'[i] = [proposals[i] EXCEPT !.target = TRUE]
      /\ \A k \in Rows : k # i => proposals'[k] = proposals[k]
  BY <1>1, <1>3, RowUpdate
<1>5. \A k \in Rows : /\ proposals'[k].owner = proposals[k].owner
                      /\ proposals'[k].manual = proposals[k].manual
                      /\ proposals'[k].status = proposals[k].status
                      /\ proposals'[k].version = proposals[k].version
                      /\ proposals'[k].superseded = proposals[k].superseded
                      /\ proposals'[k].base = proposals[k].base
  <2>1. PICK q : q = [proposals[i] EXCEPT !.target = TRUE]
    OBVIOUS
  <2>2. /\ q.owner = proposals[i].owner /\ q.manual = proposals[i].manual
        /\ q.status = proposals[i].status /\ q.version = proposals[i].version
        /\ q.superseded = proposals[i].superseded /\ q.base = proposals[i].base
    BY <1>2, <2>1 DEF PropType
  <2>3. proposals'[i] = q
    BY <1>4, <2>1
  <2> QED BY <1>4, <2>2, <2>3
<1>6. (\A k \in Rows : (InReview(k)' <=> InReview(k)) /\ (Live(k)' <=> Live(k)))
      /\ Current' = Current
  BY <1>1, <1>5 DEF InReview, Live, Current
<1>7. Inbox' /\ NewestPushWins'
  BY <1>4, <1>5, <1>6, RowsKept DEF IInv
<1>8. NothingOverwrittenUnseen'
  BY <1>4, <1>5 DEF IInv, NothingOverwrittenUnseen
<1>9. Types'
  BY <1>1, <1>4, NobodyMoves, TypesKept DEF Types
<1>10. Knows'
  BY <1>1, <1>4, <1>5, <1>6, NobodyMoves, RestKnow
<1> QED BY <1>1, <1>7, <1>8, <1>9, <1>10, NobodyMoves DEF IInv, Unborn

\* A rejection claims the open proposal; one decided meanwhile it leaves.
LEMMA RejectStep == ASSUME IInv, NEW r \in Reviewers, Reject(r) PROVE IInv'
<1>1. CASE tx[r].step = "viewed"
  BY <1>1, RejectReadStep
<1>2. CASE tx[r].step # "viewed"
  <2>1. PICK i : i = tx[r].prop
    OBVIOUS
  <2>2. /\ UNCHANGED <<case, versions, holder, relink, pressed, presses>>
        /\ tx[r].step = "reject" /\ holder[Prop(i)] = None /\ tx' = [tx EXCEPT ![r] = NoTx]
        /\ proposals' = IF InReview(i) THEN [proposals EXCEPT ![i].status = "rejected"] ELSE proposals
        /\ Types /\ LocksHeld /\ proposals \in Seq(PropType)
    BY <1>2, <2>1 DEF Reject, IInv, Types
  <2>3. i \in Rows /\ Prop(i) \in Locks /\ proposals[i] \in PropType
    BY <2>1, <2>2, ReviewerStanding, Standing DEF ReviewerKnows
  <2>4. r \in Pushes \cup Reviewers /\ r \in Txs
    BY ReviewerStanding
  <2>5. \A l \in Locks : Holds(r, l)' <=> Holds(r, l)
    BY <2>2, <2>4, Ended, ReviewerStanding DEF Holds
  <2>6. LocksHeld' /\ holder' \in [Locks -> Txs \cup {None}]
    BY <2>2, <2>4, <2>5, Ended, SameLocks
  <2>7. \A u \in Txs : ~ Holds(u, Prop(i))
    BY <2>2, <2>3, OneHolder
  <2>8. CASE ~ InReview(i)
    BY <2>2, <2>4, <2>6, <2>8, Ended, OneTx
  <2>9. CASE InReview(i)
    <3>1. [proposals[i] EXCEPT !.status = "rejected"] \in PropType
      BY <2>3 DEF PropType
    <3>2. /\ proposals' \in Seq(PropType) /\ Rows' = Rows
          /\ proposals'[i] = [proposals[i] EXCEPT !.status = "rejected"]
          /\ \A k \in Rows : k # i => proposals'[k] = proposals[k]
      BY <2>2, <2>3, <2>9, <3>1, RowUpdate
    <3>3. /\ proposals'[i].status = "rejected" /\ proposals[i].status = "in_review"
          /\ \A k \in Rows : /\ proposals'[k].owner = proposals[k].owner
                             /\ proposals'[k].manual = proposals[k].manual
                             /\ proposals'[k].target = proposals[k].target
      <4>1. /\ proposals'[i].status = "rejected" /\ proposals'[i].owner = proposals[i].owner
            /\ proposals'[i].manual = proposals[i].manual
            /\ proposals'[i].target = proposals[i].target
        BY <2>3, <3>2 DEF PropType
      <4> QED BY <2>9, <3>2, <4>1 DEF InReview
    <3>4. \A k \in Rows : /\ InReview(k)' => InReview(k)
                          /\ k # i => (InReview(k)' <=> InReview(k))
                          /\ Live(k)' <=> Live(k)
      BY <3>2, <3>3 DEF InReview, Live
    <3>5. Inbox' /\ NewestPushWins'
      BY <3>2, <3>3, <3>4, RowsKept DEF IInv
    <3>6. NothingOverwrittenUnseen'
      BY <3>2, <3>3 DEF IInv, NothingOverwrittenUnseen
    <3>7. Types'
      BY <2>2, <2>4, <2>6, <3>2, Ended, TypesKept DEF Types
    <3>8. Current' = Current
      BY <2>2 DEF Current
    <3>9. Knows'
      BY <2>2, <2>4, <2>7, <3>2, <3>3, <3>4, <3>8, Ended, RestKnow
    <3>10. Unborn'
      <4>1. \A u \in Txs : ~ case.exists => NoCase(u)'
        BY <2>2, <2>4, Ended DEF IInv, Unborn, NoCase
      <4> QED BY <2>2, <3>2, <3>3, <3>8, <4>1 DEF IInv, Unborn
    <3> QED BY <2>6, <3>5, <3>6, <3>7, <3>9, <3>10 DEF IInv
  <2> QED BY <2>8, <2>9
<1> QED BY <1>1, <1>2

\* The transaction of a push commits: it refreshed the only open proposal, or
\* opens one, when every other answered push is older or the row is its own.
LEMMA CommitExtractionStep == ASSUME IInv, NEW p \in Pushes, CommitExtraction(p) PROVE IInv'
<1>1. /\ UNCHANGED <<case, versions, relink, pressed, presses>> /\ End(p) /\ p \in Pushes \cup Reviewers
      /\ tx' = [tx EXCEPT ![p] = NoTx] /\ Types /\ LocksHeld /\ proposals \in Seq(PropType)
      /\ p \in Nat /\ p \in Txs /\ p # Run /\ p \notin Reviewers
  BY Actors DEF CommitExtraction, IInv, Types, End
<1>2. PushKnows(p) /\ (~ case.exists => ~ tx[p].target) /\ tx[p] \in TxType
      /\ tx[p].target \in BOOLEAN /\ p \in Owners /\ p \in Texts
  BY <1>1, Standing DEF KnowsOf, NoCase, TxType, Owners, Texts
<1>3. LocksHeld' /\ holder' \in [Locks -> Txs \cup {None}]
  BY <1>1, Ended, ReleaseLocks DEF End
<1>4. Current' = Current
  BY <1>1 DEF Current
<1>5. \A u \in Txs : ~ case.exists => NoCase(u)'
  BY <1>1, Ended DEF IInv, Unborn, NoCase
<1>6. File \in Locks /\ \A k \in Rows : proposals[k].owner \in Nat
  <2>1. \A k \in Rows : proposals[k] \in PropType
    BY <1>1, Standing
  <2> QED BY <2>1, Actors DEF PropType, Owners, Locks
<1>7. tx[p].step \in {"refreshed", "create"} => \A u \in Txs : u # p => ~ Holds(u, File)
  <2>1. tx[p].step \in {"refreshed", "create"} => Holds(p, File)
    BY DEF Holds
  <2> QED BY <1>1, <1>6, <2>1, OneHolder
<1>8. ASSUME tx[p].step = "refreshed",
             proposals' = [proposals EXCEPT ![tx[p].prop] = [@ EXCEPT !.owner = p, !.text = p,
                                                                      !.target = tx[p].target]]
      PROVE  IInv'
  <2>1. PICK i : i = tx[p].prop
    OBVIOUS
  <2>2. PICK q : q = [proposals[i] EXCEPT !.owner = p, !.text = p, !.target = tx[p].target]
    OBVIOUS
  <2>3. /\ i \in Rows /\ InReview(i) /\ proposals[i] \in PropType
        /\ \A k \in Rows : InReview(k) => k = i
        /\ proposals[i].owner = p \/ AllOlder(p)
    BY <1>1, <1>2, <1>8, <2>1, Standing DEF PushKnows
  <2>4. q \in PropType /\ q.owner = p /\ q.target = tx[p].target /\ q.status = proposals[i].status
        /\ q.manual = proposals[i].manual
    BY <1>2, <2>2, <2>3 DEF PropType
  <2>5. /\ proposals' \in Seq(PropType) /\ Rows' = Rows /\ proposals'[i] = q
        /\ \A k \in Rows : k # i => proposals'[k] = proposals[k]
    <3>1. proposals' = [proposals EXCEPT ![i] = q]
      BY <1>8, <2>1, <2>2
    <3>2. proposals \in Seq(PropType)
      BY <1>1, Standing
    <3> QED BY <2>3, <2>4, <3>1, <3>2, RowUpdate
  <2>6. \A k \in Rows : /\ InReview(k)' <=> InReview(k)
                        /\ Live(k)' <=> Live(k)
                        /\ proposals'[k].manual = proposals[k].manual
    BY <2>4, <2>5 DEF InReview, Live
  <2>7. \A j \in Rows : Live(j) /\ j # i => proposals[j].owner < p
    <3>1. CASE AllOlder(p)
      BY <3>1 DEF AllOlder
    <3>2. CASE proposals[i].owner = p
      <4>1. Live(i)
        BY <2>3 DEF InReview, Live
      <4>2. \A j \in Rows : Live(j) => proposals[j].owner <= p
        BY <2>3, <3>2 DEF IInv, NewestPushWins
      <4>3. \A j \in Rows : Live(j) /\ proposals[j].owner = p => j = i
        BY <2>3, <3>2, <4>1 DEF IInv, Inbox
      <4> QED BY <1>1, <1>6, <4>2, <4>3
    <3> QED BY <2>3, <3>1, <3>2
  <2>8. Inbox'
    <3>1. \A k \in Rows : /\ proposals'[k].manual => k = 1
                          /\ ~ proposals'[k].manual => Live(k)' /\ proposals'[k].owner \in Pushes
      BY <2>4, <2>5, <2>6 DEF IInv, Inbox
    <3>2. ASSUME NEW j \in Rows, NEW k \in Rows, Live(j)', Live(k)',
                 proposals'[j].owner = proposals'[k].owner
          PROVE  j = k
      <4>1. Live(j) /\ Live(k)
        BY <2>6, <3>2
      <4>2. (j # i => proposals[j].owner < p) /\ (k # i => proposals[k].owner < p)
        BY <2>7, <4>1
      <4>3. CASE j # i /\ k # i
        BY <2>5, <3>2, <4>1, <4>3 DEF IInv, Inbox
      <4> QED BY <1>1, <1>6, <2>4, <2>5, <3>2, <4>2, <4>3
    <3> QED BY <2>5, <3>1, <3>2 DEF Inbox
  <2>9. NewestPushWins'
    <3>1. ASSUME NEW a \in Rows, NEW j \in Rows, InReview(a)', Live(j)'
          PROVE  proposals'[j].owner <= proposals'[a].owner /\ (InReview(j)' => a = j)
      <4>1. a = i /\ Live(j) /\ (InReview(j)' => j = i)
        BY <2>3, <2>6, <3>1
      <4>2. proposals'[a].owner = p
        BY <2>4, <2>5, <4>1
      <4>3. proposals'[j].owner <= p
        BY <1>1, <1>6, <2>4, <2>5, <2>7, <4>1
      <4> QED BY <4>1, <4>2, <4>3
    <3> QED BY <2>5, <3>1 DEF NewestPushWins
  <2>10. NothingOverwrittenUnseen'
    <3>1. proposals'[i].status # "approved"
      BY <2>3, <2>4, <2>5 DEF InReview
    <3> QED BY <2>5, <3>1 DEF IInv, NothingOverwrittenUnseen
  <2>11. Types'
    BY <1>1, <1>3, <2>5, Ended, TypesKept DEF Types
  <2>12. Knows'
    <3>1. \A u \in Pushes : u # p => ~ Holds(u, File)
      BY <1>7, <1>8, Actors
    <3> QED BY <1>1, <1>4, <2>5, <2>6, <3>1, Ended, RestKnow
  <2>13. Unborn'
    <3>1. ~ case.exists => \A k \in Rows : ~ proposals'[k].target
      BY <1>2, <2>4, <2>5 DEF IInv, Unborn
    <3> QED BY <1>1, <1>4, <1>5, <2>5, <3>1 DEF IInv, Unborn
  <2> QED BY <1>3, <2>8, <2>9, <2>10, <2>11, <2>12, <2>13 DEF IInv
<1>9. ASSUME NEW q, tx[p].step = "create", proposals' = Append(proposals, q),
             q = [status |-> "in_review", owner |-> p, text |-> p, target |-> tx[p].target,
                  manual |-> FALSE, base |-> None, superseded |-> 0, version |-> 0]
      PROVE  IInv'
  <2>1. q \in PropType /\ q.status = "in_review" /\ q.owner = p /\ ~ q.manual /\ q.target = tx[p].target
    BY <1>2, <1>9 DEF PropType
  <2>2. AllOlder(p) /\ \A k \in Rows : ~ InReview(k)
    BY <1>2, <1>9 DEF PushKnows
  <2>3. PICK n \in Nat : n = Len(proposals)
    BY <1>1
  <2>4. /\ proposals' \in Seq(PropType) /\ Rows = 1 .. n /\ Rows' = 1 .. n + 1
        /\ proposals'[n + 1] = q /\ \A k \in Rows : proposals'[k] = proposals[k]
    BY <1>1, <1>9, <2>1, <2>3, AppendProperties DEF Rows
  <2>5. Rows' = Rows \cup {n + 1} /\ n + 1 \notin Rows
    BY <2>3, <2>4
  <2>6. /\ \A k \in Rows : (InReview(k)' <=> InReview(k)) /\ (Live(k)' <=> Live(k))
        /\ InReview(n + 1)' /\ Live(n + 1)'
    BY <2>1, <2>4 DEF InReview, Live
  <2>7. \A j \in Rows : Live(j)' => proposals'[j].owner < p
    BY <2>2, <2>4, <2>6 DEF AllOlder
  <2>8. Inbox'
    <3>1. \A k \in Rows' : /\ proposals'[k].manual => k = 1
                           /\ ~ proposals'[k].manual => Live(k)' /\ proposals'[k].owner \in Pushes
      BY <2>1, <2>4, <2>5, <2>6 DEF IInv, Inbox
    <3>2. ASSUME NEW j \in Rows', NEW k \in Rows', Live(j)', Live(k)',
                 proposals'[j].owner = proposals'[k].owner
          PROVE  j = k
      <4>1. CASE j \in Rows /\ k \in Rows
        BY <2>4, <2>6, <3>2, <4>1 DEF IInv, Inbox
      <4>2. CASE j = n + 1 \/ k = n + 1
        <5>1. proposals'[n + 1].owner = p /\ p \in Nat
          BY <1>1, <2>1, <2>4, Actors
        <5>2. \A u \in Rows : Live(u)' => proposals'[u].owner # proposals'[n + 1].owner
          <6>1. \A u \in Rows : proposals'[u].owner \in Nat
            BY <1>6, <2>4
          <6> QED BY <2>7, <5>1, <6>1
        <5> QED BY <2>5, <3>2, <4>2, <5>2
      <4> QED BY <2>5, <4>1, <4>2
    <3> QED BY <3>1, <3>2 DEF Inbox
  <2>9. NewestPushWins'
    <3>1. ASSUME NEW a \in Rows', NEW j \in Rows', InReview(a)', Live(j)'
          PROVE  proposals'[j].owner <= proposals'[a].owner /\ (InReview(j)' => a = j)
      <4>1. a = n + 1 /\ (InReview(j)' => j = n + 1)
        BY <2>2, <2>5, <2>6, <3>1
      <4>2. proposals'[a].owner = p
        BY <2>1, <2>4, <4>1
      <4>3. proposals'[j].owner <= p
        <5>1. CASE j = n + 1
          BY <1>1, <2>1, <2>4, <5>1, Actors
        <5>2. CASE j \in Rows
          <6>1. proposals'[j].owner < p /\ proposals'[j].owner \in Nat /\ p \in Nat
            BY <1>1, <1>6, <2>4, <2>7, <3>1, <5>2, Actors
          <6> QED BY <6>1
        <5> QED BY <2>5, <5>1, <5>2
      <4> QED BY <4>1, <4>2, <4>3
    <3> QED BY <3>1 DEF NewestPushWins
  <2>10. NothingOverwrittenUnseen'
    <3>1. proposals'[n + 1].status # "approved"
      BY <2>1, <2>4
    <3> QED BY <2>4, <2>5, <3>1 DEF IInv, NothingOverwrittenUnseen
  <2>11. Types'
    BY <1>1, <1>3, <2>4, <2>5, Ended, TypesKept DEF Types
  <2>12. Knows'
    <3>1. \A u \in Pushes : u # p => ~ Holds(u, File)
      BY <1>7, <1>9, Actors
    <3> QED BY <1>1, <1>4, <2>4, <2>5, <2>6, <3>1, Ended, RestKnow
  <2>13. Unborn'
    <3>1. ~ case.exists => \A k \in Rows' : ~ proposals'[k].target
      BY <1>2, <2>1, <2>4, <2>5 DEF IInv, Unborn
    <3> QED BY <1>1, <1>4, <1>5, <3>1 DEF IInv, Unborn
  <2> QED BY <1>3, <2>8, <2>9, <2>10, <2>11, <2>12, <2>13 DEF IInv
<1> QED BY <1>8, <1>9 DEF CommitExtraction

\* The document-file run commits: it leaves the case, clears its marker, or
\* publishes a version of its own over a fallback it deletes.
LEMMA CommitRunStep == ASSUME IInv, CommitRun PROVE IInv'
<1>1. /\ UNCHANGED <<relink, pressed, presses>> /\ Release(Run) /\ Types /\ LocksHeld
      /\ tx' = [tx EXCEPT ![Run] = [NoTx EXCEPT !.step = "done"]]
      /\ proposals \in Seq(PropType) /\ versions \in Seq(Texts)
      /\ tx[Run].step \in {"superseded", "skipped", "publish"}
  BY DEF CommitRun, Unmarked, IInv, Types
<1>2. tx' \in [Txs -> TxType] /\ (\A u \in Txs : u # Run => tx'[u] = tx[u])
      /\ tx'[Run].step = "done" /\ tx'[Run].prop = 0
  <2>1. NoTx \in TxType /\ NoTx.prop = 0
    BY NoTxIs
  <2>2. [NoTx EXCEPT !.step = "done"].step = "done" /\ [NoTx EXCEPT !.step = "done"].prop = 0
    BY <2>1 DEF TxType
  <2> QED BY <1>1, <2>2, NoTxIs, RunStanding
<1>3. \A l \in Locks : ~ Holds(Run, l)'
  BY <1>2, RunStanding DEF Holds
<1>4. LocksHeld' /\ holder' \in [Locks -> Txs \cup {None}]
  BY <1>1, <1>2, <1>3, RunStanding, ReleaseLocks
<1>5. StepOf(Run)' /\ KnowsOf(Run)'
  BY <1>2, RunStanding DEF StepOf, KnowsOf, RunKnows, RunSteps
<1>6. case.exists /\ \A u \in Txs : u # Run => ~ Holds(u, Case)
  <2>1. Case \in Locks /\ Holds(Run, Case)
    BY <1>1 DEF Holds, Locks
  <2> QED BY <1>1, <2>1, RunStanding, OneHolder
<1>7. [case EXCEPT !.queued = FALSE] \in [exists : BOOLEAN, queued : BOOLEAN, human : BOOLEAN]
      /\ [case EXCEPT !.queued = FALSE].exists
  BY <1>1, <1>6 DEF Types
<1>8. CASE UNCHANGED <<versions, proposals>> /\ (UNCHANGED case \/ case' = [case EXCEPT !.queued = FALSE])
  BY <1>1, <1>2, <1>4, <1>5, <1>6, <1>7, <1>8, CaseOnly DEF Types
<1>9. ASSUME tx[Run].step = "publish", case' = [case EXCEPT !.queued = FALSE],
             versions' = versions \/ versions' = Append(versions, Run),
             proposals' = [k \in Rows |-> IF k = tx[Run].prop
                                          THEN [proposals[k] EXCEPT !.status = "deleted"]
                                          ELSE proposals[k]]
      PROVE  IInv'
  <2>1. PICK i : i = tx[Run].prop
    OBVIOUS
  <2>2. i # 0 => i \in Rows /\ InReview(i) /\ proposals[i].manual
    BY <2>1, RunStanding DEF RunKnows
  <2>3. \A k \in Rows : proposals[k] \in PropType /\ [proposals[k] EXCEPT !.status = "deleted"] \in PropType
    <3>1. \A k \in Rows : proposals[k] \in PropType
      BY RunStanding, Standing
    <3> QED BY <3>1 DEF PropType
  <2>0. \A k \in Rows : k # 0
    BY RunStanding, Standing
  <2>4. Rows' = Rows /\ proposals' \in Seq(PropType)
    <3>1. PICK n \in Nat : n = Len(proposals)
      BY <1>1
    <3>2. proposals' \in [1 .. n -> PropType]
      BY <1>9, <2>3, <3>1 DEF Rows
    <3>3. proposals' \in Seq(PropType) /\ Len(proposals') = n
      BY <3>2
    <3> QED BY <3>1, <3>3 DEF Rows
  <2>5. \A k \in Rows : k # i => proposals'[k] = proposals[k]
    BY <1>9, <2>1
  <2>6. i # 0 => /\ proposals'[i].status = "deleted" /\ proposals'[i].owner = proposals[i].owner
                 /\ proposals'[i].manual = proposals[i].manual
    BY <1>9, <2>1, <2>2, <2>3 DEF PropType
  <2>7. \A k \in Rows : /\ proposals'[k].owner = proposals[k].owner
                        /\ proposals'[k].manual = proposals[k].manual
                        /\ InReview(k)' => InReview(k)
                        /\ Live(k)' => Live(k)
                        /\ ~ proposals[k].manual /\ Live(k) => Live(k)'
                        /\ k # i => (InReview(k)' <=> InReview(k))
    <3> SUFFICES ASSUME NEW k \in Rows
                 PROVE  /\ proposals'[k].owner = proposals[k].owner
                        /\ proposals'[k].manual = proposals[k].manual
                        /\ InReview(k)' => InReview(k)
                        /\ Live(k)' => Live(k)
                        /\ ~ proposals[k].manual /\ Live(k) => Live(k)'
                        /\ k # i => (InReview(k)' <=> InReview(k))
      OBVIOUS
    <3>1. CASE k # i
      BY <2>5, <3>1 DEF InReview, Live
    <3>2. CASE k = i
      BY <2>0, <2>2, <2>6, <3>2 DEF InReview, Live
    <3> QED BY <3>1, <3>2
  <2>8. Inbox' /\ NewestPushWins'
    BY <2>4, <2>7, RowsKept DEF IInv
  <2>9. NothingOverwrittenUnseen'
    BY <2>0, <2>4, <2>5, <2>6 DEF IInv, NothingOverwrittenUnseen
  <2>10. Types'
    <3>1. versions' \in Seq(Texts)
      <4>1. Run \in Texts
        BY DEF Texts
      <4>2. Append(versions, Run) \in Seq(Texts)
        BY <1>1, <4>1, AppendProperties
      <4> QED BY <1>1, <1>9, <4>2
    <3>2. relink' \subseteq Rows'
      BY <1>1, <2>4 DEF Types
    <3> QED BY <1>1, <1>2, <1>4, <1>5, <1>7, <1>9, <2>4, <3>1, <3>2, TypesKept
  <2>11. Knows'
    <3>1. \A u \in Txs, k \in Rows : u # Run /\ Holds(u, Prop(k)) => k # i
      <4>1. i # 0 => Prop(i) \in Locks /\ Holds(Run, Prop(i))
        BY <1>9, <2>1, <2>2, RunStanding, Standing DEF Holds
      <4> QED BY <1>1, <2>0, <4>1, RunStanding, OneHolder
    <3>2. \A k \in Rows, u \in Txs : u # Run /\ InReview(k) /\ Holds(u, Prop(k)) => InReview(k)'
      BY <2>7, <3>1
    <3> QED BY <1>2, <1>5, <1>6, <2>4, <2>7, <3>2, RestKnow
  <2> QED BY <1>4, <1>7, <1>9, <2>8, <2>9, <2>10, <2>11 DEF IInv, Unborn
<1> QED BY <1>8, <1>9 DEF CommitRun, Unmarked

\* An approval commits: under its locks the number it counted is free, and the
\* version it replaces the one it read.
LEMMA CommitApprovalStep == ASSUME IInv, NEW r \in Reviewers, CommitApproval(r) PROVE IInv'
<1>1. /\ UNCHANGED <<relink, pressed, presses>> /\ End(r) /\ tx[r].step = "publish"
      /\ tx' = [tx EXCEPT ![r] = NoTx] /\ Types /\ LocksHeld /\ r \in Pushes \cup Reviewers
      /\ proposals \in Seq(PropType) /\ versions \in Seq(Texts) /\ r \in Txs
  BY Actors DEF CommitApproval, IInv, Types, End
<1>2. PICK i : i = tx[r].prop
  OBVIOUS
<1>3. /\ ReviewerKnows(r) /\ tx[r] \in TxType /\ i \in Rows /\ InReview(i) /\ i # 0
      /\ proposals[i] \in PropType /\ Prop(i) \in Locks /\ Current \in Nat
  BY <1>1, <1>2, ReviewerStanding, Standing DEF ReviewerKnows
<1>4. LocksHeld' /\ holder' \in [Locks -> Txs \cup {None}]
  BY <1>1, Ended, ReleaseLocks DEF End
<1>5. CASE UNCHANGED <<versions, case, proposals>>
  BY <1>1, <1>4, <1>5, Ended, OneTx
<1>6. ASSUME IF tx[r].target THEN tx[r].number = Current + 1 ELSE ~ case.exists,
             versions' = Append(versions, tx[r].text),
             case' = [case EXCEPT !.exists = TRUE, !.queued = FALSE],
             proposals' = [proposals EXCEPT
                 ![i] = [@ EXCEPT !.status = "approved", !.superseded = tx[r].seen,
                                  !.base = tx[r].base, !.version = tx[r].number]]
      PROVE  IInv'
  <2>1. PICK q : q = [proposals[i] EXCEPT !.status = "approved", !.superseded = tx[r].seen,
                                          !.base = tx[r].base, !.version = tx[r].number]
    OBVIOUS
  <2>2. tx[r].number = tx[r].seen + 1 /\ (tx[r].base # None => tx[r].seen = tx[r].base)
    <3>1. CASE tx[r].target
      BY <1>1, <1>3, <1>6, <3>1 DEF ReviewerKnows
    <3>2. CASE ~ tx[r].target
      <4>1. NoCase(r)
        BY <1>6, <3>2, ReviewerStanding
      <4> QED BY <1>1, <4>1 DEF NoCase
    <3> QED BY <3>1, <3>2
  <2>3. /\ q \in PropType /\ q.status = "approved" /\ q.owner = proposals[i].owner
        /\ q.manual = proposals[i].manual /\ q.superseded = tx[r].seen
        /\ q.base = tx[r].base /\ q.version = tx[r].number
    BY <1>3, <2>1 DEF PropType, TxType
  <2>4. /\ proposals' \in Seq(PropType) /\ Rows' = Rows /\ proposals'[i] = q
        /\ \A k \in Rows : k # i => proposals'[k] = proposals[k]
    BY <1>1, <1>3, <1>6, <2>1, <2>3, RowUpdate
  <2>5. \A k \in Rows : /\ proposals'[k].owner = proposals[k].owner
                        /\ proposals'[k].manual = proposals[k].manual
                        /\ InReview(k)' => InReview(k)
                        /\ Live(k)' <=> Live(k)
                        /\ k # i => (InReview(k)' <=> InReview(k))
    BY <1>3, <2>3, <2>4 DEF InReview, Live
  <2>6. Inbox' /\ NewestPushWins'
    BY <2>4, <2>5, RowsKept DEF IInv
  <2>7. NothingOverwrittenUnseen'
    BY <2>2, <2>3, <2>4 DEF IInv, NothingOverwrittenUnseen
  <2>8. case' \in [exists : BOOLEAN, queued : BOOLEAN, human : BOOLEAN] /\ case'.exists
    BY <1>1, <1>6 DEF Types
  <2>9. Types'
    <3>1. versions' \in Seq(Texts)
      BY <1>1, <1>3, <1>6 DEF TxType
    <3>2. relink' \subseteq Rows'
      BY <1>1, <2>4 DEF Types
    <3> QED BY <1>1, <1>4, <2>4, <2>8, <3>1, <3>2, Ended, TypesKept
  <2>10. \A u \in Txs : u # r => ~ Holds(u, Case)
    <3>1. CASE tx[r].target
      <4>1. Case \in Locks /\ Holds(r, Case)
        BY <1>1, <3>1, ReviewerStanding DEF Holds, Locks
      <4> QED BY <1>1, <4>1, OneHolder
    <3>2. CASE ~ tx[r].target
      <4>1. \A u \in Txs : NoCase(u)
        BY <1>6, <3>2, Standing
      <4>2. \A u \in Txs : ~ Holds(u, Case)
        BY <4>1, LocksDiffer DEF Holds, NoCase
      <4> QED BY <4>2
    <3> QED BY <3>1, <3>2
  <2>11. Knows'
    <3>1. \A u \in Txs, k \in Rows : u # r /\ Holds(u, Prop(k)) => k # i
      <4>1. Holds(r, Prop(i))
        BY <1>1, <1>2, <1>3, ReviewerStanding DEF Holds
      <4> QED BY <1>1, <1>3, <4>1, OneHolder
    <3>2. \A k \in Rows, u \in Txs : u # r /\ InReview(k) /\ Holds(u, Prop(k)) => InReview(k)'
      BY <2>5, <3>1
    <3>3. KnowsOf(r)' /\ \A u \in Txs : u # r => tx'[u] = tx[u]
      BY <1>1, Ended
    <3> QED BY <2>4, <2>5, <2>10, <3>2, <3>3, RestKnow
  <2> QED BY <1>4, <2>6, <2>7, <2>8, <2>9, <2>11 DEF IInv, Unborn
<1> QED BY <1>2, <1>5, <1>6 DEF CommitApproval

-----------------------------------------------------------------------------
(* The invariant                                                           *)

\* It holds of the test as it is found, with or without a case and a fallback.
LEMMA InitInv == ASSUME Init PROVE IInv
<1> DEFINE f == [status |-> "in_review", owner |-> 0, text |-> None, target |-> TRUE,
                 manual |-> TRUE, base |-> None, superseded |-> 0, version |-> 0]
<1>1. f \in PropType /\ None \in Texts /\ f.owner = 0 /\ f.manual /\ f.status = "in_review"
  BY DEF PropType, Owners, Texts
<1>2. /\ holder = [l \in Locks |-> None] /\ tx = [t \in Txs |-> NoTx]
      /\ relink = {} /\ pressed = FALSE /\ presses = 0
      /\ case \in [exists : BOOLEAN, queued : BOOLEAN, human : BOOLEAN]
  <2>1. \A b \in BOOLEAN : [exists |-> b, queued |-> FALSE, human |-> FALSE]
                              \in [exists : BOOLEAN, queued : BOOLEAN, human : BOOLEAN]
    OBVIOUS
  <2>2. \E b \in BOOLEAN : case = [exists |-> b, queued |-> FALSE, human |-> FALSE]
    BY DEF Init
  <2>3. case \in [exists : BOOLEAN, queued : BOOLEAN, human : BOOLEAN]
    BY <2>1, <2>2
  <2> QED BY <2>3 DEF Init
<1>3. /\ versions = << >> \/ versions = <<None>>
      /\ proposals = << >> \/ proposals = <<f>>
      /\ ~ case.exists => versions = << >> /\ proposals = << >>
  BY DEF Init
<1> HIDE DEF f
<1>4. versions \in Seq(Texts) /\ proposals \in Seq(PropType)
  <2>1. <<None>> \in Seq(Texts) /\ <<f>> \in Seq(PropType)
    BY <1>1
  <2>2. << >> \in Seq(Texts) /\ << >> \in Seq(PropType)
    BY EmptySeq
  <2> QED BY <1>3, <2>1, <2>2
<1>5. \A i \in Rows : i = 1 /\ proposals[i] = f
  <2>1. CASE proposals = << >>
    BY <2>1 DEF Rows
  <2>2. CASE proposals = <<f>>
    <3>1. Len(<<f>>) = 1 /\ <<f>>[1] = f
      OBVIOUS
    <3>2. Rows = {1}
      BY <2>2, <3>1 DEF Rows
    <3> QED BY <2>2, <3>1, <3>2
  <2> QED BY <1>3, <2>1, <2>2
<1>6. tx \in [Txs -> TxType] /\ \A t \in Txs : tx[t] = NoTx
  BY <1>2, NoTxIs
<1>7. \A t \in Txs : /\ StepOf(t) /\ KnowsOf(t) /\ NoCase(t)
                     /\ \A l \in Locks : ~ Holds(t, l)
  <2> SUFFICES ASSUME NEW t \in Txs PROVE StepOf(t) /\ KnowsOf(t) /\ NoCase(t) /\ \A l \in Locks : ~ Holds(t, l)
    OBVIOUS
  <2>1. tx[t].step = "none" /\ tx[t].prop = 0 /\ tx[t].base = None /\ ~ tx[t].target /\ tx[t].seen = 0
    BY <1>6, NoTxIs
  <2>2. StepOf(t) /\ NoCase(t)
    BY <2>1 DEF StepOf, NoCase, PushSteps, RunSteps, ReviewerSteps
  <2>3. KnowsOf(t)
    <3>1. t \in Pushes => PushKnows(t)
      BY <2>1 DEF PushKnows
    <3>2. t = Run => RunKnows
      BY <2>1 DEF RunKnows
    <3>3. t \in Reviewers => ReviewerKnows(t)
      BY <2>1 DEF ReviewerKnows
    <3> QED BY <3>1, <3>2, <3>3 DEF KnowsOf
  <2>4. \A l \in Locks : ~ Holds(t, l)
    BY <2>1 DEF Holds
  <2> QED BY <2>2, <2>3, <2>4
<1>8. holder \in [Locks -> Txs \cup {None}] /\ LocksHeld
  BY <1>2, <1>7, Actors DEF LocksHeld
<1>9. Types
  <2>1. relink \subseteq Rows /\ pressed \in BOOLEAN
    BY <1>2
  <2>2. presses \in 0 .. MaxPresses
    BY <1>2, ReviewAssumption
  <2> QED BY <1>2, <1>4, <1>6, <1>7, <1>8, <2>1, <2>2 DEF Types
<1>10. Unborn
  BY <1>2, <1>3, <1>7 DEF Unborn, Current, Rows
<1>11. Inbox /\ NewestPushWins /\ NothingOverwrittenUnseen
  <2>1. Inbox
    BY <1>1, <1>5 DEF Inbox
  <2>2. NewestPushWins
    BY <1>1, <1>5 DEF NewestPushWins
  <2>3. NothingOverwrittenUnseen
    BY <1>1, <1>5 DEF NothingOverwrittenUnseen
  <2> QED BY <2>1, <2>2, <2>3
<1> QED BY <1>7, <1>8, <1>9, <1>10, <1>11 DEF IInv, Knows

\* Every step keeps it.
LEMMA NextInv == ASSUME IInv, [Next]_vars PROVE IInv'
<1>1. CASE \E p \in Pushes : LockFile(p) \/ Read(p) \/ Refresh(p) \/ CommitExtraction(p)
  BY <1>1, LockFileStep, ReadStep, RefreshStep, CommitExtractionStep
<1>2. CASE Press \/ Mark \/ LockCases \/ Decide \/ DeleteFallback \/ CommitRun \/ RunFails \/ Complete
  BY <1>2, PressStep, MarkStep, LockCasesStep, DecideStep, DeleteFallbackStep, CommitRunStep,
     RunFailsStep, CompleteStep
<1>3. CASE \E t \in Jobs : SpendCredit(t)
  BY <1>3, SpendCreditStep
<1>4. CASE \E r \in Reviewers : \/ Approve(r) \/ LockCase(r) \/ Claim(r) \/ CommitApproval(r) \/ Reject(r)
                                \/ \E i \in 1 .. MaxProposals : View(r, i)
  BY <1>4, ApproveStep, LockCaseStep, ClaimStep, CommitApprovalStep, RejectStep, ViewStep
<1>5. CASE Reclassify \/ EditCase \/ \E i \in relink : Relink(i)
  BY <1>5, ReclassifyStep, EditCaseStep, RelinkStep
<1>6. CASE \E t \in Txs : Crash(t)
  BY <1>6, CrashStep
<1>7. CASE UNCHANGED vars
  <2>1. /\ UNCHANGED <<case, versions, proposals, holder, tx, relink, pressed, presses>>
        /\ Rows' = Rows /\ Current' = Current
    BY <1>7 DEF vars, Rows, Current
  <2>2. Types' /\ LocksHeld'
    BY <2>1 DEF IInv, Types, StepOf, LocksHeld, Holds
  <2>3. Knows'
    BY <2>1 DEF IInv, Knows, KnowsOf, PushKnows, RunKnows, ReviewerKnows, AllOlder, InReview, Live
  <2>4. Unborn' /\ Inbox' /\ NewestPushWins' /\ NothingOverwrittenUnseen'
    BY <2>1 DEF IInv, Unborn, NoCase, Inbox, NewestPushWins, NothingOverwrittenUnseen, InReview, Live
  <2> QED BY <2>2, <2>3, <2>4 DEF IInv
<1> QED BY <1>1, <1>2, <1>3, <1>4, <1>5, <1>6, <1>7 DEF Next

\* The inductive invariant holds in every reachable state.
THEOREM InvTheorem == Spec => []IInv
<1>1. Init => IInv
  BY InitInv
<1>2. IInv /\ [Next]_vars => IInv'
  BY NextInv
<1> QED BY <1>1, <1>2, PTL DEF Spec

-----------------------------------------------------------------------------
(* The properties                                                          *)

\* Every variable has its type and, however often the queue runs a job, a test
\* has at most one proposal a push and the fallback it started with.
THEOREM TypeTheorem == Spec => []TypeOK
<1>1. IInv => TypeOK
  <2> SUFFICES ASSUME IInv PROVE TypeOK
    OBVIOUS
  <2>1. Types /\ Len(proposals) <= MaxProposals
    BY RowsBound DEF IInv, Types
  <2>2. \A i \in Rows : proposals[i] \in PropType
    BY <2>1 DEF Types, Rows
  <2> QED BY <2>1, <2>2 DEF TypeOK, Types, PropType, TxType
<1> QED BY <1>1, InvTheorem, PTL

\* Whoever is about to publish a version of an existing case finds its number
\* free: the lock of the case is held from the count to the commit.
THEOREM ConflictTheorem == Spec => []NoPublishConflict
<1>1. IInv => NoPublishConflict
  BY Actors DEF IInv, Knows, KnowsOf, ReviewerKnows, RunKnows, NoPublishConflict
<1> QED BY <1>1, InvTheorem, PTL

\* An approval that carried a base replaced that version and no later one.
THEOREM OverwriteTheorem == Spec => []NothingOverwrittenUnseen
<1>1. IInv => NothingOverwrittenUnseen
  BY DEF IInv
<1> QED BY <1>1, InvTheorem, PTL

\* The inbox holds at most one proposal for the test, of the newest push that
\* answered, in whatever order and however often the pushes persist.
THEOREM NewestTheorem == Spec => []NewestPushWins
<1>1. IInv => NewestPushWins
  BY DEF IInv
<1> QED BY <1>1, InvTheorem, PTL

\* Which locks a transaction can wait for, by where it stands.
LEMMA WantedIs ==
    ASSUME IInv, NEW t \in Txs, NEW l \in Wanted(t)
    PROVE  /\ l \in Locks
           /\ \/ l = Org /\ tx[t].step = "queued"
              \/ l = File /\ tx[t].step = "lockFile"
              \/ l = Case /\ tx[t].step \in {"lockCases", "lockCase"}
              \/ tx[t].step \in {"refresh", "delete", "claim"} /\ \E i \in Rows : l = Prop(i)
<1>1. tx[t].step \in {"refresh", "claim"} => tx[t].prop \in Rows
  BY Actors, Standing
  DEF KnowsOf, PushKnows, ReviewerKnows, StepOf, PushSteps, RunSteps, ReviewerSteps
<1>2. Org \in Locks /\ File \in Locks /\ Case \in Locks /\ (\A i \in Rows : Prop(i) \in Locks)
      /\ Fallbacks \subseteq Rows
  BY Standing DEF Locks, Fallbacks
<1>3. CASE tx[t].step = "queued"
  BY <1>2, <1>3 DEF Wanted
<1>4. CASE tx[t].step = "lockFile"
  BY <1>2, <1>4 DEF Wanted
<1>5. CASE tx[t].step = "refresh"
  BY <1>1, <1>2, <1>5 DEF Wanted
<1>6. CASE tx[t].step = "lockCases"
  BY <1>2, <1>6 DEF Wanted
<1>7. CASE tx[t].step = "delete"
  BY <1>2, <1>7 DEF Wanted
<1>8. CASE tx[t].step = "lockCase"
  BY <1>2, <1>8, LocksDiffer DEF Wanted
<1>9. CASE tx[t].step = "claim"
  BY <1>1, <1>2, <1>9, LocksDiffer DEF Wanted
<1>10. CASE tx[t].step \notin {"queued", "lockFile", "refresh", "lockCases", "delete", "lockCase", "claim"}
  BY <1>10 DEF Wanted
<1> QED BY <1>3, <1>4, <1>5, <1>6, <1>7, <1>8, <1>9, <1>10

\* No set of transactions waits for locks its own members hold: the credit
\* comes before the file and the case, and these before a proposal, whose holder
\* waits for nothing.
THEOREM WaitTheorem == Spec => []NoWaitCycle
<1>1. IInv => NoWaitCycle
  <2> SUFFICES ASSUME IInv,
                      NEW S \in (SUBSET {t \in Txs : \E l \in Wanted(t) : holder[l] # None}) \ {{}},
                      \A t \in S : \E l \in Wanted(t) : holder[l] \in S
               PROVE  FALSE
    BY DEF NoWaitCycle
  <2>1. \A t \in S : t \in Txs
    OBVIOUS
  <2>2. \A t \in S : \E l \in Wanted(t) : \E u \in S : Holds(u, l) /\ l \in Locks
    <3> SUFFICES ASSUME NEW t \in S PROVE \E l \in Wanted(t) : \E u \in S : Holds(u, l) /\ l \in Locks
      OBVIOUS
    <3>1. PICK l \in Wanted(t) : holder[l] \in S
      OBVIOUS
    <3>2. l \in Locks
      BY <2>1, WantedIs
    <3> QED BY <2>1, <3>1, <3>2 DEF IInv, LocksHeld
  <2>3. ASSUME NEW u \in S, NEW i \in Rows, Holds(u, Prop(i)) PROVE FALSE
    <3>1. tx[u].step \in {"refreshed", "publish"}
      BY <2>3, LocksDiffer DEF Holds
    <3> QED BY <2>1, <2>2, <3>1, WantedIs
  <2>4. \A t \in S : tx[t].step \notin {"refresh", "delete", "claim"}
    <3> SUFFICES ASSUME NEW t \in S, tx[t].step \in {"refresh", "delete", "claim"} PROVE FALSE
      OBVIOUS
    <3>1. PICK l \in Wanted(t) : \E u \in S : Holds(u, l)
      BY <2>2
    <3>2. \E i \in Rows : l = Prop(i)
      BY <2>1, WantedIs
    <3> QED BY <2>3, <3>1, <3>2
  <2>5. ASSUME NEW u \in S, NEW l \in {File, Case}, Holds(u, l) PROVE FALSE
    <3>1. tx[u].step \notin {"queued", "lockFile", "lockCases", "lockCase"}
      BY <2>1, <2>5, Actors, LocksDiffer DEF Holds
    <3> QED BY <2>1, <2>2, <2>4, <3>1, WantedIs
  <2>6. \A t \in S : tx[t].step = "queued"
    <3> SUFFICES ASSUME NEW t \in S PROVE tx[t].step = "queued"
      OBVIOUS
    <3>1. PICK l \in Wanted(t) : \E u \in S : Holds(u, l)
      BY <2>2
    <3>2. l \notin {File, Case}
      BY <2>5, <3>1
    <3> QED BY <2>1, <2>4, <3>2, WantedIs
  <2>7. PICK t \in S : TRUE
    OBVIOUS
  <2>8. PICK l \in Wanted(t), u \in S : Holds(u, l)
    BY <2>2, <2>7
  <2>9. l = Org
    BY <2>1, <2>6, <2>7, WantedIs
  <2> QED BY <2>6, <2>8, <2>9, LocksDiffer DEF Holds
<1> QED BY <1>1, InvTheorem, PTL

\* What writes a proposal: the commit of a push, of the run, of a reviewer, or a
\* reclassification.
LEMMA RowsWritten ==
    ASSUME Next
    PROVE  \/ UNCHANGED proposals \/ CommitRun
           \/ \E p \in Pushes : CommitExtraction(p)
           \/ \E r \in Reviewers : CommitApproval(r) \/ Reject(r)
           \/ \E i \in relink : Relink(i)
  BY DEF Next, LockFile, Read, Refresh, Press, Mark, LockCases, Decide, DeleteFallback,
         RunFails, Complete, SpendCredit, Approve, LockCase, Claim, View, Reclassify,
         EditCase, Crash

\* A decision lasts: no refresh changes the proposal, and a reclassification at
\* most points it at the case.
THEOREM DecidedTheorem == Spec => DecidedStaysDecided
<1> DEFINE Kept == \A i \in Rows : proposals[i].status \in {"approved", "rejected"} =>
                      \/ proposals'[i] = proposals[i]
                      \/ i \in relink /\ proposals'[i] = [proposals[i] EXCEPT !.target = TRUE]
<1>1. ASSUME IInv, Next PROVE Kept
  <2>1. proposals \in Seq(PropType) /\ \A i \in Rows : proposals[i] \in PropType
    BY <1>1 DEF IInv, Types, Rows
  <2>2. CASE UNCHANGED proposals
    BY <2>2
  <2>3. ASSUME NEW p \in Pushes, CommitExtraction(p) PROVE Kept
    <3>1. PushKnows(p)
      BY <1>1, Actors, Standing DEF KnowsOf
    <3>2. CASE tx[p].step = "refreshed"
      <4>1. InReview(tx[p].prop) /\ \A i \in Rows : i # tx[p].prop => proposals'[i] = proposals[i]
        BY <2>1, <2>3, <3>1, <3>2 DEF PushKnows, CommitExtraction, Rows
      <4> QED BY <4>1 DEF InReview
    <3>3. CASE tx[p].step = "create"
      BY <2>1, <2>3, <3>3 DEF CommitExtraction, Rows
    <3> QED BY <2>3, <3>2, <3>3 DEF CommitExtraction
  <2>4. CASE CommitRun
    <3>1. tx[Run].prop \in Rows => InReview(tx[Run].prop)
      BY <1>1, <2>1, RunStanding, Standing DEF RunKnows
    <3> QED BY <2>4, <3>1 DEF CommitRun, InReview
  <2>5. ASSUME NEW r \in Reviewers, CommitApproval(r) \/ Reject(r) PROVE Kept
    <3>1. CommitApproval(r) => InReview(tx[r].prop)
      BY <1>1, ReviewerStanding DEF CommitApproval, ReviewerKnows
    <3>2. \/ UNCHANGED proposals
          \/ /\ InReview(tx[r].prop)
             /\ \A i \in Rows : i # tx[r].prop => proposals'[i] = proposals[i]
      BY <2>1, <2>5, <3>1 DEF CommitApproval, Reject, Rows
    <3> QED BY <3>2 DEF InReview
  <2>6. ASSUME NEW i \in relink, Relink(i) PROVE Kept
    <3>1. i \in Rows
      BY <1>1, <2>6 DEF IInv, Types
    <3>2. proposals' = [proposals EXCEPT ![i] = [proposals[i] EXCEPT !.target = TRUE]]
      BY <2>6 DEF Relink
    <3>3. [proposals[i] EXCEPT !.target = TRUE] \in PropType
      BY <2>1, <3>1 DEF PropType
    <3>4. /\ proposals'[i] = [proposals[i] EXCEPT !.target = TRUE]
          /\ \A k \in Rows : k # i => proposals'[k] = proposals[k]
      BY <2>1, <3>1, <3>2, <3>3, RowUpdate
    <3> QED BY <2>6, <3>4
  <2> QED BY <1>1, <2>2, <2>3, <2>4, <2>5, <2>6, RowsWritten
<1>2. IInv /\ [Next]_vars => Kept
  <2>1. CASE UNCHANGED vars
    BY <2>1 DEF vars
  <2> QED BY <1>1, <2>1
<1> QED BY <1>2, InvTheorem, PTL DEF Spec, DecidedStaysDecided, Kept

-----------------------------------------------------------------------------
(* What a press pays for                                                   *)

\* Only the run's own commit writes a text of the run.
NotRun == /\ \A i \in Rows : proposals[i].text # Run
          /\ \A t \in Txs : tx[t].text # Run

One(b) == IF b THEN 1 ELSE 0

\* Each press is still to set the marker, has set it, or has at most one version:
\* what clears the marker is that version, or something that writes none.
Paid == Cardinality(Documented) + One(case.queued) + One(pressed) <= presses

\* A version counts if the run wrote it.
LEMMA DocumentedIs ==
    ASSUME versions \in Seq(Texts)
    PROVE  /\ Cardinality(Documented) \in Nat
           /\ versions' = versions => Documented' = Documented
           /\ \A x : versions' = Append(versions, x) =>
                 IF x = Run THEN Cardinality(Documented') = Cardinality(Documented) + 1
                 ELSE Documented' = Documented
<1>1. Current \in Nat /\ IsFiniteSet(1 .. Current)
  BY FS_Interval DEF Current
<1>2. IsFiniteSet(Documented) /\ Documented \subseteq 1 .. Current
  BY <1>1, FS_Subset DEF Documented
<1>3. Current + 1 \notin Documented
  BY <1>1, <1>2
<1>4. ASSUME NEW x, versions' = Append(versions, x)
      PROVE  IF x = Run THEN Documented' = Documented \cup {Current + 1} ELSE Documented' = Documented
  <2>1. Current' = Current + 1 /\ versions'[Current + 1] = x
        /\ \A n \in 1 .. Current : versions'[n] = versions[n]
    BY <1>1, <1>4 DEF Current
  <2> QED BY <1>1, <2>1 DEF Documented
<1>5. Cardinality(Documented \cup {Current + 1}) = Cardinality(Documented) + 1
      /\ Cardinality(Documented) \in Nat
  BY <1>2, <1>3, FS_AddElement, FS_CardinalityType
<1>6. versions' = versions => Documented' = Documented
  BY DEF Documented, Current
<1> QED BY <1>4, <1>5, <1>6

\* No job of a push and no reviewer reads a text of the run.
LEMMA NotRunTxs == ASSUME IInv, NotRun, Next PROVE \A u \in Txs : tx'[u].text # Run
<1> DEFINE Goal == \A u \in Txs : tx'[u].text # Run
<1>1. /\ tx \in [Txs -> TxType] /\ NoTx \in TxType /\ NoTx.text = None /\ None # Run
      /\ \A u \in Txs : tx[u] \in TxType /\ tx[u].text # Run
      /\ [NoTx EXCEPT !.step = "queued"].text = None /\ [NoTx EXCEPT !.step = "done"].text = None
  BY Actors, NoTxIs DEF IInv, Types, NotRun, NoTx
<1>2. ASSUME NEW t, NEW s, Goto(t, s) PROVE Goal
  BY <1>1, <1>2 DEF Goto, TxType
<1>3. ASSUME NEW t, NEW q \in {NoTx, [NoTx EXCEPT !.step = "queued"], [NoTx EXCEPT !.step = "done"]},
             tx' = [tx EXCEPT ![t] = q]
      PROVE  Goal
  BY <1>1, <1>3
<1>4. ASSUME NEW p, LockFile(p) \/ Read(p) \/ Refresh(p) \/ CommitExtraction(p) PROVE Goal
  <2>1. CASE \E i : Refreshes(p, i)
    BY <1>1, <2>1 DEF Refreshes, TxType
  <2>2. CASE tx' = [tx EXCEPT ![p].step = "create", ![p].target = case.exists]
    BY <1>1, <2>2 DEF TxType
  <2> QED BY <1>2, <1>3, <1>4, <2>1, <2>2 DEF LockFile, Read, Refresh, CommitExtraction, End
<1>5. CASE Press \/ Reclassify \/ EditCase \/ \E i \in relink : Relink(i)
  BY <1>1, <1>5 DEF Press, Reclassify, EditCase, Relink
<1>6. CASE Mark \/ LockCases \/ Complete \/ \E t \in Jobs : SpendCredit(t)
  BY <1>1, <1>2, <1>6 DEF Mark, LockCases, Complete, SpendCredit
<1>7. CASE Decide \/ DeleteFallback \/ RunFails
  <2>1. CASE tx' = [tx EXCEPT ![Run].step = "delete", ![Run].number = Current + 1]
    BY <1>1, <2>1 DEF TxType
  <2>2. CASE \E i : tx' = [tx EXCEPT ![Run].step = "publish", ![Run].prop = i]
    BY <1>1, <2>2 DEF TxType
  <2>3. CASE tx' = [tx EXCEPT ![Run].step = "done"]
    BY <1>1, <2>3 DEF TxType
  <2> QED BY <1>2, <1>7, <2>1, <2>2, <2>3 DEF Decide, DeleteFallback, RunFails
<1>8. CASE CommitRun \/ \E t \in Txs : Crash(t)
  BY <1>3, <1>8 DEF CommitRun, Crash
<1>9. ASSUME NEW r \in Reviewers, NEW i, View(r, i) PROVE Goal
  BY <1>1, <1>9 DEF View, NoTx
<1>10. ASSUME NEW r \in Reviewers, Approve(r) PROVE Goal
  <2>1. tx[r].step = "viewed" => proposals[tx[r].prop].text # Run
    BY ReviewerStanding DEF ReviewerKnows, NotRun
  <2>2. PICK p : p = proposals[tx[r].prop]
    OBVIOUS
  <2>3. CASE tx' = [tx EXCEPT ![r].step = IF p.target THEN "lockCase" ELSE "claim",
                              ![r].text = p.text, ![r].target = p.target]
    BY <1>1, <1>10, <2>1, <2>2, <2>3 DEF Approve, TxType
  <2> QED BY <1>3, <1>10, <2>2, <2>3 DEF Approve
<1>11. ASSUME NEW r \in Reviewers, LockCase(r) \/ Claim(r) \/ CommitApproval(r) \/ Reject(r) PROVE Goal
  <2>1. CASE tx' = [tx EXCEPT ![r].step = "claim", ![r].seen = Current]
    BY <1>1, <2>1 DEF TxType
  <2>2. CASE tx' = [tx EXCEPT ![r].step = "publish", ![r].number = Current + 1]
    BY <1>1, <2>2 DEF TxType
  <2>3. CASE tx' = [tx EXCEPT ![r] = [tx[r] EXCEPT !.step = "reject"]]
    BY <1>1, <2>3 DEF TxType
  <2> QED BY <1>3, <1>11, <2>1, <2>2, <2>3 DEF LockCase, Claim, CommitApproval, Reject, End
<1> QED BY <1>4, <1>5, <1>6, <1>7, <1>8, <1>9, <1>10, <1>11 DEF Next

\* No proposal gets a text of the run.
LEMMA NotRunRows == ASSUME IInv, NotRun, Next PROVE \A i \in Rows' : proposals'[i].text # Run
<1> DEFINE Goal == \A i \in Rows' : proposals'[i].text # Run
<1>1. /\ proposals \in Seq(PropType)
      /\ \A i \in Rows : proposals[i] \in PropType /\ proposals[i].text # Run
  BY Standing DEF IInv, Types, NotRun, Rows
<1>2. CASE UNCHANGED proposals
  BY <1>1, <1>2 DEF Rows
<1>3. ASSUME NEW i, NEW q \in PropType, q.text # Run, proposals' = [proposals EXCEPT ![i] = q]
      PROVE  Goal
  BY <1>1, <1>3 DEF Rows
<1>4. CASE CommitRun
  <2>1. ASSUME NEW i \in Rows PROVE [proposals[i] EXCEPT !.status = "deleted"].text = proposals[i].text
    BY <1>1 DEF PropType
  <2>2. CASE proposals' = [i \in Rows |-> IF i = tx[Run].prop
                                         THEN [proposals[i] EXCEPT !.status = "deleted"]
                                         ELSE proposals[i]]
    <3>1. Rows' = Rows
      BY <1>1, <2>2 DEF Rows
    <3> QED BY <1>1, <2>1, <2>2, <3>1
  <2> QED BY <1>2, <1>4, <2>2 DEF CommitRun
<1>5. ASSUME NEW p \in Pushes, CommitExtraction(p) PROVE Goal
  <2>1. p # Run
    BY Actors
  <2>2. CASE tx[p].step = "refreshed"
    <3>1. tx[p].prop \in Rows
      BY <2>2, Actors, Standing DEF KnowsOf, PushKnows
    <3>2. proposals' = [proposals EXCEPT ![tx[p].prop] =
                          [@ EXCEPT !.owner = p, !.text = p, !.target = tx[p].target]]
      BY <1>5, <2>2 DEF CommitExtraction
    <3> QED BY <1>1, <2>1, <3>1, <3>2 DEF PropType, Rows
  <2>3. CASE tx[p].step = "create"
    BY <1>1, <1>5, <2>1, <2>3 DEF CommitExtraction, Rows
  <2> QED BY <1>5, <2>2, <2>3 DEF CommitExtraction
<1>6. ASSUME NEW r \in Reviewers, CommitApproval(r) \/ Reject(r) PROVE Goal
  <2>1. tx[r].step # "none" => tx[r].prop \in Rows
    BY ReviewerStanding DEF ReviewerKnows
  <2>2. CASE CommitApproval(r)
    <3>1. PICK i : i = tx[r].prop
      OBVIOUS
    <3>2. PICK q : q = [proposals[i] EXCEPT !.status = "approved", !.superseded = tx[r].seen,
                                            !.base = tx[r].base, !.version = tx[r].number]
      OBVIOUS
    <3>3. i \in Rows /\ tx[r] \in TxType
      BY <2>1, <2>2, <3>1, ReviewerStanding DEF CommitApproval
    <3>4. q \in PropType /\ q.text # Run
      BY <1>1, <3>2, <3>3 DEF PropType, TxType
    <3>5. UNCHANGED proposals \/ proposals' = [proposals EXCEPT ![i] = q]
      BY <2>2, <3>1, <3>2 DEF CommitApproval
    <3> QED BY <1>2, <1>3, <3>4, <3>5
  <2>3. CASE Reject(r)
    <3>1. PICK i : i = tx[r].prop
      OBVIOUS
    <3>2. PICK q : q = [proposals[i] EXCEPT !.status = "rejected"]
      OBVIOUS
    <3>3. i \in Rows
      BY <2>1, <2>3, <3>1 DEF Reject
    <3>4. q \in PropType /\ q.text # Run
      BY <1>1, <3>2, <3>3 DEF PropType
    <3>5. UNCHANGED proposals \/ proposals' = [proposals EXCEPT ![i] = q]
      BY <2>3, <3>1, <3>2 DEF Reject
    <3> QED BY <1>2, <1>3, <3>4, <3>5
  <2> QED BY <1>6, <2>2, <2>3
<1>7. ASSUME NEW i \in relink, Relink(i) PROVE Goal
  <2>1. i \in Rows
    BY <1>7 DEF IInv, Types
  <2> QED BY <1>1, <1>7, <2>1 DEF Relink, PropType, Rows
<1> QED BY <1>2, <1>4, <1>5, <1>6, <1>7, RowsWritten

\* A version of the run is paid for by the marker, the marker by a press.
LEMMA PaidStep == ASSUME IInv, NotRun, Paid, Next PROVE Paid'
<1>1. /\ versions \in Seq(Texts) /\ presses \in Nat /\ pressed \in BOOLEAN
      /\ case \in [exists : BOOLEAN, queued : BOOLEAN, human : BOOLEAN]
      /\ Cardinality(Documented) \in Nat
  BY ReviewAssumption, DocumentedIs DEF IInv, Types
<1>2. CASE UNCHANGED <<versions, pressed, presses>> /\ (case'.queued => case.queued)
  <2>1. Documented' = Documented
    BY <1>1, <1>2, DocumentedIs
  <2> QED BY <1>1, <1>2, <2>1 DEF Paid, One
<1>3. CASE Press
  <2>1. Documented' = Documented /\ ~ pressed /\ presses' = presses + 1 /\ case' = case
    BY <1>1, <1>3, DocumentedIs DEF Press
  <2> QED BY <1>1, <2>1 DEF Paid, One
<1>4. CASE Mark
  <2>1. Documented' = Documented /\ pressed /\ ~ pressed' /\ presses' = presses
    BY <1>1, <1>4, DocumentedIs DEF Mark
  <2> QED BY <1>1, <2>1 DEF Paid, One
<1>5. CASE RunFails
  <2>1. UNCHANGED <<versions, pressed, presses>> /\ (case'.queued => case.queued)
    BY <1>1, <1>5 DEF RunFails
  <2> QED BY <1>2, <2>1
<1>6. CASE CommitRun
  <2>1. UNCHANGED <<pressed, presses>> /\ (case' = case \/ ~ case'.queued)
    BY <1>1, <1>6 DEF CommitRun, Unmarked
  <2>2. CASE versions' = versions
    BY <1>2, <2>1, <2>2
  <2>3. CASE versions' # versions
    <3>1. tx[Run].step = "publish" /\ case.queued
      BY <1>6, <2>3, RunStanding DEF CommitRun, RunKnows
    <3>2. versions' = Append(versions, Run) /\ ~ case'.queued
      BY <1>1, <1>6, <2>3, <3>1 DEF CommitRun, Unmarked
    <3>3. Cardinality(Documented') = Cardinality(Documented) + 1
      BY <1>1, <3>2, DocumentedIs
    <3> QED BY <1>1, <2>1, <3>1, <3>2, <3>3 DEF Paid, One
  <2> QED BY <2>2, <2>3
<1>7. ASSUME NEW r \in Reviewers, CommitApproval(r) PROVE Paid'
  <2>1. UNCHANGED <<pressed, presses>> /\ (case' = case \/ ~ case'.queued)
    BY <1>1, <1>7 DEF CommitApproval
  <2>2. tx[r].text # Run /\ (versions' = versions \/ versions' = Append(versions, tx[r].text))
    BY <1>7, Actors DEF CommitApproval, NotRun
  <2>3. Documented' = Documented
    BY <1>1, <2>2, DocumentedIs
  <2> QED BY <1>1, <2>1, <2>3 DEF Paid, One
<1>8. CASE EditCase
  <2>1. UNCHANGED <<versions, pressed, presses>> /\ case'.queued = case.queued
    BY <1>1, <1>8 DEF EditCase
  <2> QED BY <1>2, <2>1
<1>9. \/ UNCHANGED <<case, versions, pressed, presses>>
      \/ Press \/ Mark \/ RunFails \/ CommitRun \/ EditCase
      \/ \E r \in Reviewers : CommitApproval(r)
  BY DEF Next, LockFile, Read, Refresh, CommitExtraction, LockCases, Decide, DeleteFallback,
         Complete, SpendCredit, Approve, LockCase, Claim, Reject, View, Reclassify, Relink, Crash
<1> QED BY <1>2, <1>3, <1>4, <1>5, <1>6, <1>7, <1>8, <1>9

\* Presses pay for markers and markers for versions, in every reachable state.
THEOREM PaidTheorem == Spec => [](NotRun /\ Paid)
<1>1. Init => NotRun /\ Paid
  <2> SUFFICES ASSUME Init PROVE NotRun /\ Paid
    OBVIOUS
  <2>1. IInv /\ None # Run /\ Current \in Nat
    BY InitInv, RunStanding, Standing, Actors
  <2>2. /\ \A i \in 1 .. Current : versions[i] = None
        /\ \A i \in Rows : proposals[i].text = None
        /\ \A t \in Txs : tx[t].text = None
        /\ ~ case.queued /\ ~ pressed /\ presses = 0
    BY DEF Init, Current, Rows, NoTx
  <2>3. Documented = {}
    BY <2>1, <2>2 DEF Documented
  <2> QED BY <2>1, <2>2, <2>3, FS_EmptySet DEF NotRun, Paid, One
<1>2. IInv /\ NotRun /\ Paid /\ [Next]_vars => (NotRun /\ Paid)'
  <2>1. CASE UNCHANGED vars
    BY <2>1 DEF vars, NotRun, Paid, Rows, Documented, Current
  <2>2. ASSUME IInv, NotRun, Paid, Next PROVE NotRun' /\ Paid'
    <3>1. NotRun'
      BY <2>2, NotRunTxs, NotRunRows DEF NotRun
    <3> QED BY <2>2, <3>1, PaidStep
  <2> QED BY <2>1, <2>2
<1> QED BY <1>1, <1>2, InvTheorem, PTL DEF Spec

\* A run publishes once for each press, however often its job is delivered, only
\* with the marker of that press and never over a person's text.
THEOREM PublishesTheorem == Spec => PublishesOncePerPress
<1>1. IInv /\ Paid => Cardinality(Documented) <= presses
  BY ReviewAssumption, DocumentedIs DEF IInv, Types, Paid, One
<1>2. IInv /\ NotRun /\ [Next]_vars => (Documented' # Documented => case.queued /\ ~ case.human)
  <2> SUFFICES ASSUME IInv, NotRun, [Next]_vars, Documented' # Documented
               PROVE  case.queued /\ ~ case.human
    OBVIOUS
  <2>1. versions \in Seq(Texts)
    BY DEF IInv, Types
  <2>2. ASSUME NEW r \in Reviewers, CommitApproval(r) PROVE FALSE
    <3>1. tx[r].text # Run /\ (versions' = versions \/ versions' = Append(versions, tx[r].text))
      BY <2>2, Actors DEF CommitApproval, NotRun
    <3> QED BY <2>1, <3>1, DocumentedIs
  <2>3. CommitRun /\ versions' # versions
    <3>1. versions' # versions
      BY <2>1, DocumentedIs
    <3>2. Next
      BY <3>1 DEF vars
    <3> QED BY <2>2, <3>1, <3>2
        DEF Next, Press, Mark, RunFails, EditCase, LockFile, Read, Refresh, CommitExtraction,
            LockCases, Decide, DeleteFallback, Complete, SpendCredit, Approve, LockCase, Claim,
            Reject, View, Reclassify, Relink, Crash
  <2> QED BY <2>3, RunStanding DEF CommitRun, RunKnows
<1>3. Spec => [](Cardinality(Documented) <= presses)
  BY <1>1, InvTheorem, PaidTheorem, PTL
<1>4. Spec => [][Documented' # Documented => case.queued /\ ~ case.human]_vars
  BY <1>2, InvTheorem, PaidTheorem, PTL DEF Spec
<1> QED BY <1>3, <1>4 DEF PublishesOncePerPress

=============================================================================
