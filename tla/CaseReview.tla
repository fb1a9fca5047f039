----------------------------- MODULE CaseReview -----------------------------
(***************************************************************************)
(* One automated test case and the proposals for it                        *)
(* (apps/api/src/modules/review).  Every push that touches the test's file *)
(* runs an extraction job that opens, refreshes or leaves a proposal;      *)
(* reviewers approve or reject proposals; a document-file run publishes a  *)
(* version of its own; a reclassify job points proposals at the case;      *)
(* people edit the case.                                                   *)
(*                                                                         *)
(* A transaction takes its locks one statement at a time, reads what is    *)
(* committed (READ COMMITTED), and writes when it commits: nobody else     *)
(* sees its rows before, and the locks it holds keep them as it saw them.  *)
(***************************************************************************)
EXTENDS Naturals, FiniteSets, Sequences

CONSTANTS
    Pushes,       \* the pushes that touch the file, numbered by code change age
    Run,          \* the document-file job of the case
    Reviewers,    \* browsers, each with one request at a time
    None,         \* no holder; no base version in a request
    MaxPresses    \* bound: times Document is pressed

ASSUME ReviewAssumption ==
    /\ Pushes \in SUBSET (Nat \ {0}) /\ IsFiniteSet(Pushes)
    /\ Run \notin Pushes /\ (Pushes \cup {Run}) \cap Reviewers = {}
    /\ None \notin Nat \cup Pushes \cup {Run} \cup Reviewers
    /\ MaxPresses \in Nat

Jobs == Pushes \cup {Run}
Txs  == Jobs \cup Reviewers

VARIABLES
    case,        \* the test_case row
    versions,    \* texts of its published versions; the last is the current one
    proposals,   \* the extracted_proposal rows, in order of creation
    holder,      \* lock -> the transaction that holds it
    tx,          \* job or reviewer -> where it stands and what it has read
    relink,      \* proposals a reclassify job read and has still to write
    pressed,     \* a Document request found the case eligible, marker not yet set
    presses

vars == <<case, versions, proposals, holder, tx, relink, pressed, presses>>

\* Texts: what a push extracted, what a run wrote, or an older text.
Texts   == Pushes \cup {Run, None}
Current == Len(versions)                     \* 0: no published version

MaxProposals == Cardinality(Pushes) + 1
Org     == <<"org", 0>>
File    == <<"file", 0>>
Case    == <<"case", 0>>
Prop(i) == <<"proposal", i>>
Locks   == {Org, File, Case} \cup {Prop(i) : i \in 1 .. MaxProposals}

Rows == 1 .. Len(proposals)
InReview(i) == proposals[i].status = "in_review"
\* pendingProposalsWhere: a fallback for manual review does not count.
Awaited == {i \in Rows : InReview(i) /\ proposals[i].target /\ ~ proposals[i].manual}
Fallbacks == {i \in Rows : InReview(i) /\ proposals[i].target /\ proposals[i].manual}

NoTx == [step |-> "none", prop |-> 0, base |-> None, text |-> None, target |-> FALSE,
         seen |-> 0, number |-> 0]

Take(t, l)  == holder[l] = None /\ holder' = [holder EXCEPT ![l] = t]
Release(t)  == holder' = [l \in Locks |-> IF holder[l] = t THEN None ELSE holder[l]]
Goto(t, s)  == tx' = [tx EXCEPT ![t].step = s]
End(t)      == tx' = [tx EXCEPT ![t] = NoTx] /\ Release(t)

----------------------------------------------------------------------------
(* Jobs.  The job of a push may run at any time and as often as the queue  *)
(* likes: it was delayed, retried or delivered again.                      *)

\* enqueueDocumentFiles: eligible cases are read, then the marker is set and the
\* job added under an id of its own; the queue ignores an id it still holds.
Press ==
    /\ ~ pressed /\ presses < MaxPresses
    /\ case.exists /\ ~ case.human /\ Awaited = {}
    /\ pressed' = TRUE
    /\ presses' = presses + 1
    /\ UNCHANGED <<case, versions, proposals, holder, tx, relink>>

Mark ==
    /\ pressed /\ holder[Case] = None
    /\ pressed' = FALSE
    /\ case' = [case EXCEPT !.queued = TRUE]
    /\ IF tx[Run].step = "none" THEN Goto(Run, "queued") ELSE UNCHANGED tx
    /\ UNCHANGED <<versions, proposals, holder, relink, presses>>

\* Both kinds of job write in one transaction that spends a credit first, which
\* locks the organization row.
SpendCredit(t) ==
    /\ tx[t].step = IF t = Run THEN "queued" ELSE "none"
    /\ Take(t, Org)
    /\ Goto(t, IF t = Run THEN "lockCases" ELSE "lockFile")
    /\ UNCHANGED <<case, versions, proposals, relink, pressed, presses>>

----------------------------------------------------------------------------
(* persistExtracted of push p                                              *)

LockFile(p) ==
    /\ tx[p].step = "lockFile"
    /\ Take(p, File)
    /\ Goto(p, "read")
    /\ UNCHANGED <<case, versions, proposals, relink, pressed, presses>>

Live(i) == proposals[i].status # "deleted"
OwnNone(p)    == {}                                                  \* mutant
Own(p)        == {i \in Rows : Live(i) /\ proposals[i].owner = p}
NewerNone(p)  == {}                                                  \* mutant
Newer(p)      == {i \in Rows : Live(i) /\ proposals[i].owner > p}
OlderNone(p)  == {}                                                  \* mutant
Older(p)      == {i \in Rows : /\ InReview(i) /\ proposals[i].owner < p
                               /\ \A j \in Rows : InReview(j) /\ proposals[j].owner < p =>
                                      proposals[j].owner <= proposals[i].owner}

Refreshes(p, i) ==
    /\ tx' = [tx EXCEPT ![p].step = "refresh", ![p].prop = i, ![p].target = case.exists]
    /\ UNCHANGED holder

\* What the job finds of its own push, of others, and of the case.  A decided
\* proposal, or any of a newer push, leaves nothing to write.
Read(p) ==
    /\ tx[p].step = "read"
    /\ \/ \E i \in Own(p) : IF InReview(i) THEN Refreshes(p, i) ELSE End(p)
       \/ /\ Own(p) = {} /\ Newer(p) # {}
          /\ End(p)
       \/ /\ Own(p) = {} /\ Newer(p) = {}
          /\ \E i \in Older(p) : Refreshes(p, i)
       \/ /\ Own(p) = {} /\ Newer(p) = {} /\ Older(p) = {}
          /\ tx' = [tx EXCEPT ![p].step = "create", ![p].target = case.exists]
          /\ UNCHANGED holder
    /\ UNCHANGED <<case, versions, proposals, relink, pressed, presses>>

\* Mutant: the update matches on the id alone.
StillOpenAny(i) == TRUE
StillOpen(i) == InReview(i)

\* The conditional update waits for the row, then looks at its status again.
\* A proposal of another push that was decided meanwhile is left for a new one.
Refresh(p) ==
    LET i == tx[p].prop IN
    /\ tx[p].step = "refresh"
    /\ holder[Prop(i)] = None
    /\ \/ StillOpen(i) /\ Take(p, Prop(i)) /\ Goto(p, "refreshed")
       \/ /\ ~ StillOpen(i) /\ proposals[i].owner = p
          /\ End(p)
       \/ /\ ~ StillOpen(i) /\ proposals[i].owner # p
          /\ Goto(p, "create") /\ UNCHANGED holder
    /\ UNCHANGED <<case, versions, proposals, relink, pressed, presses>>

CommitExtraction(p) ==
    /\ \/ /\ tx[p].step = "refreshed"
          /\ proposals' = [proposals EXCEPT
                             ![tx[p].prop] = [@ EXCEPT !.owner = p, !.text = p,
                                                       !.target = tx[p].target]]
       \/ /\ tx[p].step = "create"
          /\ proposals' = Append(proposals,
                [status |-> "in_review", owner |-> p, text |-> p, target |-> tx[p].target,
                 manual |-> FALSE, base |-> None, superseded |-> 0, version |-> 0])
    /\ End(p)
    /\ UNCHANGED <<case, versions, relink, pressed, presses>>

----------------------------------------------------------------------------
(* writeDocumentFileTargets of the document-file run                       *)

LockCases ==
    /\ tx[Run].step = "lockCases"
    /\ Take(Run, Case)
    /\ Goto(Run, "decide")
    /\ UNCHANGED <<case, versions, proposals, relink, pressed, presses>>

\* The marker is the run's claim; who cleared it owns the outcome.
OwnsCase == case.queued
\* Skipped with the marker cleared: a person wrote it or a proposal waits for it.
Skipped == case.human \/ Awaited # {}
\* Each attempt asks the model anew: after a version of the run's own it may say
\* the same again (isSameDocumentation), which is skipped too, or something else.
MaySaySame == Current > 0 /\ versions[Current] = Run

Decide ==
    /\ tx[Run].step = "decide"
    /\ \/ ~ OwnsCase /\ Goto(Run, "superseded")
       \/ OwnsCase /\ (Skipped \/ MaySaySame) /\ Goto(Run, "skipped")
       \/ /\ OwnsCase /\ ~ Skipped
          /\ tx' = [tx EXCEPT ![Run].step = "delete", ![Run].number = Current + 1]
    /\ UNCHANGED <<case, versions, proposals, holder, relink, pressed, presses>>

\* deleteMany of the case's fallback, at most one, waiting for its row.
DeleteFallback ==
    /\ tx[Run].step = "delete"
    /\ \/ /\ \E i \in Fallbacks : /\ Take(Run, Prop(i))
                                  /\ tx' = [tx EXCEPT ![Run].step = "publish", ![Run].prop = i]
       \/ Fallbacks = {} /\ Goto(Run, "publish") /\ UNCHANGED holder
    /\ UNCHANGED <<case, versions, proposals, relink, pressed, presses>>

\* Mutant: the marker is left to the end of the job.
MarkedStill == case
\* A version and the end of its marker are one write (documentedState).
Unmarked == [case EXCEPT !.queued = FALSE]

CommitRun ==
    /\ \/ tx[Run].step = "superseded" /\ UNCHANGED <<case, versions, proposals>>
       \/ /\ tx[Run].step = "skipped"
          /\ case' = [case EXCEPT !.queued = FALSE]
          /\ UNCHANGED <<versions, proposals>>
       \/ /\ tx[Run].step = "publish"
          /\ case' = Unmarked
          /\ versions' = IF tx[Run].number = Current + 1 THEN Append(versions, Run)
                         ELSE versions                 \* unique (testCaseId, version)
          /\ proposals' = [i \in Rows |-> IF i = tx[Run].prop
                                          THEN [proposals[i] EXCEPT !.status = "deleted"]
                                          ELSE proposals[i]]
    /\ tx' = [tx EXCEPT ![Run] = [NoTx EXCEPT !.step = "done"]]
    /\ Release(Run)
    /\ UNCHANGED <<relink, pressed, presses>>

\* After the commit the job asks for a reclassification; then it completes and
\* its record leaves the queue (removeOnComplete).
Complete ==
    /\ tx[Run].step = "done"
    /\ Goto(Run, "none")
    /\ UNCHANGED <<case, versions, proposals, holder, relink, pressed, presses>>

\* The extraction itself fails for good: markCasesFailed, which leaves a case a
\* person documented alone.
RunFails ==
    /\ tx[Run].step = "queued" /\ holder[Case] = None
    /\ case' = [case EXCEPT !.queued = @ /\ case.human]
    /\ tx' = [tx EXCEPT ![Run].step = "done"]
    /\ UNCHANGED <<versions, proposals, holder, relink, pressed, presses>>

----------------------------------------------------------------------------
(* Decisions of a reviewer                                                 *)

\* The detail of a proposal: the published version it shows (0 when it shows
\* none) becomes the base of the request, unless the detail never loaded.
View(r, i) ==
    /\ tx[r].step = "none" /\ i \in Rows /\ InReview(i)
    /\ \E b \in {None, IF proposals[i].target THEN Current ELSE 0} :
          tx' = [tx EXCEPT ![r] = [NoTx EXCEPT !.step = "viewed", !.prop = i, !.base = b]]
    /\ UNCHANGED <<case, versions, proposals, holder, relink, pressed, presses>>

\* approve() up to its transaction: the proposal is read without a lock, and
\* one without steps is refused.
Approve(r) ==
    LET p == proposals[tx[r].prop] IN
    /\ tx[r].step = "viewed"
    /\ \/ p.status = "in_review" /\ p.text # None
          /\ tx' = [tx EXCEPT ![r].step = IF p.target THEN "lockCase" ELSE "claim",
                              ![r].text = p.text, ![r].target = p.target]
       \/ (p.status # "in_review" \/ p.text = None) /\ tx' = [tx EXCEPT ![r] = NoTx]
    /\ UNCHANGED <<case, versions, proposals, holder, relink, pressed, presses>>

\* Mutant: the base is not compared.
StaleNever(r) == FALSE
Stale(r) == tx[r].base # None /\ tx[r].base # Current

\* Mutant: the claim comes before the lock of the case.
LocksClaimFirst(i) == <<Prop(i), Case>>
\* The locks of an approval with a target, in their order.
ApprovalLocks(i) == <<Case, Prop(i)>>

\* Mutant: the case is read without a lock.
LockCaseNot(r) ==
    /\ tx[r].step = "lockCase"
    /\ \/ Stale(r) /\ End(r)
       \/ /\ ~ Stale(r)
          /\ tx' = [tx EXCEPT ![r].step = "claim", ![r].seen = Current]
          /\ UNCHANGED holder
    /\ UNCHANGED <<case, versions, proposals, relink, pressed, presses>>

\* The base is compared and the superseded version read under the lock.
LockCase(r) ==
    /\ tx[r].step = "lockCase" /\ holder[ApprovalLocks(tx[r].prop)[1]] = None
    /\ \/ Stale(r) /\ End(r)
       \/ /\ ~ Stale(r)
          /\ Take(r, ApprovalLocks(tx[r].prop)[1])
          /\ tx' = [tx EXCEPT ![r].step = "claim", ![r].seen = Current]
    /\ UNCHANGED <<case, versions, proposals, relink, pressed, presses>>

\* The claim and the count of versions; a proposal decided meanwhile aborts.
Claim(r) ==
    LET i == tx[r].prop
        l == IF tx[r].target THEN ApprovalLocks(i)[2] ELSE Prop(i) IN
    /\ tx[r].step = "claim" /\ holder[l] = None
    /\ \/ /\ InReview(i)
          /\ Take(r, l)
          /\ tx' = [tx EXCEPT ![r].step = "publish", ![r].number = Current + 1]
       \/ ~ InReview(i) /\ End(r)
    /\ UNCHANGED <<case, versions, proposals, relink, pressed, presses>>

\* The rest of publish(): a new case fails when its automation key is taken,
\* a version when its number is.
CommitApproval(r) ==
    LET i == tx[r].prop
        published == IF tx[r].target THEN tx[r].number = Current + 1 ELSE ~ case.exists IN
    /\ tx[r].step = "publish"
    /\ IF published
       THEN /\ versions' = Append(versions, tx[r].text)
            /\ case' = [case EXCEPT !.exists = TRUE, !.queued = FALSE]
            /\ proposals' = [proposals EXCEPT
                 ![i] = [@ EXCEPT !.status = "approved", !.superseded = tx[r].seen,
                                  !.base = tx[r].base, !.version = tx[r].number]]
       ELSE UNCHANGED <<versions, case, proposals>>
    /\ End(r)
    /\ UNCHANGED <<relink, pressed, presses>>

\* reject(): the proposal is read, then claimed in a transaction.
Reject(r) ==
    LET i == tx[r].prop IN
    /\ \/ /\ tx[r].step = "viewed"
          /\ tx' = [tx EXCEPT ![r] = IF InReview(i) THEN [@ EXCEPT !.step = "reject"] ELSE NoTx]
          /\ UNCHANGED proposals
       \/ /\ tx[r].step = "reject" /\ holder[Prop(i)] = None
          /\ tx' = [tx EXCEPT ![r] = NoTx]
          /\ proposals' = IF InReview(i) THEN [proposals EXCEPT ![i].status = "rejected"]
                          ELSE proposals
    /\ UNCHANGED <<case, versions, holder, relink, pressed, presses>>

----------------------------------------------------------------------------
(* Everyone else                                                           *)

\* ReclassifySuiteProcessor reads the open proposals, then writes each by id.
Reclassify ==
    /\ relink = {} /\ case.exists
    /\ relink' = {i \in Rows : InReview(i) /\ ~ proposals[i].target}
    /\ relink' # {}
    /\ UNCHANGED <<case, versions, proposals, holder, tx, pressed, presses>>

Relink(i) ==
    /\ i \in relink /\ holder[Prop(i)] = None
    /\ relink' = relink \ {i}
    /\ proposals' = [proposals EXCEPT ![i].target = TRUE]
    /\ UNCHANGED <<case, versions, holder, tx, pressed, presses>>

\* updateCase of a documented field: a person's text, but no version.
EditCase ==
    /\ case.exists /\ ~ case.human /\ holder[Case] = None
    /\ case' = [case EXCEPT !.human = TRUE]
    /\ UNCHANGED <<versions, proposals, holder, tx, relink, pressed, presses>>

\* A process dies or a transaction is aborted: what has not committed rolls back,
\* and the queue runs the job again, a document run that has committed and not
\* completed too.  A delivery beside a live one waits for it at the organization.
Crash(t) ==
    /\ tx[t].step \notin {"none", "queued", "viewed"}
    /\ tx' = [tx EXCEPT ![t] = IF t = Run THEN [NoTx EXCEPT !.step = "queued"] ELSE NoTx]
    /\ Release(t)
    /\ UNCHANGED <<case, versions, proposals, relink, pressed, presses>>

----------------------------------------------------------------------------

\* The test has a case, published or still a draft, or none yet; an older push
\* may have left a fallback for manual review, which has no steps.
Init ==
    /\ \/ /\ case = [exists |-> TRUE, queued |-> FALSE, human |-> FALSE]
          /\ versions \in {<< >>, <<None>>}
          /\ proposals \in
                {<< >>, <<[status |-> "in_review", owner |-> 0, text |-> None,
                           target |-> TRUE, manual |-> TRUE, base |-> None,
                           superseded |-> 0, version |-> 0]>>}
       \/ /\ case = [exists |-> FALSE, queued |-> FALSE, human |-> FALSE]
          /\ versions = << >> /\ proposals = << >>
    /\ holder = [l \in Locks |-> None]
    /\ tx = [t \in Txs |-> NoTx]
    /\ relink = {} /\ pressed = FALSE
    /\ presses = 0

Next ==
    \/ \E p \in Pushes : \/ LockFile(p) \/ Read(p) \/ Refresh(p)
                         \/ CommitExtraction(p)
    \/ Press \/ Mark \/ LockCases \/ Decide \/ DeleteFallback \/ CommitRun \/ RunFails
    \/ Complete
    \/ \E t \in Jobs : SpendCredit(t)
    \/ \E r \in Reviewers : \/ Approve(r) \/ LockCase(r) \/ Claim(r)
                            \/ CommitApproval(r) \/ Reject(r)
                            \/ \E i \in 1 .. MaxProposals : View(r, i)
    \/ Reclassify \/ EditCase
    \/ \E i \in relink : Relink(i)
    \/ \E t \in Txs : Crash(t)

Spec == Init /\ [][Next]_vars

----------------------------------------------------------------------------
(* Properties                                                              *)

Steps == {"none", "queued", "lockFile", "read", "refresh", "refreshed", "create",
          "lockCases", "decide", "delete", "superseded", "skipped", "publish", "done",
          "viewed", "lockCase", "claim", "reject"}
Owners == Pushes \cup {0}

\* Every variable has its type, and no test ever has more proposals than pushes
\* and the fallback it started with: a redelivered job adds none (Own, Newer).
TypeOK ==
    /\ case \in [exists : BOOLEAN, queued : BOOLEAN, human : BOOLEAN]
    /\ versions \in Seq(Texts)
    /\ Len(proposals) <= MaxProposals
    /\ \A i \in Rows : proposals[i] \in
          [status : {"in_review", "approved", "rejected", "deleted"}, owner : Owners,
           text : Texts, target : BOOLEAN, manual : BOOLEAN, base : Nat \cup {None},
           superseded : Nat, version : Nat]
    /\ holder \in [Locks -> Txs \cup {None}]
    /\ tx \in [Txs -> [step : Steps, prop : 0 .. MaxProposals, base : Nat \cup {None},
                       text : Texts, target : BOOLEAN, seen : Nat, number : Nat]]
    /\ relink \subseteq Rows /\ pressed \in BOOLEAN
    /\ presses \in 0 .. MaxPresses

\* The lock a transaction's next statement needs.
Wanted(t) ==
    CASE tx[t].step = "queued"    -> {Org}
      [] tx[t].step = "lockFile"  -> {File}
      [] tx[t].step = "refresh"   -> {Prop(tx[t].prop)}
      [] tx[t].step = "lockCases" -> {Case}
      [] tx[t].step = "delete"    -> {Prop(i) : i \in Fallbacks}
      [] tx[t].step = "lockCase"  -> {ApprovalLocks(tx[t].prop)[1]}
      [] tx[t].step = "claim"     -> {IF tx[t].target THEN ApprovalLocks(tx[t].prop)[2]
                                      ELSE Prop(tx[t].prop)}
      [] OTHER                    -> {}

\* No set of transactions waits for locks only its own members hold: the case
\* lock before the claim, the credit before the case and the file
\* (review-decision.service.ts:353-356, lock-test-case.ts:18-20).
NoWaitCycle ==
    \A S \in (SUBSET {t \in Txs : \E l \in Wanted(t) : holder[l] # None}) \ {{}} :
        \E t \in S : \A l \in Wanted(t) : holder[l] \notin S

\* Two writers of the case never compute the same version number: whoever is
\* about to publish a version of an existing case finds its number free
\* (REVIEW_APPROVAL_CONFLICTS.md:139).
NoPublishConflict ==
    \A t \in Reviewers \cup {Run} :
        tx[t].step = "publish" /\ (t = Run \/ tx[t].target) => tx[t].number = Current + 1

\* An approval that carried a base replaced exactly that version, and every
\* approval published the version after the one it records as superseded.
NothingOverwrittenUnseen ==
    \A i \in Rows : proposals[i].status = "approved" =>
        /\ proposals[i].version = proposals[i].superseded + 1
        /\ proposals[i].base # None => proposals[i].superseded = proposals[i].base

\* A decision lasts.  A refresh that read the proposal as open never brings a
\* decided one back nor changes what was decided (refreshOpenProposal), and a
\* reclassification, which writes by id what it read open before, at most points
\* it at the case (classifyAndPersist).
DecidedStaysDecided ==
    [][\A i \in Rows : proposals[i].status \in {"approved", "rejected"} =>
          \/ proposals'[i] = proposals[i]
          \/ i \in relink /\ proposals'[i] = [proposals[i] EXCEPT !.target = TRUE]]_vars

\* The versions the document run wrote.
Documented == {n \in 1 .. Current : versions[n] = Run}

\* "A retry never publishes twice", "an approval wins over a run queued before it"
\* (AI_EXTRACTION.md:496-497): however often its job is delivered, before and
\* after its commit, the run publishes once for each press at most, never after an
\* approval that came since the press, and never over a person's text.
PublishesOncePerPress ==
    /\ [](Cardinality(Documented) <= presses)
    /\ [][Documented' # Documented => case.queued /\ ~ case.human]_vars

\* The inbox never holds two proposals for the same test, whatever the order in
\* which its pushes persist (persistExtracted under the file lock), and a push
\* that persists late never opens or takes over a proposal that an even newer
\* push already answered (newerKeys).
NewestPushWins ==
    \A i, j \in Rows : InReview(i) /\ Live(j) =>
        /\ proposals[j].owner <= proposals[i].owner
        /\ InReview(j) => i = j
=============================================================================
