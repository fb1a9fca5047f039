------------------------- MODULE ReportNotification -------------------------
(***************************************************************************)
(* What a split report promises its organization, whatever the number of   *)
(* requests, retries and workers behind it: suites report in until the     *)
(* report closes, once; a closed report is notified at most once, and      *)
(* nothing reported to it later counts until it is forgotten.              *)
(* RunReports implements it.                                               *)
(***************************************************************************)
EXTENDS FiniteSets

CONSTANT Groups       \* the suite groups of the report

VARIABLES open,       \* groups reported to the report while it is open
          closed,     \* it has closed: complete, or timed out
          notified    \* its notification is published

avars == <<open, closed, notified>>

AInit == open = {} /\ closed = FALSE /\ notified = FALSE

\* A group reports in; the report that now holds every group closes.
Report(g) ==
    /\ ~ closed
    /\ \/ /\ open \cup {g} # Groups
          /\ open' = open \cup {g} /\ closed' = closed
       \/ /\ open \cup {g} = Groups
          /\ open' = {} /\ closed' = TRUE
    /\ UNCHANGED notified

\* The safety net closes a report that waited too long ...
GiveUp == open # {} /\ ~ closed /\ open' = {} /\ closed' = TRUE /\ UNCHANGED notified

\* ... or the store drops what was reported, when the safety net was lost.
Drop   == open # {} /\ ~ closed /\ open' = {} /\ UNCHANGED <<closed, notified>>

Notify == closed /\ ~ notified /\ notified' = TRUE /\ UNCHANGED <<open, closed>>

\* The report is forgotten: the same one may be sent again.
Forget == closed /\ closed' = FALSE /\ notified' = FALSE /\ UNCHANGED open

ANext == (\E g \in Groups : Report(g)) \/ GiveUp \/ Drop \/ Notify \/ Forget

ASpec == AInit /\ [][ANext]_avars
=============================================================================
