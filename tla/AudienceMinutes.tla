--------------------------- MODULE AudienceMinutes ---------------------------
(***************************************************************************)
(* The script in the visitor's page (audience-minutes.js): notes activity, *)
(* and once per interval reports it with a certain probability, with the   *)
(* number of active intervals so far.                                      *)
(***************************************************************************)
EXTENDS Integers, Sequences, FiniteSets

CONSTANTS Positions,     \* scroll positions, in per cent
          MaxPeriods     \* bound: calls of the timer

VARIABLES loaded,        \* DOMContentLoaded has been handled
          hadActivity, activityCount, scrollPerc,
          sent,          \* the reports sent, as the server sees them
          active         \* history: per interval, whether the user moved

pageVars == <<loaded, hadActivity, activityCount, scrollPerc, sent, active>>

PageInit ==
  /\ loaded = FALSE
  /\ hadActivity = FALSE
  /\ activityCount = 0
  /\ scrollPerc = 0
  /\ sent = <<>>
  /\ active = <<FALSE>>

DOMContentLoaded ==
  /\ ~ loaded
  /\ loaded' = TRUE
  /\ UNCHANGED <<hadActivity, activityCount, scrollPerc, sent, active>>

Noticed == [active EXCEPT ![Len(active)] = TRUE]

Scroll(p) ==
  /\ loaded
  /\ hadActivity' = TRUE
  /\ scrollPerc' = p
  /\ active' = Noticed
  /\ UNCHANGED <<loaded, activityCount, sent>>

MouseMove ==
  /\ loaded
  /\ hadActivity' = TRUE
  /\ active' = Noticed
  /\ UNCHANGED <<loaded, activityCount, scrollPerc, sent>>

\* Faulty: activity stays on after a report that was not drawn.
ResetIfSent(drawn) == ~ drawn

ResetAlways(drawn) == FALSE

\* reportOrNot, with the outcome of Math.random
ReportOrNot(drawn) ==
  /\ loaded
  /\ Len(active) <= MaxPeriods
  /\ IF hadActivity
     THEN /\ activityCount' = activityCount + 1
          /\ sent' = IF drawn
                     THEN Append(sent, [count |-> activityCount', scrollPerc |-> scrollPerc,
                                        interval |-> Len(active)])
                     ELSE sent
          /\ hadActivity' = ResetAlways(drawn)
     ELSE UNCHANGED <<activityCount, sent, hadActivity>>
  /\ active' = Append(active, FALSE)
  /\ UNCHANGED <<loaded, scrollPerc>>

PageNext == \/ DOMContentLoaded
            \/ \E p \in Positions : Scroll(p)
            \/ MouseMove
            \/ \E drawn \in BOOLEAN : ReportOrNot(drawn)

PageSpec == PageInit /\ [][PageNext]_pageVars

-----------------------------------------------------------------------------
(* Properties *)

\* The intervals up to the nth in which the user moved
ActiveUpTo(n) == {m \in 1..n : active[m]}

(* What a report counts are the intervals in which there was activity, each  *)
(* once however much of it there was and whether or not it was reported      *)
(* itself; it is sent in such an interval, and at most once                  *)
(* (audience-minutes.js:17-35).                                              *)
ReportsCountIntervals ==
  /\ \A n \in 1..Len(sent) :
       /\ sent[n].count = Cardinality(ActiveUpTo(sent[n].interval))
       /\ active[sent[n].interval]
  /\ \A m, n \in 1..Len(sent) : m < n => sent[m].count < sent[n].count

=============================================================================
