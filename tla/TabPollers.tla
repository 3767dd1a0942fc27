----------------------------- MODULE TabPollers -----------------------------
(***************************************************************************)
(* One browser tab with both of the console's pollers that outlive a view, *)
(* the version check and the report polls, and what ends them both: the    *)
(* page is loaded again, which the toast of the version check asks for.    *)
(* Nothing else is shared between them: a behaviour follows one.           *)
(***************************************************************************)
EXTENDS VersionCheck, Reports

CONSTANTS
  MaxFaults    \* bound: calls that fail

ASSUME TabPollersAssumptions == MaxFaults \in Nat

VARIABLES
  part,        \* the poller this behaviour follows: "version" or "reports"
  faults,      \* calls failed so far
  reloaded     \* the page was loaded again (once is enough)

tabVars == <<part, versionVars, reportVars, faults, reloaded>>

TabInit == part \in {"version", "reports"} /\ VersionInit /\ ReportsInit /\ faults = 0 /\ reloaded = FALSE

\* The user refreshes the page.
Reload ==
  /\ ~reloaded
  /\ reloaded' = TRUE
  /\ VersionReload /\ ReportsReload
  /\ UNCHANGED <<part, faults>>

FetchOver == \E k \in Boots : ServeBoot(k) \/ fetchBackend(k)

Version ==
  /\ part = "version"
  /\ \/ \E v \in Versions : Deploy(v)
     \/ FetchOver
     \/ Tick
     \/ \E i \in 1 .. MaxChecks : ServeCheck(i) \/ check(i)
  /\ UNCHANGED <<part, reportVars, faults, reloaded>>

Report ==
  /\ part = "reports"
  /\ \/ EnterReports \/ LeaveReports \/ openGenerateDialog \/ CancelDialog \/ generateReport
     \/ \E d \in {"range", "half", Absent} : applyPreset(d)
     \/ \E s \in Sections : toggleSection(s)
     \/ ServeGenerate
     \/ \E g \in gen : Generated(g)
     \/ \E r \in ReportIds : FinishReport(r) \/ ServePoll(r) \/ pollReportStatus(r) \/ PollAgain(r)
  /\ UNCHANGED <<part, versionVars, faults, reloaded>>

\* A call fails.
Fault ==
  /\ faults < MaxFaults
  /\ faults' = faults + 1
  /\ UNCHANGED <<part, reloaded>>
  /\ \/ /\ part = "version"
        /\ \/ \E k \in Boots : FetchFails(k)
           \/ \E i \in 1 .. MaxChecks : CheckFails(i)
        /\ UNCHANGED reportVars
     \/ /\ part = "reports"
        /\ \/ \E g \in gen : GenerateFails(g)
           \/ \E r \in ReportIds : PollFails(r)
        /\ UNCHANGED versionVars

TabNext == Reload \/ Version \/ Report \/ Fault

-----------------------------------------------------------------------------
(* TabFairness: timers fire, the server and the network answer what is out,   *)
(* and the server finishes its reports.                                    *)

VersionOnly == part = "version" /\ UNCHANGED <<part, reportVars, faults, reloaded>>
ReportOnly == part = "reports" /\ UNCHANGED <<part, versionVars, faults, reloaded>>

TabFairness ==
  /\ WF_tabVars(Tick /\ VersionOnly)
  /\ WF_tabVars((ServeCheck(1) \/ check(1)) /\ VersionOnly)
  /\ \A r \in ReportIds :
       /\ WF_tabVars(FinishReport(r) /\ ReportOnly)
       /\ WF_tabVars((ServePoll(r) \/ pollReportStatus(r) \/ PollAgain(r)) /\ ReportOnly)

TabSpec == TabInit /\ [][TabNext]_tabVars /\ TabFairness

-----------------------------------------------------------------------------
(* Properties.                                                             *)

TabTypeOK ==
  /\ part \in {"version", "reports"} /\ VersionTypeOK /\ ReportsTypeOK
  /\ faults \in 0 .. MaxFaults /\ reloaded \in BOOLEAN

\* Whatever views, failures and reloads do to the polls: a spinner in the
\* list is followed, what is offered is ready, and the dialog's button is held
\* only by a request of its own.
ReportsInv == TabTypeOK /\ SpinnerIsFollowed /\ OfferedIsReady /\ GeneratingMeansOut

\* Once the tab has its snapshot, it ends up at the version deployed (with a
\* toast, the only place where it moves), whatever checks failed or were
\* answered late, unless the page is loaded again.
SnapshotCatchesUp == (snapshot # NoVersion) ~> (snapshot = deployed \/ snapshot = NoVersion)

\* A report shown as being generated is shown as completed or failed in the
\* end, whether or not its view is still there, unless a poll failed or the
\* page was loaded again.
ReportResolves ==
  \A r \in ReportIds :
    (reports[r] = "generating") ~> (reports[r] # "generating" \/ r \in lost)
=============================================================================
