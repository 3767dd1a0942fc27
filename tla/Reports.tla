------------------------------ MODULE Reports ------------------------------
(***************************************************************************)
(* ReportsView (src/views/ReportsView.vue) and the report calls of         *)
(* src/composables/useApi.ts: a report is requested in a dialog, put in    *)
(* the store when the request is answered, and polled every two seconds    *)
(* until it is ready.  The polls are not tied to the view: they go on when *)
(* it is left.  A report's contents are left out, and of the form what     *)
(* decides whether it can be sent.                                         *)
(***************************************************************************)
EXTENDS Naturals, Sequences, FiniteSets

CONSTANTS
  MaxReports,  \* bound: reports the server makes
  MaxGen,      \* bound: requests for one out at a time
  Sections,    \* the sections of a report
  Absent

ASSUME ReportsAssumptions ==
  /\ MaxReports \in Nat /\ MaxGen \in Nat \ {0}
  /\ Absent \notin {"none", "generating", "completed", "failed", "timer", "sent"}
  /\ Absent \notin 1 .. MaxReports

ReportIds == 1 .. MaxReports
Over == {"completed", "failed"}

VARIABLES
  made,               \* the server's reports: "none", "generating" or Over
  reports,            \* store.reports: the status shown, Absent if not listed
  mounted,            \* ReportsView is shown
  showGenerateDialog, dateRange, sections, isGenerating,
  gen,                \* requests out: [id, ans: report or Absent, mine: of this mount]
  poll,               \* per report: Absent, "timer", "sent", or the status served
  lost                \* ghost: reports of which a poll failed

formVars == <<showGenerateDialog, dateRange, sections>>
reportVars == <<made, reports, mounted, formVars, isGenerating, gen, poll, lost>>

ReportsInit ==
  /\ made = [r \in ReportIds |-> "none"]
  /\ reports = [r \in ReportIds |-> Absent]
  /\ mounted = FALSE
  /\ showGenerateDialog = FALSE /\ dateRange = "range" /\ sections = Sections
  /\ isGenerating = FALSE
  /\ gen = {} /\ poll = [r \in ReportIds |-> Absent] /\ lost = {}

\* The page is loaded again: everything but the server's reports is gone.
ReportsReload ==
  /\ reports' = [r \in ReportIds |-> Absent]
  /\ mounted' = FALSE
  /\ showGenerateDialog' = FALSE /\ dateRange' = "range" /\ sections' = Sections
  /\ isGenerating' = FALSE
  /\ gen' = {} /\ poll' = [r \in ReportIds |-> Absent] /\ lost' = {}
  /\ UNCHANGED made

-----------------------------------------------------------------------------
(* The view.                                                               *)

\* The router shows the view: a new instance, whose refs start again.
EnterReports ==
  /\ ~mounted
  /\ mounted' = TRUE
  /\ showGenerateDialog' = FALSE /\ dateRange' = "range" /\ sections' = Sections
  /\ isGenerating' = FALSE
  /\ UNCHANGED <<made, reports, gen, poll, lost>>

\* The view is left; its requests and polls stay out.
LeaveReports ==
  /\ mounted
  /\ mounted' = FALSE
  /\ gen' = {[g EXCEPT !.mine = FALSE] : g \in gen}
  /\ UNCHANGED <<made, reports, formVars, isGenerating, poll, lost>>

\* The generate button, and the quick reports (which apply their preset and
\* then this, which sets the form back to 30 days).
openGenerateDialog ==
  /\ mounted /\ ~showGenerateDialog
  /\ showGenerateDialog' = TRUE /\ dateRange' = "range" /\ sections' = Sections
  /\ UNCHANGED <<made, reports, mounted, isGenerating, gen, poll, lost>>

\* A preset gives a range; the date picker also half of one, or none.
applyPreset(d) ==
  /\ showGenerateDialog /\ mounted /\ d # dateRange
  /\ dateRange' = d
  /\ UNCHANGED <<made, reports, mounted, showGenerateDialog, sections, isGenerating, gen, poll,
                 lost>>

toggleSection(s) ==
  /\ showGenerateDialog /\ mounted
  /\ sections' = IF s \in sections THEN sections \ {s} ELSE sections \cup {s}
  /\ UNCHANGED <<made, reports, mounted, showGenerateDialog, dateRange, isGenerating, gen, poll,
                 lost>>

CancelDialog ==
  /\ showGenerateDialog /\ mounted
  /\ showGenerateDialog' = FALSE
  /\ UNCHANGED <<made, reports, mounted, dateRange, sections, isGenerating, gen, poll, lost>>

\* generateReport.  The button is disabled without a range or a section and
\* while a request of this mount is out; half a range ends in a toast.
generateReport ==
  /\ mounted /\ showGenerateDialog /\ ~isGenerating
  /\ dateRange = "range" /\ sections # {}
  /\ isGenerating' = TRUE
  /\ \E n \in 1 .. MaxGen :
       /\ \A g \in gen : g.id # n
       /\ \A m \in 1 .. n - 1 : \E g \in gen : g.id = m
       /\ gen' = gen \cup {[id |-> n, ans |-> Absent, mine |-> TRUE]}
  /\ UNCHANGED <<made, reports, mounted, formVars, poll, lost>>

-----------------------------------------------------------------------------
(* The server (external: Socrate's admin API).                             *)

ServeGenerate ==
  \E g \in gen, r \in ReportIds :
    /\ g.ans = Absent /\ made[r] = "none" /\ \A q \in 1 .. r - 1 : made[q] # "none"
    /\ made' = [made EXCEPT ![r] = "generating"]
    /\ gen' = (gen \ {g}) \cup {[g EXCEPT !.ans = r]}
    /\ UNCHANGED <<reports, mounted, formVars, isGenerating, poll, lost>>

FinishReport(r) ==
  /\ made[r] = "generating"
  /\ \E s \in Over : made' = [made EXCEPT ![r] = s]
  /\ UNCHANGED <<reports, mounted, formVars, isGenerating, gen, poll, lost>>

ServePoll(r) ==
  /\ poll[r] = "sent"
  /\ poll' = [poll EXCEPT ![r] = made[r]]
  /\ UNCHANGED <<made, reports, mounted, formVars, isGenerating, gen, lost>>

-----------------------------------------------------------------------------
(* Answers and the timer.                                                  *)

addReport(r) == reports' = [reports EXCEPT ![r] = "generating"]

updateReport(r, s) == reports' = [reports EXCEPT ![r] = IF @ = Absent THEN Absent ELSE s]

\* The request is answered; the first poll goes out at once.
Generated(g) ==
  /\ g.ans # Absent
  /\ addReport(g.ans)
  /\ showGenerateDialog' = (showGenerateDialog /\ ~g.mine)
  /\ isGenerating' = (isGenerating /\ ~g.mine)
  /\ gen' = gen \ {g}
  /\ poll' = [poll EXCEPT ![g.ans] = IF @ = Absent THEN "sent" ELSE @]
  /\ UNCHANGED <<made, mounted, dateRange, sections, lost>>

\* The request fails, before or after the server took it.
GenerateFails(g) ==
  /\ isGenerating' = (isGenerating /\ ~g.mine)
  /\ gen' = gen \ {g}
  /\ UNCHANGED <<made, reports, mounted, formVars, poll, lost>>

\* Mutant: a report that is not ready is not asked about again.
pollOnce(r) ==
  /\ poll[r] \in Over \cup {"generating"}
  /\ updateReport(r, poll[r])
  /\ poll' = [poll EXCEPT ![r] = Absent]
  /\ UNCHANGED <<made, mounted, formVars, isGenerating, gen, lost>>

\* Mutant: whatever the server answers, the report is taken for ready.
pollOptimistic(r) ==
  /\ poll[r] \in Over \cup {"generating"}
  /\ updateReport(r, "completed")
  /\ poll' = [poll EXCEPT ![r] = Absent]
  /\ UNCHANGED <<made, mounted, formVars, isGenerating, gen, lost>>

\* pollReportStatus: an answer ends the polls or sets the timer again.
pollReportStatus(r) ==
  /\ poll[r] \in Over \cup {"generating"}
  /\ updateReport(r, poll[r])
  /\ poll' = [poll EXCEPT ![r] = IF @ \in Over THEN Absent ELSE "timer"]
  /\ UNCHANGED <<made, mounted, formVars, isGenerating, gen, lost>>

PollAgain(r) ==
  /\ poll[r] = "timer"
  /\ poll' = [poll EXCEPT ![r] = "sent"]
  /\ UNCHANGED <<made, reports, mounted, formVars, isGenerating, gen, lost>>

\* A poll fails: it was the last one.
PollFails(r) ==
  /\ poll[r] \notin {Absent, "timer"}
  /\ poll' = [poll EXCEPT ![r] = Absent]
  /\ lost' = lost \cup {r}
  /\ UNCHANGED <<made, reports, mounted, formVars, isGenerating, gen>>

-----------------------------------------------------------------------------

ReportsTypeOK ==
  /\ made \in [ReportIds -> Over \cup {"none", "generating"}]
  /\ reports \in [ReportIds -> Over \cup {Absent, "generating"}]
  /\ poll \in [ReportIds -> Over \cup {Absent, "timer", "sent", "generating"}]
  /\ dateRange \in {"range", "half", Absent} /\ sections \subseteq Sections
  /\ gen \subseteq [id : 1 .. MaxGen, ans : ReportIds \cup {Absent}, mine : BOOLEAN]
  /\ lost \subseteq ReportIds
  /\ \A b \in {mounted, showGenerateDialog, isGenerating} : b \in BOOLEAN

\* A report that is shown as being generated is still asked about, also after
\* the view was left, unless a poll failed.
SpinnerIsFollowed ==
  \A r \in ReportIds : reports[r] = "generating" => (poll[r] # Absent \/ r \in lost)

\* A report offered for download is ready on the server, and one shown as
\* failed has failed, whichever order polls, views and answers came in.
OfferedIsReady == \A r \in ReportIds : reports[r] \in Over => made[r] = reports[r]

\* The button of the dialog is held by a request of this mount that is out,
\* never by one that failed or by one of a view that was left.
GeneratingMeansOut ==
  (mounted /\ isGenerating) => Cardinality({g \in gen : g.mine}) = 1
=============================================================================
