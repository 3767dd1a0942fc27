----------------------------- MODULE PolicyLog -----------------------------
(***************************************************************************)
(* The access-policy decision log of the console:                          *)
(* src/composables/usePolicyDecisions.ts and PolicyDecisionsView.vue.  The *)
(* list is paged by cursor, newest first; a load takes the rows and the    *)
(* summary of a pair of calls, and fails as a whole; the filters are       *)
(* edited at any time and nothing but Refresh and "Load older" waits for a *)
(* call that is out.  The summary has a query of its own, the period alone *)
(* with 30 days for all time; its numbers are only shown, so what is kept  *)
(* of that call is when it is answered and that its failure fails the load.*)
(*                                                                         *)
(* A decision is its id, 1, 2, 3, ...  Filters are a correlation id (set   *)
(* or not), a period (24h or all time) and the other fields (outcome,      *)
(* source, client, divergence), of which one setting is kept.  Time is the *)
(* newest decision that has left the 24 hours (horizon).  The details      *)
(* dialog and the error message, which only show, are left out.            *)
(***************************************************************************)
EXTENDS Naturals, Sequences, FiniteSets, SequencesExt

CONSTANTS
  MinRow,      \* bound: decisions logged when the view is opened, at least
  MaxRow,      \* bound: decisions ever logged
  CidRows,     \* those of the request the correlation id names
  NarrowRows,  \* those the other fields select
  PageSize,    \* PAGE_SIZE
  Settings,    \* bound: the settings of the controls used
  MaxOut,      \* bound: loads out at a time
  None

FilterSet == [cid : BOOLEAN, narrow : BOOLEAN, recent : BOOLEAN]

ASSUME PolicyLogAssumptions ==
  /\ MinRow \in Nat /\ MaxRow \in Nat /\ PageSize \in Nat \ {0} /\ MaxOut \in Nat \ {0}
  /\ CidRows \subseteq 1 .. MaxRow /\ NarrowRows \subseteq 1 .. MaxRow
  /\ Settings \subseteq FilterSet
  /\ None \notin 0 .. MaxRow /\ None \notin FilterSet
  /\ None \notin [f : FilterSet, top : 0 .. MaxRow]

Rows == 1 .. MaxRow

VARIABLES
  logged, horizon,    \* the server's log: rows 1 .. logged, and those out of 24h
  filters,            \* the controls
  decisions,          \* ids of the rows listed
  loading, exhausted,
  out,                \* loads out
  list,               \* ghost: the load the list began with (None: no list yet)
  crossed,            \* ghost: a page was added to a list it does not continue
  blended             \* ghost: or one of other filters than the list's

serverVars == <<logged, horizon>>
logVars == <<decisions, exhausted, list, crossed, blended>>
vars == <<serverVars, filters, logVars, loading, out>>

-----------------------------------------------------------------------------
(* Queries.                                                                *)

sinceFromPeriod(f) == IF f.recent THEN horizon ELSE 0

\* A correlation id searches all time.
toQuery(f) ==
  [cid |-> f.cid, narrow |-> f.narrow, since |-> IF f.cid THEN 0 ELSE sinceFromPeriod(f)]

\* The rows a query matches, older than before (None: no cursor).
Matching(q, before) ==
  {n \in 1 .. logged : /\ q.cid => n \in CidRows
                       /\ q.narrow => n \in NarrowRows
                       /\ n > q.since
                       /\ before # None => n < before}

\* The server's answer: the newest PageSize of the rows, newest first.  A row
\* is left out only of a full page, and only if it is older than all of it.
Pages(rows) ==
  {p \in BoundedSeq(rows, PageSize) :
     /\ \A j, k \in DOMAIN p : j < k => p[j] > p[k]
     /\ \A n \in rows \ Range(p) : Len(p) = PageSize /\ \A k \in DOMAIN p : p[k] > n}

\* The controls are all cleared (defaultFilters).
defaultFilters == [cid |-> FALSE, narrow |-> FALSE, recent |-> TRUE]

\* A load: its filters, query and cursor (None: a load of the list and summary),
\* what was answered of its list call and whether it still waits for the
\* summary call, and, a ghost, whether the list it continues has changed since.
Call(f, before) ==
  [f |-> f, q |-> toQuery(f), before |-> before, top |-> 0, page |-> None,
   waits |-> before = None, stale |-> FALSE]

\* The view is opened, plainly or by a link with a correlation id.
Init ==
  /\ logged \in MinRow .. MaxRow /\ horizon \in 0 .. logged
  /\ filters \in {defaultFilters, [defaultFilters EXCEPT !.cid = TRUE]}
  /\ decisions = <<>> /\ exhausted = FALSE
  /\ list = None /\ crossed = FALSE /\ blended = FALSE
  /\ loading = TRUE
  /\ out = <<Call(filters, None)>>

-----------------------------------------------------------------------------
(* usePolicyDecisions: the beginnings of load and loadOlder.               *)

load(f) ==
  /\ Len(out) < MaxOut
  /\ filters' = f
  /\ loading' = TRUE
  /\ out' = Append(out, Call(f, None))
  /\ UNCHANGED <<serverVars, logVars>>

\* Mutant: the cursor does not exclude the last row.
loadOlderAgain ==
  /\ decisions # <<>> /\ ~exhausted /\ ~loading
  /\ Len(out) < MaxOut
  /\ loading' = TRUE
  /\ out' = Append(out, Call(filters, Last(decisions) + 1))
  /\ UNCHANGED <<serverVars, filters, logVars>>

\* "Load older", with the filters as they are by now.
loadOlder ==
  /\ decisions # <<>> /\ ~exhausted /\ ~loading
  /\ Len(out) < MaxOut
  /\ loading' = TRUE
  /\ out' = Append(out, Call(filters, Last(decisions)))
  /\ UNCHANGED <<serverVars, filters, logVars>>

-----------------------------------------------------------------------------
(* The controls of the view.                                               *)

Refresh == ~loading /\ load(filters)

\* Apply, or enter in a field.
Apply == load(filters)

Reset == load(defaultFilters)

EditFilters(f) ==
  /\ f # filters
  /\ filters' = f
  /\ UNCHANGED <<serverVars, logVars, loading, out>>

\* "All decisions for this request", in the details of a row: the other
\* filters stay.
byCorrelation ==
  /\ Range(decisions) \cap CidRows # {}
  /\ load([filters EXCEPT !.cid = TRUE])

-----------------------------------------------------------------------------
(* The server (external: Socrate's admin API).                             *)

LogDecision ==
  /\ logged < MaxRow
  /\ logged' = logged + 1
  /\ UNCHANGED <<horizon, filters, logVars, loading, out>>

\* The oldest decision of the 24 hours leaves them.
Age ==
  /\ horizon < logged
  /\ horizon' = horizon + 1
  /\ UNCHANGED <<logged, filters, logVars, loading, out>>

ServePage(i) ==
  /\ out[i].page = None
  /\ \E p \in Pages(Matching(out[i].q, out[i].before)) :
       out' = [out EXCEPT ![i].page = p, ![i].top = logged]
  /\ UNCHANGED <<serverVars, filters, logVars, loading>>

\* The other call of a load is answered, before or after the list's.
ServeSummary(i) ==
  /\ out[i].waits
  /\ out' = [out EXCEPT ![i].waits = FALSE]
  /\ UNCHANGED <<serverVars, filters, logVars, loading>>

-----------------------------------------------------------------------------
(* Answers.                                                                *)

\* The calls left when load i changes the list.
Replaced(i) ==
  RemoveAt([j \in DOMAIN out |-> [out[j] EXCEPT !.stale = out[j].before # None]], i)

\* Mutant: a full page ends the list.
ExhaustedByFull(page) == Len(page) <= PageSize

\* exhausted, after a page of rows.
Exhausted(page) == Len(page) < PageSize

\* Both calls of a load were answered; it waits for the later one.
Loaded(i) ==
  LET c == out[i] IN
  /\ c.before = None /\ c.page # None /\ ~c.waits
  /\ decisions' = c.page
  /\ exhausted' = Exhausted(c.page)
  /\ loading' = FALSE
  /\ list' = [f |-> c.f, top |-> c.top] /\ crossed' = FALSE /\ blended' = FALSE
  /\ out' = Replaced(i)
  /\ UNCHANGED <<serverVars, filters>>

\* The page is added to whatever is listed by then.
OlderLoaded(i) ==
  LET c == out[i] IN
  /\ c.before # None /\ c.page # None
  /\ decisions' = decisions \o c.page
  /\ exhausted' = Exhausted(c.page)
  /\ loading' = FALSE
  /\ crossed' = (crossed \/ c.stale) /\ blended' = (blended \/ c.f # list.f)
  /\ out' = Replaced(i)
  /\ UNCHANGED <<serverVars, filters, list>>

\* A call of a load, or either of its two, fails: what was listed stays, all of it.
Fails(i) ==
  /\ loading' = FALSE
  /\ out' = RemoveAt(out, i)
  /\ UNCHANGED <<serverVars, filters, logVars>>

Next ==
  \/ Refresh \/ Apply \/ Reset \/ loadOlder \/ byCorrelation
  \/ \E f \in Settings : EditFilters(f)
  \/ LogDecision \/ Age
  \/ \E i \in DOMAIN out :
       ServePage(i) \/ ServeSummary(i) \/ Loaded(i) \/ OlderLoaded(i) \/ Fails(i)

Spec == Init /\ [][Next]_vars

-----------------------------------------------------------------------------
(* Properties.                                                             *)

TypeOK ==
  /\ logged \in 0 .. MaxRow /\ horizon \in 0 .. logged
  /\ filters \in FilterSet
  /\ Range(decisions) \subseteq Rows
  /\ \A b \in {loading, exhausted, crossed, blended} : b \in BOOLEAN
  /\ list \in [f : FilterSet, top : 0 .. MaxRow] \cup {None}
  /\ Len(out) <= MaxOut
  /\ \A i \in DOMAIN out : out[i].f \in FilterSet /\ out[i].before \in Rows \cup {None}

\* The flag is up only while something is out, so Refresh and "Load older"
\* come back after every mix of loads, pages and failures.
LoadingMeansOut == loading => out # <<>>

\* The list is strictly newest first, no decision twice, however loads and
\* older pages overlapped and failed and whatever the filters were edited to,
\* unless a page was added to a list it does not continue.
NewestFirst ==
  ~crossed => \A j, k \in DOMAIN decisions : j < k => decisions[j] > decisions[k]

\* What a reader of the list expects of filters f: a correlation id is found
\* at any age, anything else within the period.
Wanted(f) ==
  {n \in Rows : /\ f.cid => n \in CidRows
                /\ f.narrow => n \in NarrowRows
                /\ ~f.cid /\ f.recent => n > horizon}

\* The list of one set of filters has no gap: every decision they select
\* that was logged when it was loaded is listed, down to the last row, and
\* down to the oldest once "Load older" is gone, also when the last page was
\* exactly full and when decisions left the period between two pages.
NoGap ==
  (list # None /\ ~crossed /\ ~blended)
    => \A n \in Wanted(list.f) :
         (n <= list.top /\ (exhausted \/ (decisions # <<>> /\ n >= Last(decisions))))
           => n \in Range(decisions)

\* However loads, older pages and failures are mixed: the list is in order,
\* and it can be loaded again.
LogInv == TypeOK /\ LoadingMeansOut /\ NewestFirst
=============================================================================
