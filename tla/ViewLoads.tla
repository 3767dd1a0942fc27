----------------------------- MODULE ViewLoads -----------------------------
(***************************************************************************)
(* The console's read views over the shared monitor store                  *)
(* (src/stores/monitorStore.ts): which load of which view (src/views/)     *)
(* sends which request (src/composables/useApi.ts), and what the answers,  *)
(* in any order or failing, leave on the screen.                           *)
(*                                                                         *)
(* A view is made anew on every navigation, the store lives as long as the *)
(* page.  A load that is out when its view goes still writes the store.    *)
(* Data is reduced to what it answers: the filters (or period) and page of *)
(* the request, and how many pages match (0: none).  The dashboard's own   *)
(* slots (stats, activity, trends, health) are one slot, "board": they are *)
(* asked for together and no other view reads them.  The alert history the *)
(* dashboard also asks for is AlertsView's slot, and modelled in Alerts.   *)
(***************************************************************************)
EXTENDS Naturals, FiniteSets

CONSTANTS
  Filters,     \* contents of a view's filter or period controls
  Default,     \* what they hold when the view is made ("24h", no filter)
  MaxPage,     \* bound: pages of a list
  MaxSame,     \* bound: requests of one slot out at a time
  MaxOut,      \* bound: requests out at a time
  MaxMounts,   \* bound: navigations
  Tours,       \* bound: the sets of views visited in one behaviour
  None

ASSUME ViewLoadsAssumptions ==
  /\ Default \in Filters /\ None \notin Filters
  /\ MaxPage \in Nat \ {0} /\ MaxSame \in Nat \ {0} /\ MaxOut \in Nat /\ MaxMounts \in Nat
  /\ Tours \subseteq SUBSET {"events", "sessions", "audit", "threats", "tokens", "geo", "dashboard"}
  /\ None \notin {"events", "sessions", "audit", "threats", "tokens", "geo", "dashboard"}
  /\ None \notin [filter : Filters, page : 1 .. MaxPage, pages : 0 .. MaxPage]

Lists == {"events", "sessions", "audit"}     \* paged tables
Periods == {"threats", "tokens", "geo"}      \* one document per period
Views == Lists \cup Periods \cup {"dashboard"}
Slots == Lists \cup Periods \cup {"board"}

\* The slot a view is about.
Main(v) == IF v = "dashboard" THEN "board" ELSE v

VARIABLES
  tour,                  \* the views this behaviour visits
  view, mount,           \* the view shown (None: one with no slot here) and its number
  filter, page, edited,  \* its controls; edited: changed since the last load
  pager,                 \* the page its paginator highlights
  store, isLoading,      \* monitorStore: contents and loading flag per slot
  out,                   \* requests out
  last,                  \* ghost, per slot: the request sent last while it is
                         \* out; 0 if it is not
  intact,                \* ghost, per slot: the mount whose load was sent last,
                         \* when its answer was also the last one stored; or 0
  integrity, checks,     \* ThreatsView.auditIntegrity and its requests out
  lone,                  \* ghost: the last of them was sent alone and did not fail
  initial, intervals     \* mounts of the dashboard in their first load, and
                         \* those whose refresh interval runs

controls == <<filter, page, edited, pager>>
loads == <<store, isLoading, out, last, intact>>
threatVars == <<integrity, checks, lone>>
boardVars == <<initial, intervals>>
vars == <<tour, view, mount, controls, loads, threatVars, boardVars>>

Init ==
  /\ tour \in Tours
  /\ view = None /\ mount = 0
  /\ filter = Default /\ page = 1 /\ edited = FALSE /\ pager = 1
  /\ store = [s \in Slots |-> None]
  /\ isLoading = [s \in Slots |-> FALSE]
  /\ out = {}
  /\ last = [s \in Slots |-> 0] /\ intact = [s \in Slots |-> 0]
  /\ integrity = None /\ checks = {} /\ lone = FALSE
  /\ initial = {} /\ intervals = {}

-----------------------------------------------------------------------------
(* useApi: what each fetch asks for.  A request is kept with the mount     *)
(* that sent it, and whether it belongs to a dashboard's first load.       *)

Ask(s, f, p) == [slot |-> s, filter |-> f, page |-> p]

fetchBoard == Ask("board", Default, 1)
fetchSecurityEvents(f, p) == Ask("events", f, p)
fetchThreatMetrics(f) == Ask("threats", f, 1)
fetchSessions(p) == Ask("sessions", Default, p)
fetchTokenStats(f) == Ask("tokens", f, 1)
fetchGeoAnalytics(f) == Ask("geo", f, 1)
fetchAuditLogs(f, p) == Ask("audit", f, p)

OutOf(s, reqs) == {r \in reqs : r.slot = s}

\* An identity that no request of the slot in reqs has.
FreeId(s, reqs) == CHOOSE n \in 1 .. MaxSame : \A r \in OutOf(s, reqs) : r.id # n

\* Mount m's load sends its asks while reqs are out and flags are set.
Send(m, asks, first, reqs, flags) ==
  LET asked == {a.slot : a \in asks} IN
  /\ Cardinality(reqs) + Cardinality(asks) <= MaxOut
  /\ \A s \in asked : \E n \in 1 .. MaxSame : \A r \in OutOf(s, reqs) : r.id # n
  /\ out' = reqs \cup {[slot |-> a.slot, filter |-> a.filter, page |-> a.page, by |-> m,
                        first |-> first, id |-> FreeId(a.slot, reqs)] : a \in asks}
  /\ isLoading' = [s \in Slots |-> s \in asked \/ flags[s]]
  /\ last' = [s \in Slots |-> IF s \in asked THEN FreeId(s, reqs) ELSE last[s]]
  /\ intact' = [s \in Slots |-> IF s \in asked THEN 0 ELSE intact[s]]

-----------------------------------------------------------------------------
(* The views' load functions, on the controls they are given.              *)

loadEvents(f, p) == {fetchSecurityEvents(f, p)}
loadSessions(f, p) == {fetchSessions(p)}
loadLogs(f, p) == {fetchAuditLogs(f, p)}
loadThreats(f, p) == {fetchThreatMetrics(f)}
loadTokenStats(f, p) == {fetchTokenStats(f)}
loadGeoData(f, p) == {fetchGeoAnalytics(f)}
loadDashboardData == {fetchBoard, fetchThreatMetrics(Default)}

Load(v, f, p) ==
  CASE v = "events" -> loadEvents(f, p)
    [] v = "sessions" -> loadSessions(f, p)
    [] v = "audit" -> loadLogs(f, p)
    [] v = "threats" -> loadThreats(f, p)
    [] v = "tokens" -> loadTokenStats(f, p)
    [] v = "geo" -> loadGeoData(f, p)
    [] OTHER -> loadDashboardData

\* The mounted view runs its load function once its controls are f and p.
Reload(f, p) ==
  /\ filter' = f /\ page' = p /\ edited' = FALSE
  /\ Send(mount, Load(view, f, p), FALSE, out, isLoading)
  /\ UNCHANGED <<tour, view, mount, store, threatVars, boardVars>>

\* The router shows view v: the old one's onUnmounted, the new one's setup
\* and onMounted.  Every view loads when it is mounted.
Mount(v) ==
  /\ v \in tour /\ mount < MaxMounts
  /\ view' = v /\ mount' = mount + 1
  /\ filter' = Default /\ page' = 1 /\ edited' = FALSE /\ pager' = 1
  /\ integrity' = None /\ checks' = {} /\ lone' = FALSE
  /\ intervals' = intervals \ {mount}
  /\ initial' = IF v = "dashboard" THEN initial \cup {mount'} ELSE initial
  /\ Send(mount + 1, Load(v, Default, 1), v = "dashboard", out, isLoading)
  /\ UNCHANGED <<tour, store>>

\* The refresh button, which PrimeVue disables while it shows :loading.
Refresh ==
  /\ view # None /\ ~isLoading[Main(view)]
  /\ Reload(filter, page)
  /\ UNCHANGED pager

\* The period selects of ThreatsView, TokensView and GeoView load on change.
ChoosePeriod(f) ==
  /\ view \in Periods
  /\ Reload(f, page)
  /\ UNCHANGED pager

\* The filter fields of EventsView and AuditLogsView wait for Apply.
EditFilters(f) ==
  /\ view \in {"events", "audit"} /\ f # filter
  /\ filter' = f /\ edited' = TRUE
  /\ UNCHANGED <<tour, view, mount, page, pager, loads, threatVars, boardVars>>

\* EventsView's Apply keeps the page.
ApplyEvents ==
  /\ view = "events"
  /\ Reload(filter, page)
  /\ UNCHANGED pager

clearFilters ==
  /\ view = "events"
  /\ Reload(Default, 1)
  /\ UNCHANGED pager

applyFilters ==
  /\ view = "audit"
  /\ Reload(filter, 1)
  /\ UNCHANGED pager

\* Mutant: the page is turned and not loaded.
onPageUnloaded(p) ==
  /\ view \in Lists /\ store[view] # None /\ p <= store[view].pages
  /\ pager' = p /\ page' = p
  /\ UNCHANGED <<tour, view, mount, filter, edited, loads, threatVars, boardVars>>

\* The user picks a page the paginator offers.
onPage(p) ==
  /\ view \in Lists /\ store[view] # None /\ p <= store[view].pages
  /\ pager' = p
  /\ Reload(filter, p)

-----------------------------------------------------------------------------
(* Answers.                                                                *)

\* PrimeVue's paginator follows a total that shrinks below its page: it moves
\* to the last page and emits it.
Overrun(s, n) == s = view /\ view \in Lists /\ 0 < n /\ n < pager

Settled(r) == [isLoading EXCEPT ![r.slot] = FALSE]

IsLast(r) == r.id = last[r.slot]

\* The last request sent is no longer out once it is over.
LastOver(r) == last' = [last EXCEPT ![r.slot] = IF IsLast(r) THEN 0 ELSE @]

\* loadThreats goes on, whatever became of the metrics, and asks for the
\* integrity of the period selected by then.
CheckIntegrity(r) ==
  IF r.slot = "threats" /\ view = "threats" /\ r.by = mount
  THEN /\ \E n \in 1 .. MaxSame :
            /\ \A c \in checks : c.id # n
            /\ \A m \in 1 .. n - 1 : \E c \in checks : c.id = m
            /\ checks' = checks \cup {[id |-> n, filter |-> filter]}
       /\ lone' = (checks = {})
       /\ UNCHANGED integrity
  ELSE UNCHANGED threatVars

\* Mutant: the page the paginator moved to is not taken over.
AnsweredUnfollowed(r, n) ==
  /\ store' = [store EXCEPT ![r.slot] = [filter |-> r.filter, page |-> r.page, pages |-> n]]
  /\ out' = out \ {r} /\ isLoading' = Settled(r)
  /\ pager' = IF Overrun(r.slot, n) THEN n ELSE pager
  /\ LastOver(r) /\ intact' = [intact EXCEPT ![r.slot] = IF IsLast(r) THEN r.by ELSE 0]
  /\ CheckIntegrity(r)
  /\ UNCHANGED <<tour, view, mount, filter, page, edited, boardVars>>

\* The answer is put in the store whoever asked, and the flag is cleared
\* whatever else is out.
Answered(r, n) ==
  /\ store' = [store EXCEPT ![r.slot] = [filter |-> r.filter, page |-> r.page, pages |-> n]]
  /\ \/ /\ ~Overrun(r.slot, n)
        /\ out' = out \ {r} /\ isLoading' = Settled(r)
        /\ LastOver(r)
        /\ intact' = [intact EXCEPT ![r.slot] = IF IsLast(r) THEN r.by ELSE 0]
        /\ UNCHANGED <<page, pager, edited>>
     \/ /\ Overrun(r.slot, n)
        /\ page' = n /\ pager' = n /\ edited' = FALSE
        /\ Send(mount, Load(view, filter, n), FALSE, out \ {r}, Settled(r))
  /\ CheckIntegrity(r)
  /\ UNCHANGED <<tour, view, mount, filter, boardVars>>

\* The request failed: the contents stay.  A dashboard's first load is over
\* with its first failure.
Failed(r) ==
  /\ out' = {[q EXCEPT !.first = q.first /\ q.by # r.by] : q \in out \ {r}}
  /\ isLoading' = Settled(r)
  /\ LastOver(r)
  /\ CheckIntegrity(r)
  /\ UNCHANGED <<tour, view, mount, controls, store, intact, boardVars>>

\* How many pages an answer may report.
PagesOf(s) == IF s \in Lists THEN 0 .. MaxPage ELSE {0, 1}

Over(s, n) ==
  \E r \in out : /\ r.slot = s /\ r.id = n
                 /\ (\E k \in PagesOf(s) : Answered(r, k)) \/ Failed(r)

\* The integrity check is answered, or fails and blanks the panel.
IntegrityAnswered(n) ==
  \E c \in checks :
    /\ c.id = n
    /\ checks' = checks \ {c}
    /\ \/ integrity' = c.filter /\ UNCHANGED lone
       \/ integrity' = None /\ lone' = FALSE
    /\ UNCHANGED <<tour, view, mount, controls, loads, boardVars>>

-----------------------------------------------------------------------------
(* The dashboard's refresh interval.                                       *)

\* onMounted goes on when its first load is over, even if the view is gone.
StartInterval(m) ==
  /\ m \in initial /\ \A r \in out : ~(r.first /\ r.by = m)
  /\ initial' = initial \ {m} /\ intervals' = intervals \cup {m}
  /\ UNCHANGED <<tour, view, mount, controls, loads, threatVars>>

\* An interval fires: the dashboard loads again, shown or not.
Tick(m) ==
  /\ m \in intervals
  /\ Send(m, loadDashboardData, FALSE, out, isLoading)
  /\ UNCHANGED <<tour, view, mount, controls, store, threatVars, boardVars>>

Next ==
  \/ \E v \in Views : Mount(v)
  \/ \E f \in Filters : ChoosePeriod(f) \/ EditFilters(f)
  \/ \E p \in 1 .. MaxPage : onPage(p)
  \/ Refresh \/ ApplyEvents \/ clearFilters \/ applyFilters
  \/ \E s \in Slots, n \in 1 .. MaxSame : Over(s, n)
  \/ \E n \in 1 .. MaxSame : IntegrityAnswered(n)
  \/ \E m \in 1 .. MaxMounts : StartInterval(m) \/ Tick(m)

Spec == Init /\ [][Next]_vars

-----------------------------------------------------------------------------
(* Properties.                                                             *)

Contents(s) == [filter : Filters, page : 1 .. MaxPage, pages : PagesOf(s)]

TypeOK ==
  /\ tour \in Tours /\ view \in tour \cup {None} /\ mount \in 0 .. MaxMounts
  /\ filter \in Filters /\ page \in 1 .. MaxPage /\ pager \in 1 .. MaxPage
  /\ edited \in BOOLEAN /\ lone \in BOOLEAN
  /\ \A s \in Slots : store[s] \in Contents(s) \cup {None}
  /\ isLoading \in [Slots -> BOOLEAN] /\ last \in [Slots -> 0 .. MaxSame]
  /\ intact \in [Slots -> 0 .. MaxMounts]
  /\ out \subseteq [slot : Slots, filter : Filters, page : 1 .. MaxPage, by : 1 .. MaxMounts,
                    first : BOOLEAN, id : 1 .. MaxSame]
  /\ integrity \in Filters \cup {None}
  /\ checks \subseteq [id : 1 .. MaxSame, filter : Filters]
  /\ initial \subseteq 1 .. MaxMounts /\ intervals \subseteq 1 .. MaxMounts

\* A loading flag is up only while a request of its slot is out: a refresh
\* button is not disabled for good by a load that failed, went to another
\* view, or overlapped another one.
SpinnerMeansOut == \A s \in Slots : isLoading[s] => OutOf(s, out) # {}

\* What a view shows is what its controls select, whatever loads of the slot
\* were or still are out, once the answer to the load sent last is the last
\* answer stored: every control that changes the selection also loads it, and
\* the answers may come in any order before that one.  Excepted are a last
\* load that failed, one overtaken by an older load, whose rows then stay
\* (fetchSecurityEvents has no guard), one of another mount, and a filter
\* field still waiting for Apply.
SettledShowsSelection ==
  LET s == Main(view) IN
  (view # None /\ intact[s] = mount /\ ~edited)
    => /\ store[s] # None
       /\ store[s].filter = filter /\ store[s].page = page

\* The page a list view is on exists in the total it last got, however the
\* filters, the paging and late answers were mixed: Apply keeps the page in
\* EventsView, and onPage follows the paginator back.
ShownPageExists ==
  (view \in Lists /\ store[view] # None) => (store[view].pages = 0 \/ page <= store[view].pages)

\* The integrity panel belongs to the selected period once nothing is out,
\* unless two checks overlapped or the check failed; metrics that cannot be
\* loaded do not hold it back.
IntegrityOfRange ==
  (view = "threats" /\ checks = {} /\ lone /\ \A r \in OutOf("threats", out) : r.by # mount)
    => integrity = filter

\* However loads overlap, fail and outlive their view: no spinner is left
\* behind, the page shown exists, and the integrity panel is the period's.
LoadsInv == TypeOK /\ SpinnerMeansOut /\ ShownPageExists /\ IntegrityOfRange
=============================================================================
