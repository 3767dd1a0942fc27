--------------------------- MODULE ViewLoadsProofs ---------------------------
(***************************************************************************)
(* The properties of ViewLoads, proved for any filters, number of pages,   *)
(* navigations, tours and requests out at a time.                          *)
(***************************************************************************)
EXTENDS ViewLoads, TLAPS

Requests == [slot : Slots, filter : Filters, page : 1 .. MaxPage, by : 1 .. MaxMounts,
             first : BOOLEAN, id : 1 .. MaxSame]

Docs == [filter : Filters, page : 1 .. MaxPage, pages : 0 .. MaxPage]

LoadsType == TypeOK /\ store \in [Slots -> Docs \cup {None}]

\* Mounts are numbered in order, and only a dashboard starts an interval.
MountsInOrder ==
  /\ view # None => mount # 0
  /\ initial \subseteq 1 .. mount /\ intervals \subseteq 1 .. mount
  /\ mount \in initial \cup intervals => view = "dashboard"

\* A view without filters or pages keeps the ones its load asks for, and the
\* paginator is never behind the page.
ControlsFit ==
  /\ view \in {"sessions", "dashboard"} => filter = Default
  /\ view \notin Lists => page = 1
  /\ page <= pager

\* The last load sent of the view's slot, while it is out, asks for what the
\* controls select, if the mounted view sent it.
LastFits ==
  view # None
    => \A r \in OutOf(Main(view), out) :
         (r.id = last[Main(view)] /\ r.by = mount /\ ~edited) => r.filter = filter /\ r.page = page

\* Once no load of the mounted ThreatsView is out, a check sent alone is for
\* the period selected.
ChecksFollow ==
  (view = "threats" /\ lone /\ \A r \in OutOf("threats", out) : r.by # mount)
    => \A c \in checks : c.filter = filter

LoadsIInv ==
  /\ LoadsType /\ MountsInOrder /\ ControlsFit /\ SpinnerMeansOut /\ LastFits
  /\ SettledShowsSelection /\ ShownPageExists
  /\ ChecksFollow /\ IntegrityOfRange

-----------------------------------------------------------------------------
(* What a load sends.                                                      *)

\* The slots a view's load asks for.
Asked(v) == IF v = "dashboard" THEN {"board", "threats"} ELSE {v}

\* The controls f and p that view v may have.
Fit(v, f, p) == /\ v \in {"sessions", "dashboard"} => f = Default
                /\ v \notin Lists => p = 1

Asks == [slot : Slots, filter : Filters, page : 1 .. MaxPage]

\* A single ask.
LEMMA OneAsk ==
  ASSUME NEW s \in Slots, NEW f \in Filters, NEW p \in 1 .. MaxPage
  PROVE  Ask(s, f, p) \in Asks /\ Ask(s, f, p).slot = s
         /\ Ask(s, f, p).filter = f /\ Ask(s, f, p).page = p
BY DEF Ask, Asks

\* A load asks once for each of its slots, and for the view's own slot with
\* the view's controls.
LEMMA LoadAsks ==
  ASSUME NEW v \in Views, NEW f \in Filters, NEW p \in 1 .. MaxPage
  PROVE  /\ Load(v, f, p) \subseteq Asks
         /\ {a.slot : a \in Load(v, f, p)} = Asked(v)
         /\ \A a, b \in Load(v, f, p) : a.slot = b.slot => a = b
         /\ Fit(v, f, p) => \A a \in Load(v, f, p) : a.slot = Main(v) => a.filter = f /\ a.page = p
<1>0. Default \in Filters /\ 1 \in 1 .. MaxPage
  BY ViewLoadsAssumptions
<1>1. CASE v = "events"
  <2>1. Load(v, f, p) = {Ask(v, f, p)}
    BY <1>1 DEF Load, loadEvents, fetchSecurityEvents
  <2>2. v \in Slots /\ Asked(v) = {v}
    BY <1>1 DEF Asked, Slots, Lists, Periods
  <2>3. Ask(v, f, p) \in Asks /\ Ask(v, f, p).slot = v
        /\ Ask(v, f, p).filter = f /\ Ask(v, f, p).page = p
    BY <1>0, <2>2, OneAsk
  <2> QED BY <1>1, <2>1, <2>2, <2>3 DEF Fit, Lists
<1>2. CASE v = "sessions"
  <2>1. Load(v, f, p) = {Ask(v, Default, p)}
    BY <1>2 DEF Load, loadSessions, fetchSessions
  <2>2. v \in Slots /\ Asked(v) = {v}
    BY <1>2 DEF Asked, Slots, Lists, Periods
  <2>3. Ask(v, Default, p) \in Asks /\ Ask(v, Default, p).slot = v
        /\ Ask(v, Default, p).filter = Default /\ Ask(v, Default, p).page = p
    BY <1>0, <2>2, OneAsk
  <2> QED BY <1>2, <2>1, <2>2, <2>3 DEF Fit, Lists
<1>3. CASE v = "audit"
  <2>1. Load(v, f, p) = {Ask(v, f, p)}
    BY <1>3 DEF Load, loadLogs, fetchAuditLogs
  <2>2. v \in Slots /\ Asked(v) = {v}
    BY <1>3 DEF Asked, Slots, Lists, Periods
  <2>3. Ask(v, f, p) \in Asks /\ Ask(v, f, p).slot = v
        /\ Ask(v, f, p).filter = f /\ Ask(v, f, p).page = p
    BY <1>0, <2>2, OneAsk
  <2> QED BY <1>3, <2>1, <2>2, <2>3 DEF Fit, Lists
<1>4. CASE v = "threats"
  <2>1. Load(v, f, p) = {Ask(v, f, 1)}
    BY <1>4 DEF Load, loadThreats, fetchThreatMetrics
  <2>2. v \in Slots /\ Asked(v) = {v}
    BY <1>4 DEF Asked, Slots, Lists, Periods
  <2>3. Ask(v, f, 1) \in Asks /\ Ask(v, f, 1).slot = v
        /\ Ask(v, f, 1).filter = f /\ Ask(v, f, 1).page = 1
    BY <1>0, <2>2, OneAsk
  <2> QED BY <1>4, <2>1, <2>2, <2>3 DEF Fit, Lists
<1>5. CASE v = "tokens"
  <2>1. Load(v, f, p) = {Ask(v, f, 1)}
    BY <1>5 DEF Load, loadTokenStats, fetchTokenStats
  <2>2. v \in Slots /\ Asked(v) = {v}
    BY <1>5 DEF Asked, Slots, Lists, Periods
  <2>3. Ask(v, f, 1) \in Asks /\ Ask(v, f, 1).slot = v
        /\ Ask(v, f, 1).filter = f /\ Ask(v, f, 1).page = 1
    BY <1>0, <2>2, OneAsk
  <2> QED BY <1>5, <2>1, <2>2, <2>3 DEF Fit, Lists
<1>6. CASE v = "geo"
  <2>1. Load(v, f, p) = {Ask(v, f, 1)}
    BY <1>6 DEF Load, loadGeoData, fetchGeoAnalytics
  <2>2. v \in Slots /\ Asked(v) = {v}
    BY <1>6 DEF Asked, Slots, Lists, Periods
  <2>3. Ask(v, f, 1) \in Asks /\ Ask(v, f, 1).slot = v
        /\ Ask(v, f, 1).filter = f /\ Ask(v, f, 1).page = 1
    BY <1>0, <2>2, OneAsk
  <2> QED BY <1>6, <2>1, <2>2, <2>3 DEF Fit, Lists
<1>7. CASE v = "dashboard"
  <2> DEFINE b == Ask("board", Default, 1)
             t == Ask("threats", Default, 1)
  <2>2. /\ b \in Asks /\ b.slot = "board" /\ b.filter = Default /\ b.page = 1
        /\ t \in Asks /\ t.slot = "threats" /\ t.filter = Default /\ t.page = 1
    <3>1. "board" \in Slots /\ "threats" \in Slots
      BY DEF Slots, Periods
    <3> QED BY <1>0, <3>1, OneAsk
  <2>3. Load(v, f, p) = {b, t}
    BY <1>7 DEF Load, loadDashboardData, fetchBoard, fetchThreatMetrics
  <2> HIDE DEF b, t
  <2>4. Asked(v) = {"board", "threats"} /\ "board" # "threats"
    BY <1>7 DEF Asked
  <2>5. {a.slot : a \in Load(v, f, p)} = Asked(v)
    BY <2>2, <2>3, <2>4
  <2> QED BY <1>7, <2>2, <2>3, <2>4, <2>5 DEF Fit, Lists
<1> QED BY <1>1, <1>2, <1>3, <1>4, <1>5, <1>6, <1>7 DEF Views, Lists, Periods

\* Send, as a relation of the requests, flags, last requests and intact marks
\* before (reqs, flags, lasts, marks) and after (o, l, k, i).
Sending(m, asks, first, reqs, flags, lasts, marks, o, l, k, i) ==
  LET asked == {a.slot : a \in asks} IN
  /\ \A s \in asked : \E n \in 1 .. MaxSame : \A r \in OutOf(s, reqs) : r.id # n
  /\ o = reqs \cup {[slot |-> a.slot, filter |-> a.filter, page |-> a.page, by |-> m,
                     first |-> first, id |-> FreeId(a.slot, reqs)] : a \in asks}
  /\ l = [s \in Slots |-> s \in asked \/ flags[s]]
  /\ k = [s \in Slots |-> IF s \in asked THEN FreeId(s, reqs) ELSE lasts[s]]
  /\ i = [s \in Slots |-> IF s \in asked THEN 0 ELSE marks[s]]

\* What view v's load by mount m leaves out, flagged, last and intact.
LoadSent(m, v, f, p, reqs, flags, lasts, marks, o, l, k, i) ==
  /\ o \in SUBSET Requests /\ reqs \subseteq o
  /\ l = [s \in Slots |-> s \in Asked(v) \/ flags[s]]
  /\ k \in [Slots -> 0 .. MaxSame]
  /\ \A s \in Slots : s \notin Asked(v) => k[s] = lasts[s]
  /\ i = [s \in Slots |-> IF s \in Asked(v) THEN 0 ELSE marks[s]]
  /\ \A s \in Asked(v) : \E r \in o : r.slot = s /\ r.by = m
  /\ \A r \in o : r \notin reqs => r.slot \in Asked(v) /\ r.by = m
  /\ \A r \in o : r.slot \in Asked(v) /\ r.id = k[r.slot] => r \notin reqs
  /\ Fit(v, f, p) => \A r \in OutOf(Main(v), o) : r \in reqs \/ (r.filter = f /\ r.page = p)

\* A load that is sent adds one request for each slot it asks for.
LEMMA SendDone ==
  ASSUME NEW m \in 1 .. MaxMounts, NEW v \in Views, NEW f \in Filters, NEW p \in 1 .. MaxPage,
         NEW first \in BOOLEAN, NEW reqs \in SUBSET Requests, NEW flags,
         NEW lasts \in [Slots -> 0 .. MaxSame], NEW marks,
         NEW o, NEW l, NEW k, NEW i,
         Sending(m, Load(v, f, p), first, reqs, flags, lasts, marks, o, l, k, i)
  PROVE  LoadSent(m, v, f, p, reqs, flags, lasts, marks, o, l, k, i)
<1> DEFINE asks == Load(v, f, p)
           Sent(a) == [slot |-> a.slot, filter |-> a.filter, page |-> a.page, by |-> m,
                       first |-> first, id |-> FreeId(a.slot, reqs)]
<1>1. /\ asks \subseteq Asks
      /\ {a.slot : a \in asks} = Asked(v)
      /\ \A a, b \in asks : a.slot = b.slot => a = b
      /\ Fit(v, f, p) => \A a \in asks : a.slot = Main(v) => a.filter = f /\ a.page = p
  BY LoadAsks
<1> HIDE DEF asks
<1>2. Sending(m, asks, first, reqs, flags, lasts, marks, o, l, k, i)
  BY DEF asks
<1>3. \A s \in Asked(v) : /\ FreeId(s, reqs) \in 1 .. MaxSame
                         /\ \A r \in OutOf(s, reqs) : r.id # FreeId(s, reqs)
  <2> SUFFICES ASSUME NEW s \in Asked(v)
               PROVE  /\ FreeId(s, reqs) \in 1 .. MaxSame
                      /\ \A r \in OutOf(s, reqs) : r.id # FreeId(s, reqs)
    OBVIOUS
  <2>1. \E n \in 1 .. MaxSame : \A r \in OutOf(s, reqs) : r.id # n
    BY <1>1, <1>2 DEF Sending
  <2> QED BY <2>1 DEF FreeId
<1>4. o = reqs \cup {Sent(a) : a \in asks}
  BY <1>2 DEF Sending
<1>5. \A a \in asks : Sent(a) \in Requests
  BY <1>1, <1>3 DEF Requests, Asks
<1>6. l = [s \in Slots |-> s \in Asked(v) \/ flags[s]]
  BY <1>1, <1>2 DEF Sending
<1>7. i = [s \in Slots |-> IF s \in Asked(v) THEN 0 ELSE marks[s]]
  BY <1>1, <1>2 DEF Sending
<1>8. \A a \in asks : Sent(a).slot = a.slot /\ Sent(a).filter = a.filter
                      /\ Sent(a).page = a.page /\ Sent(a).by = m
  OBVIOUS
<1> HIDE DEF Sent
<1>9. k = [s \in Slots |-> IF s \in Asked(v) THEN FreeId(s, reqs) ELSE lasts[s]]
  BY <1>1, <1>2 DEF Sending
<1>10. o \in SUBSET Requests /\ reqs \subseteq o
  BY <1>4, <1>5
<1>11. \A s \in Asked(v) : \E r \in o : r.slot = s /\ r.by = m
  BY <1>1, <1>4, <1>8
<1>12. \A r \in o : r \notin reqs => r.slot \in Asked(v) /\ r.by = m
  BY <1>1, <1>4, <1>8
<1>13. /\ k \in [Slots -> 0 .. MaxSame]
       /\ \A s \in Slots : s \notin Asked(v) => k[s] = lasts[s]
  <2>1. \A s \in Slots : s \in Asked(v) => FreeId(s, reqs) \in 0 .. MaxSame
    BY <1>3, ViewLoadsAssumptions
  <2> QED BY <1>9, <2>1
<1>14. ASSUME NEW r \in o, r.slot \in Asked(v), r.id = k[r.slot]
       PROVE  r \notin reqs
  <2>1. r.slot \in Slots
    BY <1>10 DEF Requests
  <2>2. k[r.slot] = FreeId(r.slot, reqs)
    BY <1>9, <1>14, <2>1
  <2> QED BY <1>3, <1>14, <2>2 DEF OutOf
<1>15. ASSUME Fit(v, f, p), NEW r \in OutOf(Main(v), o)
       PROVE  r \in reqs \/ (r.filter = f /\ r.page = p)
  BY <1>1, <1>4, <1>8, <1>15 DEF OutOf
<1> QED BY <1>6, <1>7, <1>10, <1>11, <1>12, <1>13, <1>14, <1>15 DEF LoadSent

-----------------------------------------------------------------------------
(* What keeps the invariant.                                               *)

\* Every view has a slot, and a view whose load does not ask for a slot is
\* not about it.
LEMMA ViewFacts ==
  ASSUME LoadsType
  PROVE  /\ view \in Views \cup {None} /\ None \notin Views
         /\ \A v \in Views : Main(v) \in Slots /\ Main(v) \in Asked(v)
         /\ Docs \cap {None} = {}
BY ViewLoadsAssumptions
   DEF LoadsType, TypeOK, Views, Lists, Periods, Main, Asked, Slots, Docs

\* A load that is sent leaves no flag without a request.
LEMMA SendFlags ==
  ASSUME NEW m, NEW v, NEW f, NEW p, NEW reqs, NEW flags, NEW lasts, NEW marks,
         NEW o, NEW l, NEW k, NEW i,
         LoadSent(m, v, f, p, reqs, flags, lasts, marks, o, l, k, i),
         \A s \in Slots : flags[s] => OutOf(s, reqs) # {}
  PROVE  \A s \in Slots : l[s] => OutOf(s, o) # {}
<1>1. /\ reqs \subseteq o
      /\ l = [s \in Slots |-> s \in Asked(v) \/ flags[s]]
      /\ \A s \in Asked(v) : \E r \in o : r.slot = s
  BY DEF LoadSent
<1> QED BY <1>1 DEF OutOf

\* The controls a view loads with are the ones its load asks for.
LEMMA ReloadKeeps ==
  ASSUME LoadsIInv, view \in Views, NEW f \in Filters, NEW p \in 1 .. MaxPage,
         Fit(view, f, p), pager' \in 1 .. MaxPage, p <= pager',
         (view \in Lists /\ store[view] # None) => (store[view].pages = 0 \/ p <= store[view].pages),
         Reload(f, p)
  PROVE  LoadsIInv'
<1>0. LoadsType /\ MountsInOrder /\ ControlsFit /\ SpinnerMeansOut
  BY DEF LoadsIInv
<1>1. /\ filter' = f /\ page' = p /\ edited' = FALSE
      /\ Send(mount, Load(view, f, p), FALSE, out, isLoading)
      /\ UNCHANGED <<tour, view, mount, store, integrity, checks, lone, initial, intervals>>
  BY DEF Reload, threatVars, boardVars
<1>2. /\ mount \in 1 .. MaxMounts /\ out \in SUBSET Requests /\ isLoading \in [Slots -> BOOLEAN]
      /\ last \in [Slots -> 0 .. MaxSame] /\ intact \in [Slots -> 0 .. MaxMounts]
  BY <1>0, ViewFacts, ViewLoadsAssumptions DEF LoadsType, TypeOK, Requests, MountsInOrder
<1>3. LoadSent(mount, view, f, p, out, isLoading, last, intact,
                 out', isLoading', last', intact')
  <2>1. Sending(mount, Load(view, f, p), FALSE, out, isLoading, last, intact,
                 out', isLoading', last', intact')
    BY <1>1 DEF Send, Sending
  <2> QED BY <1>2, <2>1, SendDone
<1>4. /\ out' \in SUBSET Requests /\ out \subseteq out'
      /\ isLoading' = [s \in Slots |-> s \in Asked(view) \/ isLoading[s]]
      /\ last' \in [Slots -> 0 .. MaxSame]
      /\ \A s \in Slots : s \notin Asked(view) => last'[s] = last[s]
      /\ intact' = [s \in Slots |-> IF s \in Asked(view) THEN 0 ELSE intact[s]]
      /\ \A r \in out' : r.slot \in Asked(view) /\ r.id = last'[r.slot] => r \notin out
      /\ \A s \in Asked(view) : \E r \in out' : r.slot = s /\ r.by = mount
      /\ \A r \in OutOf(Main(view), out') : r \in out \/ (r.filter = f /\ r.page = p)
  BY <1>3 DEF LoadSent
<1>5. Main(view) \in Slots /\ Main(view) \in Asked(view)
  BY <1>0, ViewFacts
<1>6. LoadsType'
  <2>1. isLoading' \in [Slots -> BOOLEAN]
    BY <1>2, <1>4
  <2>2. intact' \in [Slots -> 0 .. MaxMounts]
    BY <1>2, <1>4, ViewLoadsAssumptions
  <2>3. \A s \in Slots : store'[s] \in Contents(s) \cup {None}
    BY <1>0, <1>1 DEF LoadsType, TypeOK
  <2>4. store' \in [Slots -> Docs \cup {None}]
    BY <1>0, <1>1 DEF LoadsType
  <2>5. out' \subseteq Requests
    BY <1>4
  <2> QED BY <1>0, <1>1, <1>4, <2>1, <2>2, <2>3, <2>4, <2>5 DEF LoadsType, TypeOK, Requests
<1>7. MountsInOrder'
  BY <1>0, <1>1, <1>2, <1>4 DEF MountsInOrder
<1>8. ControlsFit'
  BY <1>1 DEF ControlsFit, Fit
<1>9. SpinnerMeansOut'
  BY <1>0, <1>1, <1>3, SendFlags DEF SpinnerMeansOut
<1>10. LastFits'
  BY <1>1, <1>4, <1>5 DEF LastFits, OutOf
<1>11. SettledShowsSelection'
  BY <1>1, <1>2, <1>4, <1>5 DEF SettledShowsSelection
<1>12. ShownPageExists'
  BY <1>1 DEF ShownPageExists
<1>13. ChecksFollow' /\ IntegrityOfRange'
  BY <1>1, <1>4 DEF ChecksFollow, IntegrityOfRange, OutOf, Asked
<1> QED BY <1>6, <1>7, <1>8, <1>9, <1>10, <1>11, <1>12, <1>13 DEF LoadsIInv

\* A view that is mounted loads with its default controls.
LEMMA MountKeeps ==
  ASSUME LoadsIInv, NEW v \in Views, Mount(v)
  PROVE  LoadsIInv'
<1>0. LoadsType /\ MountsInOrder /\ ControlsFit /\ SpinnerMeansOut
  BY DEF LoadsIInv
<1>1. /\ v \in tour /\ mount < MaxMounts /\ view' = v /\ mount' = mount + 1
      /\ filter' = Default /\ page' = 1 /\ edited' = FALSE /\ pager' = 1
      /\ integrity' = None /\ checks' = {} /\ lone' = FALSE
      /\ intervals' = intervals \ {mount}
      /\ initial' \subseteq initial \cup {mount + 1}
      /\ mount + 1 \in initial' => v = "dashboard" \/ mount + 1 \in initial
      /\ Send(mount + 1, Load(v, Default, 1), v = "dashboard", out, isLoading)
      /\ tour' = tour /\ store' = store
  BY DEF Mount
<1>2. /\ mount \in 0 .. MaxMounts /\ out \in SUBSET Requests /\ isLoading \in [Slots -> BOOLEAN]
      /\ last \in [Slots -> 0 .. MaxSame] /\ intact \in [Slots -> 0 .. MaxMounts] /\ mount + 1 \in 1 .. MaxMounts
      /\ Default \in Filters /\ 1 \in 1 .. MaxPage
  BY <1>0, <1>1, ViewLoadsAssumptions DEF LoadsType, TypeOK, Requests
<1>3. LoadSent(mount + 1, v, Default, 1, out, isLoading, last, intact,
                 out', isLoading', last', intact')
  <2>1. Sending(mount + 1, Load(v, Default, 1), v = "dashboard", out, isLoading, last, intact,
                out', isLoading', last', intact')
    BY <1>1 DEF Send, Sending
  <2> QED BY <1>2, <2>1, SendDone
<1>4. /\ out' \in SUBSET Requests /\ out \subseteq out'
      /\ isLoading' = [s \in Slots |-> s \in Asked(v) \/ isLoading[s]]
      /\ last' \in [Slots -> 0 .. MaxSame]
      /\ \A s \in Slots : s \notin Asked(v) => last'[s] = last[s]
      /\ intact' = [s \in Slots |-> IF s \in Asked(v) THEN 0 ELSE intact[s]]
      /\ \A r \in out' : r.slot \in Asked(v) /\ r.id = last'[r.slot] => r \notin out
      /\ \A s \in Asked(v) : \E r \in out' : r.slot = s
      /\ \A r \in OutOf(Main(v), out') : r \in out \/ (r.filter = Default /\ r.page = 1)
  BY <1>3 DEF LoadSent, Fit
<1>5. Main(v) \in Slots /\ Main(v) \in Asked(v)
  BY <1>0, ViewFacts
<1>6. LoadsType'
  <2>1. isLoading' \in [Slots -> BOOLEAN]
    BY <1>2, <1>4
  <2>2. intact' \in [Slots -> 0 .. MaxMounts]
    BY <1>2, <1>4, ViewLoadsAssumptions
  <2>3. \A s \in Slots : store'[s] \in Contents(s) \cup {None}
    BY <1>0, <1>1 DEF LoadsType, TypeOK
  <2>4. store' \in [Slots -> Docs \cup {None}]
    BY <1>0, <1>1 DEF LoadsType
  <2>5. out' \subseteq Requests
    BY <1>4
  <2>6. initial' \subseteq 1 .. MaxMounts /\ intervals' \subseteq 1 .. MaxMounts
    BY <1>0, <1>1, <1>2 DEF LoadsType, TypeOK
  <2>7. tour' \in Tours /\ view' \in tour' \cup {None} /\ mount' \in 0 .. MaxMounts
    BY <1>0, <1>1, <1>2 DEF LoadsType, TypeOK
  <2> QED BY <1>1, <1>2, <1>4, <2>1, <2>2, <2>3, <2>4, <2>5, <2>6, <2>7 DEF LoadsType, TypeOK, Requests
<1>7. MountsInOrder'
  BY <1>0, <1>1, <1>2, <1>4 DEF MountsInOrder
<1>8. ControlsFit'
  BY <1>1 DEF ControlsFit
<1>9. SpinnerMeansOut'
  BY <1>0, <1>1, <1>3, SendFlags, SMTT(30) DEF SpinnerMeansOut
<1>10. LastFits'
  BY <1>1, <1>4, <1>5 DEF LastFits, OutOf
<1>11. SettledShowsSelection'
  BY <1>1, <1>2, <1>4, <1>5 DEF SettledShowsSelection
<1>12. ShownPageExists'
  <2> SUFFICES ASSUME v \in Lists, store[v] # None
               PROVE  store[v].pages = 0 \/ 1 <= store[v].pages
    BY <1>1 DEF ShownPageExists
  <2>1. store[v] \in Docs
    BY <1>0 DEF LoadsType, Slots
  <2> QED BY <2>1 DEF Docs
<1>13. ChecksFollow' /\ IntegrityOfRange'
  BY <1>1 DEF ChecksFollow, IntegrityOfRange
<1> QED BY <1>6, <1>7, <1>8, <1>9, <1>10, <1>11, <1>12, <1>13 DEF LoadsIInv

\* An interval's load is the shown dashboard's own, or marks its slots as
\* another mount's.
LEMMA TickKeeps ==
  ASSUME LoadsIInv, NEW m \in 1 .. MaxMounts, Tick(m)
  PROVE  LoadsIInv'
<1>0. LoadsType /\ MountsInOrder /\ ControlsFit /\ SpinnerMeansOut
  BY DEF LoadsIInv
<1>1. /\ m \in intervals /\ Send(m, loadDashboardData, FALSE, out, isLoading)
      /\ UNCHANGED <<tour, view, mount, filter, page, edited, pager, store,
                     integrity, checks, lone, initial, intervals>>
  BY DEF Tick, controls, threatVars, boardVars
<1>2. /\ mount \in 0 .. MaxMounts /\ out \in SUBSET Requests /\ isLoading \in [Slots -> BOOLEAN]
      /\ last \in [Slots -> 0 .. MaxSame] /\ intact \in [Slots -> 0 .. MaxMounts] /\ m <= mount
      /\ Default \in Filters /\ 1 \in 1 .. MaxPage /\ "dashboard" \in Views
  BY <1>0, <1>1, ViewLoadsAssumptions DEF LoadsType, TypeOK, Requests, MountsInOrder, Views
<1>3. LoadSent(m, "dashboard", Default, 1, out, isLoading, last, intact,
                 out', isLoading', last', intact')
  <2>1. Load("dashboard", Default, 1) = loadDashboardData
    BY DEF Load
  <2>2. Sending(m, loadDashboardData, FALSE, out, isLoading, last, intact,
                 out', isLoading', last', intact')
    BY <1>1 DEF Send, Sending
  <2> QED BY <1>2, <2>1, <2>2, SendDone
<1>4. /\ out' \in SUBSET Requests /\ out \subseteq out'
      /\ isLoading' = [s \in Slots |-> s \in Asked("dashboard") \/ isLoading[s]]
      /\ last' \in [Slots -> 0 .. MaxSame]
      /\ \A s \in Slots : s \notin Asked("dashboard") => last'[s] = last[s]
      /\ intact' = [s \in Slots |-> IF s \in Asked("dashboard") THEN 0 ELSE intact[s]]
      /\ \A r \in out' : r.slot \in Asked("dashboard") /\ r.id = last'[r.slot] => r \notin out
      /\ \A s \in Asked("dashboard") : \E r \in out' : r.slot = s
      /\ \A r \in out' : r \notin out => r.slot \in Asked("dashboard")
      /\ \A r \in OutOf(Main("dashboard"), out') : r \in out \/ (r.filter = Default /\ r.page = 1)
  BY <1>3 DEF LoadSent, Fit
<1>5. LoadsType'
  <2>1. isLoading' \in [Slots -> BOOLEAN]
    BY <1>2, <1>4
  <2>2. intact' \in [Slots -> 0 .. MaxMounts]
    BY <1>2, <1>4, ViewLoadsAssumptions
  <2>3. \A s \in Slots : store'[s] \in Contents(s) \cup {None}
    BY <1>0, <1>1 DEF LoadsType, TypeOK
  <2>4. store' \in [Slots -> Docs \cup {None}]
    BY <1>0, <1>1 DEF LoadsType
  <2>5. out' \subseteq Requests
    BY <1>4
  <2> QED BY <1>0, <1>1, <1>4, <2>1, <2>2, <2>3, <2>4, <2>5 DEF LoadsType, TypeOK, Requests
<1>6. MountsInOrder'
  BY <1>0, <1>1, <1>2, <1>4 DEF MountsInOrder
<1>7. ControlsFit'
  BY <1>0, <1>1 DEF ControlsFit
<1>8. SpinnerMeansOut'
  BY <1>0, <1>1, <1>3, SendFlags DEF SpinnerMeansOut
<1>9. ASSUME view # None
      PROVE  Main(view) \in Slots
  BY <1>0, <1>9, ViewFacts
<1>10. LastFits'
  <2> SUFFICES ASSUME view # None, NEW r \in OutOf(Main(view), out'),
                      r.id = last'[Main(view)], r.by = mount, ~edited
               PROVE  r.filter = filter /\ r.page = page
    BY <1>1 DEF LastFits
  <2>1. CASE Main(view) \in Asked("dashboard")
    <3>1. r \notin out /\ r.by = m
      BY <1>3, <1>4, <2>1 DEF OutOf, LoadSent
    <3>2. view = "dashboard" /\ filter = Default /\ page = 1
      BY <1>0, <1>1, <3>1 DEF MountsInOrder, ControlsFit, Lists
    <3> QED BY <1>4, <3>1, <3>2
  <2>2. CASE Main(view) \notin Asked("dashboard")
    <3>1. last'[Main(view)] = last[Main(view)] /\ r \in OutOf(Main(view), out)
      BY <1>4, <1>9, <2>2 DEF OutOf
    <3> QED BY <3>1 DEF LoadsIInv, LastFits
  <2> QED BY <2>1, <2>2
<1>11. SettledShowsSelection'
  <2> SUFFICES ASSUME view # None, intact'[Main(view)] = mount, ~edited
               PROVE  /\ store[Main(view)] # None
                      /\ store[Main(view)].filter = filter /\ store[Main(view)].page = page
    BY <1>1 DEF SettledShowsSelection
  <2>1. mount # 0
    BY <1>0 DEF MountsInOrder
  <2>2. intact[Main(view)] = mount
    BY <1>4, <1>9, <2>1
  <2> QED BY <2>2 DEF LoadsIInv, SettledShowsSelection
<1>12. ShownPageExists'
  BY <1>1 DEF LoadsIInv, ShownPageExists
<1>13. ChecksFollow' /\ IntegrityOfRange'
  BY <1>1, <1>4 DEF LoadsIInv, ChecksFollow, IntegrityOfRange, OutOf
<1> QED BY <1>5, <1>6, <1>7, <1>8, <1>10, <1>11, <1>12, <1>13 DEF LoadsIInv

\* A load of ThreatsView that is over is followed by a check of the period
\* selected; no other answer touches the checks.
LEMMA ChecksKept ==
  ASSUME LoadsIInv, NEW r \in out, CheckIntegrity(r), UNCHANGED <<view, mount, filter>>,
         \A q \in out : q # r => \E k \in out' : k.slot = q.slot /\ k.by = q.by
  PROVE  /\ integrity' \in Filters \cup {None} /\ lone' \in BOOLEAN
         /\ checks' \subseteq [id : 1 .. MaxSame, filter : Filters]
         /\ ChecksFollow' /\ IntegrityOfRange'
<1>0. /\ integrity \in Filters \cup {None} /\ lone \in BOOLEAN /\ filter \in Filters
      /\ checks \subseteq [id : 1 .. MaxSame, filter : Filters]
      /\ ChecksFollow /\ IntegrityOfRange
  BY DEF LoadsIInv, LoadsType, TypeOK
<1>1. CASE r.slot = "threats" /\ view = "threats" /\ r.by = mount
  <2>1. PICK n \in 1 .. MaxSame : checks' = checks \cup {[id |-> n, filter |-> filter]}
    BY <1>1 DEF CheckIntegrity
  <2>2. lone' = (checks = {}) /\ integrity' = integrity
    BY <1>1 DEF CheckIntegrity
  <2>3. checks' \subseteq [id : 1 .. MaxSame, filter : Filters]
    BY <1>0, <2>1
  <2>4. ASSUME lone', NEW c \in checks'
        PROVE  c.filter = filter
    <3>1. checks = {}
      BY <2>2, <2>4, Zenon
    <3>2. c = [id |-> n, filter |-> filter]
      BY <2>1, <3>1
    <3> QED BY <3>2
  <2>5. checks' # {}
    BY <2>1
  <2>6. ChecksFollow' /\ IntegrityOfRange'
    BY <2>4, <2>5 DEF ChecksFollow, IntegrityOfRange
  <2> QED BY <1>0, <2>2, <2>3, <2>6
<1>2. CASE ~(r.slot = "threats" /\ view = "threats" /\ r.by = mount)
  <2>1. integrity' = integrity /\ lone' = lone /\ checks' = checks
    BY <1>2 DEF CheckIntegrity, threatVars
  <2>2. ASSUME view = "threats", \A k \in OutOf("threats", out') : k.by # mount
        PROVE  \A q \in OutOf("threats", out) : q.by # mount
    BY <1>2, <2>2 DEF OutOf
  <2>3. ChecksFollow'
    BY <1>0, <2>1, <2>2 DEF ChecksFollow
  <2>4. IntegrityOfRange'
    BY <1>0, <2>1, <2>2 DEF IntegrityOfRange
  <2> QED BY <1>0, <2>1, <2>3, <2>4
<1> QED BY <1>1, <1>2

\* An answer is stored under what was asked, and a list that shrank below the
\* paginator's page is loaded again on its last page.
LEMMA AnsweredKeeps ==
  ASSUME LoadsIInv, NEW r \in out, NEW n \in PagesOf(r.slot), Answered(r, n)
  PROVE  LoadsIInv'
<1>0. /\ LoadsType /\ MountsInOrder /\ ControlsFit /\ SpinnerMeansOut
      /\ LastFits /\ SettledShowsSelection /\ ShownPageExists
  BY DEF LoadsIInv
<1> DEFINE doc == [filter |-> r.filter, page |-> r.page, pages |-> n]
<1>1. /\ store' = [store EXCEPT ![r.slot] = doc]
      /\ CheckIntegrity(r)
      /\ UNCHANGED <<tour, view, mount, filter, initial, intervals>>
  BY DEF Answered, boardVars
<1>2. /\ mount \in 0 .. MaxMounts /\ out \in SUBSET Requests /\ isLoading \in [Slots -> BOOLEAN]
      /\ last \in [Slots -> 0 .. MaxSame] /\ intact \in [Slots -> 0 .. MaxMounts] /\ store \in [Slots -> Docs \cup {None}]
      /\ filter \in Filters /\ page \in 1 .. MaxPage /\ pager \in 1 .. MaxPage
      /\ MaxPage \in Nat \ {0} /\ MaxMounts \in Nat
  BY <1>0, ViewLoadsAssumptions DEF LoadsType, TypeOK, Requests
<1>3. /\ r \in Requests /\ r.slot \in Slots /\ n \in 0 .. MaxPage
      /\ r.filter \in Filters /\ r.page \in 1 .. MaxPage
  BY <1>2 DEF Requests, PagesOf
<1>4. /\ doc \in Docs /\ doc \in Contents(r.slot) /\ doc # None
      /\ doc.filter = r.filter /\ doc.page = r.page /\ doc.pages = n
  BY <1>0, <1>3, ViewFacts DEF Docs, Contents
<1> HIDE DEF doc
<1>5. /\ store' \in [Slots -> Docs \cup {None}]
      /\ store'[r.slot] = doc /\ \A s \in Slots : s # r.slot => store'[s] = store[s]
  BY <1>1, <1>2, <1>3, <1>4
<1>6. \A s \in Slots : store'[s] \in Contents(s) \cup {None}
  BY <1>0, <1>4, <1>5 DEF LoadsType, TypeOK
<1>7. Settled(r) \in [Slots -> BOOLEAN] /\ Settled(r)[r.slot] = FALSE
      /\ \A s \in Slots : s # r.slot => Settled(r)[s] = isLoading[s]
  BY <1>2, <1>3 DEF Settled
<1>8. \A s \in Slots : Settled(r)[s] => OutOf(s, out \ {r}) # {}
  BY <1>0, <1>3, <1>7 DEF SpinnerMeansOut, OutOf
<1>9. ASSUME view # None
      PROVE  Main(view) \in Slots /\ mount # 0
  BY <1>0, <1>9, ViewFacts DEF MountsInOrder
<1>10. CASE ~Overrun(r.slot, n)
  <2>1. /\ out' = out \ {r} /\ isLoading' = Settled(r)
        /\ last' = [last EXCEPT ![r.slot] = IF IsLast(r) THEN 0 ELSE @]
        /\ intact' = [intact EXCEPT ![r.slot] = IF IsLast(r) THEN r.by ELSE 0]
        /\ UNCHANGED <<page, pager, edited>>
    BY <1>10 DEF Answered, LastOver
  <2>9. /\ last' \in [Slots -> 0 .. MaxSame] /\ intact' \in [Slots -> 0 .. MaxMounts]
        /\ intact'[r.slot] = IF IsLast(r) THEN r.by ELSE 0
        /\ last'[r.slot] \in {0, last[r.slot]}
        /\ \A s \in Slots : s # r.slot => last'[s] = last[s] /\ intact'[s] = intact[s]
    <3>1. r.by \in 0 .. MaxMounts
      BY <1>3 DEF Requests
    <3> QED BY <1>2, <1>3, <2>1, <3>1, ViewLoadsAssumptions
  <2>2. /\ integrity' \in Filters \cup {None} /\ lone' \in BOOLEAN
        /\ checks' \subseteq [id : 1 .. MaxSame, filter : Filters]
        /\ ChecksFollow' /\ IntegrityOfRange'
    <3>1. \A q \in out : q # r => \E k \in out' : k.slot = q.slot /\ k.by = q.by
      BY <2>1
    <3> QED BY <1>1, <3>1, ChecksKept
  <2>3. LoadsType'
    <3>1. out' \subseteq Requests /\ isLoading' \in [Slots -> BOOLEAN]
      BY <1>2, <1>7, <2>1
    <3> QED BY <1>0, <1>1, <1>2, <1>5, <1>6, <2>1, <2>2, <2>9, <3>1 DEF LoadsType, TypeOK, Requests
  <2>4. MountsInOrder' /\ ControlsFit'
    BY <1>0, <1>1, <2>1 DEF MountsInOrder, ControlsFit
  <2>5. SpinnerMeansOut'
    BY <1>8, <2>1 DEF SpinnerMeansOut
  <2>6. LastFits'
    <3> SUFFICES ASSUME view # None, NEW q \in OutOf(Main(view), out'),
                        q.id = last'[Main(view)], q.by = mount, ~edited
                 PROVE  q.filter = filter /\ q.page = page
      BY <1>1, <2>1 DEF LastFits
    <3>1. q \in OutOf(Main(view), out) /\ q.id # 0
      BY <1>2, <2>1 DEF OutOf, Requests
    <3>2. q.id = last[Main(view)]
      BY <1>9, <2>9, <3>1
    <3> QED BY <1>0, <3>1, <3>2 DEF LastFits
  <2>7. SettledShowsSelection'
    <3> SUFFICES ASSUME view # None, intact'[Main(view)] = mount, ~edited
                 PROVE  /\ store'[Main(view)] # None
                        /\ store'[Main(view)].filter = filter /\ store'[Main(view)].page = page
      BY <1>1, <2>1 DEF SettledShowsSelection
    <3>1. CASE Main(view) = r.slot
      <4>1. IsLast(r) /\ r.by = mount
        BY <1>9, <2>9, <3>1
      <4>2. r.filter = filter /\ r.page = page
        BY <1>0, <3>1, <4>1 DEF LastFits, OutOf, IsLast
      <4> QED BY <1>4, <1>5, <3>1, <4>2
    <3>2. CASE Main(view) # r.slot
      BY <1>0, <1>5, <1>9, <2>9, <3>2 DEF SettledShowsSelection
    <3> QED BY <3>1, <3>2
  <2>8. ShownPageExists'
    <3> SUFFICES ASSUME view \in Lists, store'[view] # None
                 PROVE  store'[view].pages = 0 \/ page <= store'[view].pages
      BY <1>1, <2>1 DEF ShownPageExists
    <3>1. CASE view = r.slot
      <4>1. n = 0 \/ pager <= n
        BY <1>2, <1>3, <1>10, <3>1 DEF Overrun
      <4> QED BY <1>0, <1>2, <1>3, <1>4, <1>5, <3>1, <4>1 DEF ControlsFit
    <3>2. CASE view # r.slot
      BY <1>0, <1>5, <3>2 DEF ShownPageExists, Slots
    <3> QED BY <3>1, <3>2
  <2> QED BY <2>2, <2>3, <2>4, <2>5, <2>6, <2>7, <2>8 DEF LoadsIInv
<1>11. CASE Overrun(r.slot, n)
  <2>1. /\ page' = n /\ pager' = n /\ edited' = FALSE
        /\ Send(mount, Load(view, filter, n), FALSE, out \ {r}, Settled(r))
    BY <1>11 DEF Answered
  <2>2. /\ view \in Lists /\ view = r.slot /\ view \in Views /\ view # None /\ Main(view) = view
        /\ view \in Slots /\ n \in 1 .. MaxPage /\ mount \in 1 .. MaxMounts
    <3>1. view \in Lists /\ view = r.slot /\ view \in Views /\ Main(view) = view /\ n \in 1 .. MaxPage
      BY <1>2, <1>3, <1>11 DEF Overrun, Views, Main, Lists
    <3>2. view # None
      BY <1>0, <3>1, ViewFacts
    <3> QED BY <1>0, <1>2, <1>3, <3>1, <3>2 DEF MountsInOrder
  <2>3. LoadSent(mount, view, filter, n, out \ {r}, Settled(r), last, intact,
                 out', isLoading', last', intact')
    <3>1. Sending(mount, Load(view, filter, n), FALSE, out \ {r}, Settled(r), last, intact,
                  out', isLoading', last', intact')
      BY <2>1 DEF Send, Sending
    <3>2. out \ {r} \in SUBSET Requests
      BY <1>2
    <3> QED BY <1>2, <2>2, <3>1, <3>2, SendDone
  <2>4. Fit(view, filter, n) /\ Asked(view) = {view}
    BY <1>0, <2>2 DEF Fit, ControlsFit, Asked, Lists
  <2>5. /\ out' \in SUBSET Requests /\ out \ {r} \subseteq out'
        /\ isLoading' = [s \in Slots |-> s \in {view} \/ Settled(r)[s]]
        /\ last' \in [Slots -> 0 .. MaxSame]
        /\ intact' = [s \in Slots |-> IF s \in {view} THEN 0 ELSE intact[s]]
        /\ \E k \in out' : k.slot = view
        /\ \A k \in out' : k.slot = view /\ k.id = last'[view] => k \notin out \ {r}
        /\ \A k \in OutOf(view, out') : k \in out \ {r} \/ (k.filter = filter /\ k.page = n)
    BY <2>2, <2>3, <2>4 DEF LoadSent
  <2>6. /\ integrity' \in Filters \cup {None} /\ lone' \in BOOLEAN
        /\ checks' \subseteq [id : 1 .. MaxSame, filter : Filters]
        /\ ChecksFollow' /\ IntegrityOfRange'
    <3>1. \A q \in out : q # r => \E k \in out' : k.slot = q.slot /\ k.by = q.by
      BY <2>5
    <3> QED BY <1>1, <3>1, ChecksKept
  <2>7. LoadsType'
    <3>1. isLoading' \in [Slots -> BOOLEAN]
      BY <1>7, <2>5
    <3>2. intact' \in [Slots -> 0 .. MaxMounts]
      BY <1>2, <2>5, ViewLoadsAssumptions
    <3>3. out' \subseteq Requests
      BY <2>5
    <3> QED BY <1>0, <1>1, <1>2, <1>5, <1>6, <2>1, <2>2, <2>5, <2>6, <3>1, <3>2, <3>3
            DEF LoadsType, TypeOK, Requests
  <2>8. MountsInOrder'
    BY <1>0, <1>1, <1>2, <2>2, <2>5 DEF MountsInOrder
  <2>9. ControlsFit'
    BY <1>0, <1>1, <1>2, <2>1, <2>2 DEF ControlsFit, Lists
  <2>10. SpinnerMeansOut'
    <3> SUFFICES ASSUME NEW s \in Slots, isLoading'[s]
                 PROVE  OutOf(s, out') # {}
      BY DEF SpinnerMeansOut
    <3>1. s = view \/ Settled(r)[s]
      BY <2>5
    <3>2. CASE s = view
      BY <2>5, <3>2 DEF OutOf
    <3>3. CASE Settled(r)[s]
      BY <1>8, <2>5, <3>3 DEF OutOf
    <3> QED BY <3>1, <3>2, <3>3
  <2>12. LastFits'
    BY <1>1, <2>1, <2>2, <2>5 DEF LastFits, OutOf
  <2>13. SettledShowsSelection'
    BY <1>1, <1>2, <2>1, <2>2, <2>5 DEF SettledShowsSelection
  <2>14. ShownPageExists'
    BY <1>1, <1>2, <1>4, <1>5, <2>1, <2>2 DEF ShownPageExists
  <2> QED BY <2>6, <2>7, <2>8, <2>9, <2>10, <2>12, <2>13, <2>14 DEF LoadsIInv
<1> QED BY <1>10, <1>11

\* A failed load leaves the contents, and the marks of what they are.
LEMMA FailedKeeps ==
  ASSUME LoadsIInv, NEW r \in out, Failed(r)
  PROVE  LoadsIInv'
<1>0. /\ LoadsType /\ MountsInOrder /\ ControlsFit /\ SpinnerMeansOut
      /\ LastFits /\ SettledShowsSelection /\ ShownPageExists
  BY DEF LoadsIInv
<1> DEFINE Kept(q) == [q EXCEPT !.first = q.first /\ q.by # r.by]
<1>1. /\ out' = {Kept(q) : q \in out \ {r}}
      /\ isLoading' = Settled(r)
      /\ last' = [last EXCEPT ![r.slot] = IF IsLast(r) THEN 0 ELSE @]
      /\ CheckIntegrity(r)
      /\ UNCHANGED <<tour, view, mount, filter, page, edited, pager, store, intact, initial, intervals>>
  BY DEF Failed, LastOver, boardVars, controls
<1>2. /\ mount \in 0 .. MaxMounts /\ out \in SUBSET Requests /\ isLoading \in [Slots -> BOOLEAN]
      /\ last \in [Slots -> 0 .. MaxSame] /\ intact \in [Slots -> 0 .. MaxMounts] /\ MaxMounts \in Nat
  BY <1>0, ViewLoadsAssumptions DEF LoadsType, TypeOK, Requests
<1>3. r \in Requests /\ r.slot \in Slots
  BY <1>2 DEF Requests
<1>4. \A q \in out : /\ Kept(q) \in Requests /\ Kept(q).slot = q.slot /\ Kept(q).by = q.by
                     /\ Kept(q).filter = q.filter /\ Kept(q).page = q.page /\ Kept(q).id = q.id
  BY <1>2, <1>3 DEF Requests
<1> HIDE DEF Kept
<1>5. /\ \A q \in out : q # r => Kept(q) \in out'
      /\ \A k \in out' : \E q \in out : q # r /\ k = Kept(q)
  BY <1>1
<1>6. Settled(r) \in [Slots -> BOOLEAN] /\ Settled(r)[r.slot] = FALSE
      /\ \A s \in Slots : s # r.slot => Settled(r)[s] = isLoading[s]
  BY <1>2, <1>3 DEF Settled
<1>7. /\ last' \in [Slots -> 0 .. MaxSame] /\ last'[r.slot] \in {0, last[r.slot]}
      /\ \A s \in Slots : s # r.slot => last'[s] = last[s]
  BY <1>1, <1>2, <1>3, ViewLoadsAssumptions
<1>8. ASSUME view # None
      PROVE  Main(view) \in Slots /\ mount # 0
  BY <1>0, <1>8, ViewFacts DEF MountsInOrder
<1>9. /\ integrity' \in Filters \cup {None} /\ lone' \in BOOLEAN
      /\ checks' \subseteq [id : 1 .. MaxSame, filter : Filters]
      /\ ChecksFollow' /\ IntegrityOfRange'
  <2>1. \A q \in out : q # r => \E k \in out' : k.slot = q.slot /\ k.by = q.by
    BY <1>4, <1>5
  <2> QED BY <1>1, <2>1, ChecksKept
<1>10. LoadsType'
  <2>1. out' \subseteq Requests /\ isLoading' \in [Slots -> BOOLEAN]
    BY <1>1, <1>4, <1>5, <1>6
  <2>2. \A s \in Slots : store'[s] \in Contents(s) \cup {None}
    BY <1>0, <1>1 DEF LoadsType, TypeOK
  <2> QED BY <1>0, <1>1, <1>7, <1>9, <2>1, <2>2 DEF LoadsType, TypeOK, Requests
<1>11. MountsInOrder' /\ ControlsFit'
  BY <1>0, <1>1, <1>2, <1>7 DEF MountsInOrder, ControlsFit
<1>12. SpinnerMeansOut'
  <2> SUFFICES ASSUME NEW s \in Slots, isLoading'[s]
               PROVE  OutOf(s, out') # {}
    BY DEF SpinnerMeansOut
  <2>1. s # r.slot /\ isLoading[s]
    BY <1>1, <1>6
  <2>2. PICK q \in out : q.slot = s
    BY <1>0, <2>1 DEF SpinnerMeansOut, OutOf
  <2> QED BY <1>4, <1>5, <2>1, <2>2 DEF OutOf
<1>14. LastFits'
  <2> SUFFICES ASSUME view # None, NEW k \in OutOf(Main(view), out'),
                      k.id = last'[Main(view)], k.by = mount, ~edited
               PROVE  k.filter = filter /\ k.page = page
    BY <1>1 DEF LastFits
  <2>1. PICK q \in out : k = Kept(q) /\ q.slot = Main(view)
    BY <1>4, <1>5 DEF OutOf
  <2>2. q.id = last'[Main(view)] /\ q.by = mount /\ q.id # 0
    BY <1>2, <1>4, <2>1 DEF Requests
  <2>3. q.id = last[Main(view)]
    BY <1>7, <1>8, <2>2
  <2>4. q.filter = filter /\ q.page = page
    BY <1>0, <2>1, <2>2, <2>3 DEF LastFits, OutOf
  <2> QED BY <1>4, <2>1, <2>4
<1>15. SettledShowsSelection'
  BY <1>0, <1>1 DEF SettledShowsSelection
<1>16. ShownPageExists'
  BY <1>0, <1>1 DEF ShownPageExists
<1> QED BY <1>9, <1>10, <1>11, <1>12, <1>14, <1>15, <1>16 DEF LoadsIInv

\* Neither an answered check, an edited filter field nor a started interval
\* touches the loads.
LEMMA QuietKeeps ==
  ASSUME LoadsIInv,
         \/ \E n \in 1 .. MaxSame : IntegrityAnswered(n)
         \/ \E f \in Filters : EditFilters(f)
         \/ \E m \in 1 .. MaxMounts : StartInterval(m)
         \/ UNCHANGED vars
  PROVE  LoadsIInv'
<1>0. /\ LoadsType /\ MountsInOrder /\ ControlsFit /\ SpinnerMeansOut
      /\ LastFits /\ SettledShowsSelection /\ ShownPageExists /\ ChecksFollow /\ IntegrityOfRange
  BY DEF LoadsIInv
<1>1. ASSUME NEW n \in 1 .. MaxSame, IntegrityAnswered(n)
      PROVE  LoadsIInv'
  <2>1. PICK c \in checks : /\ checks' = checks \ {c}
                            /\ \/ integrity' = c.filter /\ lone' = lone
                               \/ integrity' = None /\ lone' = FALSE
    BY <1>1 DEF IntegrityAnswered
  <2>2. UNCHANGED <<tour, view, mount, filter, page, edited, pager, store, isLoading, out, last, intact,
                    initial, intervals>>
    BY <1>1 DEF IntegrityAnswered, controls, loads, boardVars
  <2>3. c.filter \in Filters /\ lone' \in BOOLEAN
    BY <1>0, <2>1 DEF LoadsType, TypeOK
  <2>4. LoadsType'
    <3>1. \A s \in Slots : store'[s] \in Contents(s) \cup {None}
      BY <1>0, <2>2 DEF LoadsType, TypeOK
    <3> QED BY <1>0, <2>1, <2>2, <2>3, <3>1 DEF LoadsType, TypeOK
  <2>5. MountsInOrder' /\ ControlsFit' /\ SpinnerMeansOut'
    BY <1>0, <2>2 DEF MountsInOrder, ControlsFit, SpinnerMeansOut
  <2>6. LastFits' /\ SettledShowsSelection' /\ ShownPageExists'
    BY <1>0, <2>2 DEF LastFits, SettledShowsSelection, ShownPageExists
  <2>7. ChecksFollow' /\ IntegrityOfRange'
    BY <1>0, <2>1, <2>2 DEF ChecksFollow, IntegrityOfRange
  <2> QED BY <2>4, <2>5, <2>6, <2>7 DEF LoadsIInv
<1>2. ASSUME NEW f \in Filters, EditFilters(f)
      PROVE  LoadsIInv'
  <2>1. /\ view \in {"events", "audit"} /\ filter' = f /\ edited' = TRUE
        /\ UNCHANGED <<tour, view, mount, page, pager, store, isLoading, out, last, intact, integrity,
                       checks, lone, initial, intervals>>
    BY <1>2 DEF EditFilters, loads, threatVars, boardVars
  <2>2. LoadsType'
    <3>1. \A s \in Slots : store'[s] \in Contents(s) \cup {None}
      BY <1>0, <2>1 DEF LoadsType, TypeOK
    <3> QED BY <1>0, <2>1, <3>1 DEF LoadsType, TypeOK
  <2>3. MountsInOrder' /\ SpinnerMeansOut' /\ ShownPageExists'
    BY <1>0, <2>1 DEF MountsInOrder, SpinnerMeansOut, ShownPageExists
  <2>4. ControlsFit' /\ ChecksFollow' /\ IntegrityOfRange'
    BY <1>0, <2>1 DEF ControlsFit, ChecksFollow, IntegrityOfRange
  <2>5. LastFits' /\ SettledShowsSelection'
    BY <1>0, <2>1 DEF LastFits, SettledShowsSelection
  <2> QED BY <2>2, <2>3, <2>4, <2>5 DEF LoadsIInv
<1>3. ASSUME NEW m \in 1 .. MaxMounts, StartInterval(m)
      PROVE  LoadsIInv'
  <2>1. /\ m \in initial /\ initial' = initial \ {m} /\ intervals' = intervals \cup {m}
        /\ UNCHANGED <<tour, view, mount, filter, page, edited, pager, store, isLoading, out, last, intact,
                       integrity, checks, lone>>
    BY <1>3 DEF StartInterval, controls, loads, threatVars
  <2>2. LoadsType'
    <3>1. \A s \in Slots : store'[s] \in Contents(s) \cup {None}
      BY <1>0, <2>1 DEF LoadsType, TypeOK
    <3> QED BY <1>0, <2>1, <3>1 DEF LoadsType, TypeOK
  <2>3. MountsInOrder'
    BY <1>0, <2>1 DEF MountsInOrder
  <2>4. ControlsFit' /\ SpinnerMeansOut' /\ ShownPageExists'
    BY <1>0, <2>1 DEF ControlsFit, SpinnerMeansOut, ShownPageExists
  <2>5. LastFits' /\ SettledShowsSelection'
    BY <1>0, <2>1 DEF LastFits, SettledShowsSelection
  <2>6. ChecksFollow' /\ IntegrityOfRange'
    BY <1>0, <2>1 DEF ChecksFollow, IntegrityOfRange
  <2> QED BY <2>2, <2>3, <2>4, <2>5, <2>6 DEF LoadsIInv
<1>4. CASE UNCHANGED vars
  <2>1. UNCHANGED <<tour, view, mount, filter, page, edited, pager, store, isLoading, out, last, intact,
                    integrity, checks, lone, initial, intervals>>
    BY <1>4 DEF vars, controls, loads, threatVars, boardVars
  <2>2. LoadsType'
    <3>1. \A s \in Slots : store'[s] \in Contents(s) \cup {None}
      BY <1>0, <2>1 DEF LoadsType, TypeOK
    <3> QED BY <1>0, <2>1, <3>1 DEF LoadsType, TypeOK
  <2>3. MountsInOrder' /\ ControlsFit' /\ SpinnerMeansOut' /\ ShownPageExists'
    BY <1>0, <2>1 DEF MountsInOrder, ControlsFit, SpinnerMeansOut, ShownPageExists
  <2>4. LastFits' /\ SettledShowsSelection' /\ ChecksFollow' /\ IntegrityOfRange'
    BY <1>0, <2>1 DEF LastFits, SettledShowsSelection, ChecksFollow, IntegrityOfRange
  <2> QED BY <2>2, <2>3, <2>4 DEF LoadsIInv
<1> QED BY <1>1, <1>2, <1>3, <1>4

-----------------------------------------------------------------------------
(* Theorems.                                                               *)

\* Every control that loads does so with controls that fit its view.
LEMMA ControlKeeps ==
  ASSUME LoadsIInv,
         \/ \E f \in Filters : ChoosePeriod(f)
         \/ \E p \in 1 .. MaxPage : onPage(p)
         \/ Refresh \/ ApplyEvents \/ clearFilters \/ applyFilters
  PROVE  LoadsIInv'
<1>0. /\ LoadsType /\ ControlsFit /\ ShownPageExists
      /\ filter \in Filters /\ page \in 1 .. MaxPage /\ pager \in 1 .. MaxPage
      /\ Default \in Filters /\ 1 \in 1 .. MaxPage
  BY ViewLoadsAssumptions DEF LoadsIInv, LoadsType, TypeOK
<1>1. /\ page <= pager /\ 1 <= pager
      /\ (view \in Lists /\ store[view] # None) => (store[view].pages = 0 \/ page <= store[view].pages)
      /\ (view \in Lists /\ store[view] # None) => (store[view].pages = 0 \/ 1 <= store[view].pages)
  <2>1. (view \in Lists /\ store[view] # None) => store[view] \in Docs
    BY <1>0 DEF LoadsType, Slots
  <2> QED BY <1>0, <2>1 DEF ControlsFit, ShownPageExists, Docs
<1>2. ASSUME NEW f \in Filters, ChoosePeriod(f)
      PROVE  LoadsIInv'
  <2>1. view \in Periods /\ Reload(f, page) /\ pager' = pager
    BY <1>2 DEF ChoosePeriod
  <2>2. view \in Views /\ view \notin Lists /\ Fit(view, f, page)
    BY <1>0, <2>1 DEF Views, Periods, Lists, Fit, ControlsFit
  <2> QED BY <1>0, <1>1, <2>1, <2>2, ReloadKeeps
<1>3. ASSUME NEW p \in 1 .. MaxPage, onPage(p)
      PROVE  LoadsIInv'
  <2>1. /\ view \in Lists /\ store[view] # None /\ p <= store[view].pages
        /\ pager' = p /\ Reload(filter, p)
    BY <1>3 DEF onPage
  <2>2. view \in Views /\ Fit(view, filter, p)
    BY <1>0, <2>1 DEF Views, Lists, Fit, ControlsFit
  <2> QED BY <1>0, <2>1, <2>2, ReloadKeeps
<1>4. CASE Refresh
  <2>1. view # None /\ Reload(filter, page) /\ pager' = pager
    BY <1>4 DEF Refresh
  <2>2. view \in Views /\ Fit(view, filter, page)
    BY <1>0, <2>1, ViewFacts DEF Fit, ControlsFit
  <2> QED BY <1>0, <1>1, <2>1, <2>2, ReloadKeeps
<1>5. CASE ApplyEvents
  <2>1. view = "events" /\ Reload(filter, page) /\ pager' = pager
    BY <1>5 DEF ApplyEvents
  <2>2. view \in Views /\ Fit(view, filter, page)
    BY <1>0, <2>1 DEF Views, Lists, Fit, ControlsFit
  <2> QED BY <1>0, <1>1, <2>1, <2>2, ReloadKeeps
<1>6. CASE clearFilters
  <2>1. view = "events" /\ Reload(Default, 1) /\ pager' = pager
    BY <1>6 DEF clearFilters
  <2>2. view \in Views /\ Fit(view, Default, 1)
    BY <2>1 DEF Views, Lists, Fit
  <2> QED BY <1>0, <1>1, <2>1, <2>2, ReloadKeeps
<1>7. CASE applyFilters
  <2>1. view = "audit" /\ Reload(filter, 1) /\ pager' = pager
    BY <1>7 DEF applyFilters
  <2>2. view \in Views /\ Fit(view, filter, 1)
    BY <2>1 DEF Views, Lists, Fit
  <2> QED BY <1>0, <1>1, <2>1, <2>2, ReloadKeeps
<1> QED BY <1>2, <1>3, <1>4, <1>5, <1>6, <1>7

\* The page starts with nothing mounted, stored, flagged or out.
LEMMA LoadsStart ==
  ASSUME Init
  PROVE  LoadsIInv
<1>1. LoadsType
  <2>1. \A s \in Slots : store[s] = None
    BY DEF Init
  <2>2. store \in [Slots -> Docs \cup {None}]
    BY DEF Init
  <2>3. isLoading \in [Slots -> BOOLEAN] /\ last \in [Slots -> 0 .. MaxSame] /\ intact \in [Slots -> 0 .. MaxMounts]
    BY ViewLoadsAssumptions DEF Init
  <2>4. tour \in Tours /\ view \in tour \cup {None} /\ mount \in 0 .. MaxMounts
    BY ViewLoadsAssumptions DEF Init
  <2>5. filter \in Filters /\ page \in 1 .. MaxPage /\ pager \in 1 .. MaxPage
    BY ViewLoadsAssumptions DEF Init
  <2>6. out = {} /\ integrity = None /\ checks = {} /\ initial = {} /\ intervals = {}
    BY DEF Init
  <2>7. edited \in BOOLEAN /\ lone \in BOOLEAN
    BY DEF Init
  <2> QED BY <2>1, <2>2, <2>3, <2>4, <2>5, <2>6, <2>7 DEF LoadsType, TypeOK
<1>2. MountsInOrder /\ ControlsFit /\ SpinnerMeansOut
  BY <1>1, ViewFacts DEF Init, MountsInOrder, ControlsFit, SpinnerMeansOut, Views
<1>3. LastFits /\ SettledShowsSelection
  BY DEF Init, LastFits, SettledShowsSelection
<1>4. ShownPageExists /\ ChecksFollow /\ IntegrityOfRange
  BY <1>1, ViewFacts DEF Init, ShownPageExists, ChecksFollow, IntegrityOfRange, Views
<1> QED BY <1>1, <1>2, <1>3, <1>4 DEF LoadsIInv

\* Every step of the views, their loads and their intervals keeps the
\* inductive invariant.
LEMMA LoadsStep ==
  ASSUME LoadsIInv, [Next]_vars
  PROVE  LoadsIInv'
<1>1. ASSUME NEW s \in Slots, NEW n \in 1 .. MaxSame, Over(s, n)
      PROVE  LoadsIInv'
  <2>1. PICK r \in out : /\ r.slot = s
                         /\ (\E k \in PagesOf(s) : Answered(r, k)) \/ Failed(r)
    BY <1>1 DEF Over
  <2> QED BY <2>1, AnsweredKeeps, FailedKeeps
<1> QED BY <1>1, MountKeeps, TickKeeps, ControlKeeps, QuietKeeps DEF Next

\* However loads overlap, fail, outlive their view or are repeated by an
\* interval, the inductive invariant holds.
THEOREM LoadsInvariant == Spec => []LoadsIInv
<1>1. Init => LoadsIInv
  BY LoadsStart
<1>2. LoadsIInv /\ [Next]_vars => LoadsIInv'
  BY LoadsStep
<1> QED BY <1>1, <1>2, PTL DEF Spec

\* A view shows what its controls select when the load it sent last was the
\* last one answered, whatever other loads of the slot were or are out.
THEOREM SettledViewIsRight == Spec => []SettledShowsSelection
<1>1. LoadsIInv => SettledShowsSelection
  BY DEF LoadsIInv
<1> QED BY <1>1, LoadsInvariant, PTL

\* No loading flag of monitorStore is left up, no list view is on a page past
\* its total, and the integrity panel of ThreatsView is the period's.
THEOREM LoadsAreClean == Spec => []LoadsInv
<1>1. LoadsIInv => LoadsInv
  BY DEF LoadsIInv, LoadsInv, LoadsType
<1> QED BY <1>1, LoadsInvariant, PTL
=============================================================================
