-------------------------- MODULE RateLimiterProofs --------------------------
(***************************************************************************)
(* Proofs about RateLimiter, for any keys, limit, window and bounds.       *)
(***************************************************************************)
EXTENDS RateLimiter, FiniteSetTheorems, TLAPS

USE RateLimiterAssumptions

\* A request is accounted to a key.
LEMMA KeyOfRequest ==
  ASSUME NEW peer \in Remote \cup Local, NEW head \in Heads
  PROVE  clientIP(peer, head) \in Keys /\ Source(peer, head) \in Keys
BY DEF clientIP, Source, Keys, Heads

\* What the refinement needs of the types: the clock and the windows are
\* naturals.
WindowType ==
  now \in Nat /\ n \in [Keys -> Nat] /\ reset \in [Keys -> Nat]

LEMMA WindowTypeStep ==
  ASSUME WindowType, [Next]_vars
  PROVE  WindowType'
<1> USE DEF WindowType
<1>1. ASSUME NEW peer \in Remote \cup Local, NEW head \in Heads, Request(peer, head)
      PROVE  WindowType'
  BY <1>1, KeyOfRequest DEF Request, OpenWindow, Count, Refuse
<1>2. CASE Sweep
  BY <1>2 DEF Sweep
<1>3. CASE Tick
  BY <1>3 DEF Tick, Times
<1>4. CASE UNCHANGED vars
  BY <1>4 DEF vars
<1> QED
  BY <1>1, <1>2, <1>3, <1>4 DEF Next

usedBar  == [k \in Keys |-> IF RolledOver(k) THEN 0 ELSE n[k]]
untilBar == [k \in Keys |-> IF RolledOver(k) THEN 0 ELSE reset[k]]

\* A window is open in RateBudget exactly when allow finds it running.
LEMMA OpenIsRunning ==
  ASSUME WindowType, NEW k \in Keys
  PROVE  Budget!Open(k, now) <=> ~RolledOver(k)
BY DEF WindowType, Budget!Open, RolledOver

LEMMA BudgetStep ==
  ASSUME WindowType, [Next]_vars
  PROVE  [Budget!Next]_<<now, usedBar, untilBar>>
<1> USE DEF WindowType
<1>1. ASSUME NEW peer \in Remote \cup Local, NEW head \in Heads, Request(peer, head)
      PROVE  [Budget!Next]_<<now, usedBar, untilBar>>
  <2> DEFINE k == clientIP(peer, head)
  <2>1. k \in Keys
    BY KeyOfRequest
  <2> HIDE DEF k
  <2>2. CASE OpenWindow(peer, head)
    <3>1. RolledOver(k) /\ ~Budget!Open(k, now)
      BY <2>1, <2>2, OpenIsRunning DEF OpenWindow, k
    <3>2. now' = now /\ n' = [n EXCEPT ![k] = 1] /\ reset' = [reset EXCEPT ![k] = now + Window]
      BY <2>2 DEF OpenWindow, k
    <3>3. usedBar' = [usedBar EXCEPT ![k] = 1] /\ untilBar' = [untilBar EXCEPT ![k] = now + Window]
      <4>1. ASSUME NEW j \in Keys
            PROVE  /\ j # k => (RolledOver(j)' <=> RolledOver(j)) /\ n'[j] = n[j] /\ reset'[j] = reset[j]
                   /\ j = k => ~RolledOver(j)' /\ n'[j] = 1 /\ reset'[j] = now + Window
        BY <2>1, <3>2 DEF RolledOver
      <4>2. usedBar' = [j \in Keys |-> IF j = k THEN 1 ELSE usedBar[j]]
        BY <4>1 DEF usedBar
      <4>3. untilBar' = [j \in Keys |-> IF j = k THEN now + Window ELSE untilBar[j]]
        BY <4>1 DEF untilBar
      <4> QED
        BY <4>2, <4>3 DEF usedBar, untilBar
    <3> QED
      BY <2>1, <3>1, <3>2, <3>3 DEF Budget!Next, Budget!Grant, usedBar, untilBar
  <2>3. CASE Count(peer, head)
    <3>1. ~RolledOver(k) /\ Budget!Open(k, now) /\ n[k] < Limit
      BY <2>1, <2>3, OpenIsRunning DEF Count, k
    <3>2. now' = now /\ n' = [n EXCEPT ![k] = n[k] + 1] /\ reset' = reset
      BY <2>3 DEF Count, k
    <3>3. usedBar' = [usedBar EXCEPT ![k] = usedBar[k] + 1] /\ untilBar' = untilBar
      <4>1. ASSUME NEW j \in Keys
            PROVE  /\ RolledOver(j)' <=> RolledOver(j)
                   /\ reset'[j] = reset[j]
                   /\ n'[j] = IF j = k THEN n[j] + 1 ELSE n[j]
        BY <2>1, <3>1, <3>2 DEF RolledOver
      <4>2. usedBar' = [j \in Keys |-> IF j = k THEN usedBar[k] + 1 ELSE usedBar[j]]
        BY <2>1, <3>1, <4>1 DEF usedBar
      <4>3. untilBar' = untilBar
        BY <4>1 DEF untilBar
      <4> QED
        BY <4>2, <4>3 DEF usedBar
    <3>4. usedBar[k] < Limit /\ untilBar = [untilBar EXCEPT ![k] = untilBar[k]]
      BY <2>1, <3>1 DEF usedBar, untilBar
    <3> QED
      BY <2>1, <3>1, <3>2, <3>3, <3>4 DEF Budget!Next, Budget!Grant, usedBar, untilBar
  <2>4. CASE Refuse(peer, head)
    BY <2>4 DEF Refuse, usedBar, untilBar, RolledOver
  <2> QED
    BY <1>1, <2>2, <2>3, <2>4 DEF Request
<1>2. CASE Sweep
  BY <1>2 DEF Sweep, usedBar, untilBar, RolledOver
<1>3. CASE Tick
  <2>1. now' = now + 1 /\ n' = n /\ reset' = reset
    BY <1>3 DEF Tick
  <2>2. ASSUME NEW k \in Keys
        PROVE  Budget!Open(k, now') <=> ~RolledOver(k)'
    BY <2>1 DEF Budget!Open, RolledOver
  <2>3. usedBar' = [k \in Keys |-> IF Budget!Open(k, now') THEN usedBar[k] ELSE 0]
    BY <2>1, <2>2 DEF usedBar, RolledOver
  <2>4. untilBar' = [k \in Keys |-> IF Budget!Open(k, now') THEN untilBar[k] ELSE 0]
    BY <2>1, <2>2 DEF untilBar, RolledOver
  <2> QED
    BY <2>1, <2>3, <2>4 DEF Budget!Next, Budget!Tick, usedBar, untilBar
<1>4. CASE UNCHANGED vars
  BY <1>4 DEF vars, usedBar, untilBar, RolledOver
<1> QED
  BY <1>1, <1>2, <1>3, <1>4 DEF Next

\* The limiter implements RateBudget for every limit, window and
\* set of callers: the sweeper, whenever it runs, takes no budget back
\* and gives none away, and no key draws on another's.
THEOREM LimiterKeepsBudget == Spec => ImplementsBudget
<1>1. Init => WindowType /\ Budget!Init
  BY DEF Init, WindowType, Budget!Init, RolledOver
<1>2. WindowType /\ [Next]_vars => WindowType' /\ [Budget!Next]_Budget!budgetVars
  BY WindowTypeStep, BudgetStep DEF Budget!budgetVars, usedBar, untilBar
<1> QED
  BY <1>1, <1>2, PTL DEF Spec, ImplementsBudget, Budget!Spec

-----------------------------------------------------------------------------
(***************************************************************************)
(* The burst bound and the refusals.  The inductive invariant says, per    *)
(* key, what the last window owes to the log of granted events.            *)
(***************************************************************************)

Logs == [Times -> 0 .. MaxEvents]

\* Any part of a log is finite.
LEMMA EventsFinite ==
  ASSUME NEW l, NEW ts
  PROVE  IsFiniteSet(EventsIn(l, ts)) /\ Cardinality(EventsIn(l, ts)) \in Nat
<1>1. IsFiniteSet(Times) /\ IsFiniteSet(1 .. MaxEvents)
  BY FS_Interval DEF Times
<1>2. IsFiniteSet(Times \X (1 .. MaxEvents))
  BY <1>1, FS_Product
<1>3. EventsIn(l, ts) \in SUBSET (Times \X (1 .. MaxEvents))
  BY DEF EventsIn
<1> QED
  BY <1>2, <1>3, FS_Subset, FS_CardinalityType

\* Instants that hold all of a stretch's events hold at least as many, and
\* more when they hold one besides.
LEMMA EventsMono ==
  ASSUME NEW l \in Logs, NEW ts, NEW us,
         \A t \in Times : t \in ts /\ l[t] # 0 => t \in us
  PROVE  /\ Cardinality(EventsIn(l, ts)) <= Cardinality(EventsIn(l, us))
         /\ (\E t \in Times : t \in us /\ t \notin ts /\ l[t] # 0) =>
              Cardinality(EventsIn(l, ts)) < Cardinality(EventsIn(l, us))
<1>1. EventsIn(l, ts) \in SUBSET EventsIn(l, us)
  BY DEF EventsIn, Logs
<1>2. ASSUME NEW t \in Times, t \in us, t \notin ts, l[t] # 0
      PROVE  EventsIn(l, ts) # EventsIn(l, us)
  <2>1. 1 <= l[t] /\ 1 \in 1 .. MaxEvents
    BY <1>2 DEF Logs
  <2>2. <<t, 1>> \in EventsIn(l, us) /\ <<t, 1>> \notin EventsIn(l, ts)
    BY <1>2, <2>1 DEF EventsIn
  <2> QED
    BY <2>2
<1> QED
  BY <1>1, <1>2, EventsFinite, FS_Subset

\* The events of a stretch are at most those of two that cover it.
LEMMA EventsSplit ==
  ASSUME NEW l \in Logs, NEW ts, NEW us, NEW ws,
         \A t \in Times : t \in ts /\ l[t] # 0 => t \in us \/ t \in ws
  PROVE  Cardinality(EventsIn(l, ts)) <=
           Cardinality(EventsIn(l, us)) + Cardinality(EventsIn(l, ws))
<1> DEFINE U == EventsIn(l, us) W == EventsIn(l, ws)
<1>1. EventsIn(l, ts) \in SUBSET (U \cup W)
  BY DEF EventsIn, Logs
<1>2. /\ IsFiniteSet(U) /\ IsFiniteSet(W)
      /\ Cardinality(U) \in Nat /\ Cardinality(W) \in Nat
      /\ Cardinality(EventsIn(l, ts)) \in Nat
  BY EventsFinite
<1> HIDE DEF U, W
<1>3. IsFiniteSet(U \cup W) /\ Cardinality(U \cup W) = Cardinality(U) + Cardinality(W) - Cardinality(U \cap W)
  BY <1>2, FS_Union
<1>4. IsFiniteSet(U \cap W)
  BY <1>2, FS_Intersection
<1>5. Cardinality(U \cap W) \in Nat
  BY <1>4, FS_CardinalityType
<1>6. Cardinality(EventsIn(l, ts)) <= Cardinality(U \cup W)
  BY <1>1, <1>3, FS_Subset
<1> QED
  BY <1>2, <1>3, <1>5, <1>6 DEF U, W

\* One more event at t adds one to the stretches that hold t.
LEMMA EventsGrant ==
  ASSUME NEW l \in Logs, NEW t \in Times, l[t] < MaxEvents, NEW ts
  PROVE  LET m == [l EXCEPT ![t] = @ + 1]
         IN  Cardinality(EventsIn(m, ts)) =
               IF t \in ts THEN Cardinality(EventsIn(l, ts)) + 1
                           ELSE Cardinality(EventsIn(l, ts))
<1> DEFINE m == [l EXCEPT ![t] = @ + 1]
           e == <<t, l[t] + 1>>
<1>1. e \in Times \X (1 .. MaxEvents) /\ e \notin EventsIn(l, ts)
  BY DEF EventsIn, Logs
<1>2. CASE t \in ts
  <2>1. ASSUME NEW x \in Times \X (1 .. MaxEvents)
        PROVE  x \in EventsIn(m, ts) <=> x \in EventsIn(l, ts) \/ x = e
    <3>1. PICK u \in Times, i \in 1 .. MaxEvents : x = <<u, i>>
      OBVIOUS
    <3>2. m[u] = IF u = t THEN l[u] + 1 ELSE l[u]
      BY DEF Logs
    <3>3. l[u] \in 0 .. MaxEvents /\ l[t] \in 0 .. MaxEvents
      BY DEF Logs
    <3> QED
      BY <1>2, <3>1, <3>2, <3>3 DEF EventsIn
  <2>2. EventsIn(m, ts) = EventsIn(l, ts) \cup {e}
    BY <1>1, <2>1 DEF EventsIn
  <2> QED
    BY <1>1, <1>2, <2>2, EventsFinite, FS_AddElement
<1>3. CASE t \notin ts
  <2>1. EventsIn(m, ts) = EventsIn(l, ts)
    BY <1>3 DEF EventsIn, Logs
  <2> QED
    BY <1>3, <2>1
<1> QED
  BY <1>2, <1>3

LogType ==
  /\ now \in Times
  /\ n \in [Keys -> Nat] /\ reset \in [Keys -> Nat]
  /\ log \in [Keys -> Logs]
  /\ refusal \in [key : Heads, at : Times, secs : Nat]

\* Nothing is granted ahead of the clock.
NoFutureEvent == \A k \in Keys, t \in Times : t > now => log[k][t] = 0

\* A key without an entry was swept or never seen: nothing at this instant,
\* and less than a budget within the last window.
Idle(k) ==
  /\ log[k][now] = 0
  /\ GrantedIn(k, now - Window + 1 .. now) < Limit

Opened(k) == reset[k] - Window

\* A key with an entry: its window opened with an event and counts exactly the
\* events since, none of them is later than the window, and the stretch of one
\* window before it holds less than a budget.
Counted(k) ==
  /\ Opened(k) \in Times /\ Opened(k) <= now
  /\ n[k] <= Limit
  /\ log[k][Opened(k)] > 0
  /\ GrantedIn(k, Opened(k) .. reset[k] - 1) = n[k]
  /\ \A t \in Times : t >= reset[k] => log[k][t] = 0
  /\ GrantedIn(k, Opened(k) - Window + 1 .. Opened(k) - 1) < Limit

WindowsMatchLog == \A k \in Keys : IF n[k] = 0 THEN Idle(k) ELSE Counted(k)

\* The refused window is the one the refusal spoke of until it is over: it is
\* running at the refusal's own instant, and later it is gone, was replaced by
\* one opened later, or ends within the time promised.
RefusalWindow ==
  refusal # NoRefusal =>
    /\ refusal.key \in Keys /\ refusal.at <= now
    /\ now = refusal.at => ~RolledOver(refusal.key)
    /\ \/ n[refusal.key] = 0
       \/ reset[refusal.key] > refusal.at + Window
       \/ reset[refusal.key] <= refusal.at + (refusal.secs + 1) * TicksPerSec - 1

LimiterIInv ==
  /\ LogType
  /\ NoFutureEvent
  /\ WindowsMatchLog
  /\ BurstBound
  /\ RefusedOnlyWhenSpent
  /\ RefusalWindow

\* A remote peer cannot choose its key, and the proxy cannot be mistaken for
\* one: the key allow counts under is the source of the request.
LEMMA KeyIsSource ==
  ASSUME NEW peer \in Remote \cup Local, NEW head \in Heads
  PROVE  clientIP(peer, head) = Source(peer, head)
BY CallerAssumptions DEF clientIP, Source, Heads

\* A stretch without events counts zero.
LEMMA EventsNone ==
  ASSUME NEW l \in Logs, NEW ts, \A t \in Times : t \in ts => l[t] = 0
  PROVE  Cardinality(EventsIn(l, ts)) = 0
<1>1. EventsIn(l, ts) = {}
  BY DEF EventsIn, Logs
<1> QED
  BY <1>1, FS_EmptySet

\* A window that is over leaves its key as idle as one without an entry: this
\* is why the sweep may drop it and why the next event may open a new one.
LEMMA OverIsIdle ==
  ASSUME LimiterIInv, NEW k \in Keys, RolledOver(k)
  PROVE  Idle(k)
<1>1. CASE n[k] = 0
  BY <1>1 DEF LimiterIInv, WindowsMatchLog
<1>2. CASE n[k] # 0
  <2> DEFINE o == Opened(k)
  <2>1. Counted(k) /\ now >= reset[k]
    BY <1>2 DEF LimiterIInv, WindowsMatchLog, RolledOver
  <2>2. log[k] \in Logs /\ now \in Nat /\ reset[k] \in Nat /\ n[k] \in Nat
    BY DEF LimiterIInv, LogType, Times
  <2>3. o \in Times /\ log[k][o] # 0 /\ o = reset[k] - Window
    BY <2>1, <2>2 DEF Counted, Opened, Logs
  <2> HIDE DEF o
  <2>4. \A t \in Times : t \in now - Window + 1 .. now /\ log[k][t] # 0 => t \in o .. reset[k] - 1
    <3> SUFFICES ASSUME NEW t \in Times, t \in now - Window + 1 .. now, log[k][t] # 0
                 PROVE  t \in o .. reset[k] - 1
      OBVIOUS
    <3>1. t < reset[k]
      <4>1. \A u \in Times : u >= reset[k] => log[k][u] = 0
        BY <2>1 DEF Counted
      <4>2. ~(t >= reset[k])
        BY <4>1
      <4> QED BY <2>2, <4>2 DEF Times
    <3>2. o <= t
      BY <2>1, <2>2, <2>3 DEF Times
    <3> QED BY <2>2, <2>3, <3>1, <3>2 DEF Times
  <2>5. o \in o .. reset[k] - 1 /\ o \notin now - Window + 1 .. now
    BY <2>1, <2>2, <2>3 DEF Times
  <2>6. GrantedIn(k, now - Window + 1 .. now) < GrantedIn(k, o .. reset[k] - 1)
    BY <2>2, <2>3, <2>4, <2>5, EventsMono DEF GrantedIn
  <2>7. GrantedIn(k, o .. reset[k] - 1) <= Limit
    BY <2>1, <2>2 DEF Counted, o
  <2>8. GrantedIn(k, now - Window + 1 .. now) \in Nat /\ GrantedIn(k, o .. reset[k] - 1) \in Nat
    BY EventsFinite DEF GrantedIn
  <2>9. log[k][now] = 0
    BY <2>1 DEF Counted, LimiterIInv, LogType
  <2> QED
    BY <2>6, <2>7, <2>8, <2>9 DEF Idle
<1> QED
  BY <1>1, <1>2

\* Of the other keys a grant changes nothing, of its own one entry of the log.
LEMMA GrantLogs ==
  ASSUME LimiterIInv, NEW k \in Keys, log[k][now] < MaxEvents,
         log' = [log EXCEPT ![k][now] = @ + 1]
  PROVE  /\ log' \in [Keys -> Logs]
         /\ log'[k] = [log[k] EXCEPT ![now] = @ + 1]
         /\ \A j \in Keys : j # k => log'[j] = log[j]
         /\ \A t \in Times : log'[k][t] = IF t = now THEN log[k][t] + 1 ELSE log[k][t]
<1>1. now \in Times /\ log \in [Keys -> Logs] /\ log[k] \in Logs
  BY DEF LimiterIInv, LogType
<1>2. log'[k] = [log[k] EXCEPT ![now] = @ + 1] /\ \A j \in Keys : j # k => log'[j] = log[j]
  BY <1>1
<1>3. \A t \in Times : log'[k][t] = IF t = now THEN log[k][t] + 1 ELSE log[k][t]
  BY <1>1, <1>2 DEF Logs
<1>4. [log[k] EXCEPT ![now] = @ + 1] \in Logs
  BY <1>1 DEF Logs
<1>5. log' \in [Keys -> Logs]
  BY <1>1, <1>4
<1> QED
  BY <1>2, <1>3, <1>5

\* ... and the counts of its own key grow by the event.
LEMMA GrantCounts ==
  ASSUME LimiterIInv, NEW k \in Keys, log[k][now] < MaxEvents,
         log' = [log EXCEPT ![k][now] = @ + 1], NEW ts
  PROVE  Cardinality(EventsIn(log'[k], ts)) =
           IF now \in ts THEN Cardinality(EventsIn(log[k], ts)) + 1
                         ELSE Cardinality(EventsIn(log[k], ts))
<1>1. log[k] \in Logs /\ now \in Times
  BY DEF LimiterIInv, LogType
<1>2. log'[k] = [log[k] EXCEPT ![now] = @ + 1]
  BY GrantLogs
<1> QED
  BY <1>1, <1>2, EventsGrant

\* A grant keeps what a refusal was earned by.
LEMMA GrantKeepsSpent ==
  ASSUME LimiterIInv, NEW k \in Keys, log[k][now] < MaxEvents,
         log' = [log EXCEPT ![k][now] = @ + 1], refusal' = refusal
  PROVE  RefusedOnlyWhenSpent'
<1>1. SUFFICES ASSUME refusal # NoRefusal
      PROVE  Cardinality(EventsIn(log'[refusal.key], refusal.at - Window + 1 .. refusal.at)) >= Limit
  BY DEF RefusedOnlyWhenSpent, GrantedIn, NoRefusal
<1> DEFINE r == refusal.key
           ts == refusal.at - Window + 1 .. refusal.at
<1>2. r \in Keys /\ Cardinality(EventsIn(log[r], ts)) >= Limit
  BY <1>1 DEF LimiterIInv, RefusalWindow, RefusedOnlyWhenSpent, GrantedIn
<1>3. Cardinality(EventsIn(log[r], ts)) \in Nat
  BY EventsFinite
<1> HIDE DEF r, ts
<1>4. CASE r = k
  <2>1. Cardinality(EventsIn(log'[k], ts)) =
          IF now \in ts THEN Cardinality(EventsIn(log[k], ts)) + 1
                        ELSE Cardinality(EventsIn(log[k], ts))
    BY GrantCounts
  <2> QED
    BY <1>2, <1>3, <1>4, <2>1 DEF r, ts
<1>5. CASE r # k
  <2>1. log'[r] = log[r]
    BY <1>2, <1>5, GrantLogs
  <2> QED
    BY <1>2, <2>1 DEF r, ts
<1> QED
  BY <1>4, <1>5

\* Stretches that a key's own event does not touch, or another key's, keep
\* their count; so a grant leaves the other keys as they were.
LEMMA GrantElsewhere ==
  ASSUME LimiterIInv, NEW k \in Keys, log[k][now] < MaxEvents,
         log' = [log EXCEPT ![k][now] = @ + 1], now' = now,
         NEW j \in Keys, j # k, n'[j] = n[j], reset'[j] = reset[j]
  PROVE  /\ (IF n[j] = 0 THEN Idle(j) ELSE Counted(j))'
         /\ \A t \in Times : Cardinality(EventsIn(log'[j], t .. t + Window - 1)) < 2 * Limit
<1>1. log'[j] = log[j]
  BY GrantLogs
<1>2. IF n[j] = 0 THEN Idle(j) ELSE Counted(j)
  BY DEF LimiterIInv, WindowsMatchLog
<1>3. \A t \in Times : Cardinality(EventsIn(log[j], t .. t + Window - 1)) < 2 * Limit
  BY DEF LimiterIInv, BurstBound, GrantedIn
<1> QED
  BY <1>1, <1>2, <1>3 DEF Idle, Counted, Opened, GrantedIn

\* The first event of a window: the key was idle, so nothing is counted in the
\* new window yet and less than a budget just before it.
LEMMA OpenKeepsWindow ==
  ASSUME LimiterIInv, NEW k \in Keys, RolledOver(k), log[k][now] < MaxEvents,
         log' = [log EXCEPT ![k][now] = @ + 1], now' = now,
         n'[k] = 1, reset'[k] = now + Window
  PROVE  /\ Counted(k)'
         /\ \A t \in Times : Cardinality(EventsIn(log'[k], t .. t + Window - 1)) < 2 * Limit
<1> DEFINE C(ts) == Cardinality(EventsIn(log[k], ts))
           D(ts) == Cardinality(EventsIn(log'[k], ts))
<1>1. log[k] \in Logs /\ now \in Times /\ now \in Nat
  BY DEF LimiterIInv, LogType, Times
<1>2. log[k][now] = 0 /\ C(now - Window + 1 .. now) < Limit
  BY OverIsIdle DEF Idle, GrantedIn
<1>3. \A t \in Times : t >= now => log[k][t] = 0
  BY <1>1, <1>2 DEF LimiterIInv, NoFutureEvent, Times
<1>4. \A t \in Times : log'[k][t] = IF t = now THEN 1 ELSE log[k][t]
  <2>1. \A t \in Times : log'[k][t] = IF t = now THEN log[k][t] + 1 ELSE log[k][t]
    BY GrantLogs
  <2> QED
    BY <1>2, <2>1
<1>5. ASSUME NEW ts PROVE D(ts) = IF now \in ts THEN C(ts) + 1 ELSE C(ts)
  BY GrantCounts
<1>6. ASSUME NEW ts PROVE C(ts) \in Nat
  BY EventsFinite
<1>7. D(now .. now + Window - 1) = 1
  <2>1. C(now .. now + Window - 1) = 0
    <3>1. \A t \in Times : t \in now .. now + Window - 1 => log[k][t] = 0
      BY <1>1, <1>3 DEF Times
    <3> QED BY <1>1, <3>1, EventsNone
  <2>2. now \in now .. now + Window - 1
    BY <1>1
  <2>3. D(now .. now + Window - 1) = C(now .. now + Window - 1) + 1
    BY <1>5, <2>2
  <2> HIDE DEF C, D
  <2> QED
    BY <2>1, <2>3
<1>8. D(now - Window + 1 .. now - 1) < Limit
  <2>1. now \notin now - Window + 1 .. now - 1
    BY <1>1
  <2>2. C(now - Window + 1 .. now - 1) <= C(now - Window + 1 .. now)
    <3>1. \A t \in Times : t \in now - Window + 1 .. now - 1 /\ log[k][t] # 0 => t \in now - Window + 1 .. now
      BY <1>1
    <3> QED
      BY <1>1, <3>1, EventsMono
  <2>3. D(now - Window + 1 .. now - 1) = C(now - Window + 1 .. now - 1)
    BY <1>5, <2>1
  <2>4. C(now - Window + 1 .. now - 1) \in Nat /\ C(now - Window + 1 .. now) \in Nat
    BY <1>6
  <2> HIDE DEF C, D
  <2> QED
    BY <1>2, <2>2, <2>3, <2>4
<1>9. ASSUME NEW t \in Times PROVE D(t .. t + Window - 1) < 2 * Limit
  <2>1. CASE now \notin t .. t + Window - 1
    <3>1. C(t .. t + Window - 1) < 2 * Limit
      BY DEF LimiterIInv, BurstBound, GrantedIn
    <3> QED
      BY <1>5, <2>1, <3>1
  <2>2. CASE now \in t .. t + Window - 1
    <3>1. C(t .. t + Window - 1) <= C(now - Window + 1 .. now)
      <4>1. \A u \in Times : u \in t .. t + Window - 1 /\ log[k][u] # 0 => u \in now - Window + 1 .. now
        BY <1>1, <1>3, <2>2 DEF Times
      <4> QED
        BY <1>1, <4>1, EventsMono
    <3>2. D(t .. t + Window - 1) = C(t .. t + Window - 1) + 1
      BY <1>5, <2>2
    <3>3. C(t .. t + Window - 1) \in Nat /\ C(now - Window + 1 .. now) \in Nat
      BY <1>6
    <3> HIDE DEF C, D
    <3> QED
      BY <1>2, <3>1, <3>2, <3>3
  <2> QED
    BY <2>1, <2>2
<1>10. \A t \in Times : t >= now + Window => log'[k][t] = 0
  BY <1>1, <1>3, <1>4 DEF Times
<1>11. now + Window - Window = now /\ log'[k][now] > 0
  BY <1>1, <1>4
<1>12. Counted(k)'
  BY <1>1, <1>7, <1>8, <1>10, <1>11 DEF Counted, Opened, GrantedIn
<1> QED
  BY <1>9, <1>12

\* A later event of a running window: it is counted in the window, and any
\* stretch that holds it is covered by the window and the one before it.
LEMMA CountKeepsWindow ==
  ASSUME LimiterIInv, NEW k \in Keys, ~RolledOver(k), n[k] < Limit, log[k][now] < MaxEvents,
         log' = [log EXCEPT ![k][now] = @ + 1], now' = now,
         n'[k] = n[k] + 1, reset'[k] = reset[k]
  PROVE  /\ Counted(k)'
         /\ \A t \in Times : Cardinality(EventsIn(log'[k], t .. t + Window - 1)) < 2 * Limit
<1> DEFINE C(ts) == Cardinality(EventsIn(log[k], ts))
           D(ts) == Cardinality(EventsIn(log'[k], ts))
           o == reset[k] - Window
           r == reset[k]
<1>1. log[k] \in Logs /\ now \in Times /\ now \in Nat /\ r \in Nat /\ n[k] \in Nat
  BY DEF LimiterIInv, LogType, Times
<1>2. n[k] # 0 /\ now < r
  BY <1>1 DEF RolledOver
<1>3. /\ o \in Times /\ o <= now /\ log[k][o] > 0
      /\ C(o .. r - 1) = n[k]
      /\ \A t \in Times : t >= r => log[k][t] = 0
      /\ C(o - Window + 1 .. o - 1) < Limit
  BY <1>2 DEF LimiterIInv, WindowsMatchLog, Counted, Opened, GrantedIn
<1>4. /\ \A t \in Times : log'[k][t] = IF t = now THEN log[k][t] + 1 ELSE log[k][t]
      /\ log'[k] \in Logs
  BY GrantLogs
<1>5. ASSUME NEW ts PROVE D(ts) = IF now \in ts THEN C(ts) + 1 ELSE C(ts)
  BY GrantCounts
<1>6. ASSUME NEW ts PROVE C(ts) \in Nat /\ D(ts) \in Nat
  BY EventsFinite
<1>7. D(o .. r - 1) = n[k] + 1
  <2>1. now \in o .. r - 1
    BY <1>1, <1>2, <1>3 DEF Times
  <2>2. D(o .. r - 1) = C(o .. r - 1) + 1
    BY <1>5, <2>1
  <2> HIDE DEF C, D
  <2> QED
    BY <1>3, <2>2
<1>8. D(o - Window + 1 .. o - 1) < Limit
  <2>1. now \notin o - Window + 1 .. o - 1
    BY <1>1, <1>3
  <2> QED
    BY <1>3, <1>5, <2>1
<1>9. \A t \in Times : t >= r => log'[k][t] = 0
  BY <1>1, <1>2, <1>3, <1>4
<1>10. log'[k][o] > 0
  <2>1. o \in Times /\ log[k][o] > 0
    BY <1>3
  <2> HIDE DEF o
  <2>2. log[k][o] \in Nat
    BY <1>1, <2>1 DEF Logs
  <2> QED
    BY <1>4, <2>1, <2>2
<1>11. ASSUME NEW t \in Times PROVE D(t .. t + Window - 1) < 2 * Limit
  <2>1. CASE now \notin t .. t + Window - 1
    <3>1. C(t .. t + Window - 1) < 2 * Limit
      BY DEF LimiterIInv, BurstBound, GrantedIn
    <3> QED
      BY <1>5, <2>1, <3>1
  <2>2. CASE now \in t .. t + Window - 1
    <3>1. \A u \in Times : u \in t .. t + Window - 1 /\ log'[k][u] # 0
                             => u \in o - Window + 1 .. o - 1 \/ u \in o .. r - 1
      <4>1. o \in Int /\ o <= now /\ o = r - Window /\ r \in Nat /\ now \in Nat /\ now < r
        BY <1>1, <1>2, <1>3
      <4>2. t \in Nat /\ t <= now /\ now <= t + Window - 1
        BY <1>1, <2>2 DEF Times
      <4> HIDE DEF o, r
      <4> QED
        BY <1>9, <4>1, <4>2 DEF Times
    <3>2. D(t .. t + Window - 1) <= D(o - Window + 1 .. o - 1) + D(o .. r - 1)
      BY <1>4, <3>1, EventsSplit
    <3>3. /\ D(t .. t + Window - 1) \in Nat /\ D(o - Window + 1 .. o - 1) \in Nat
          /\ D(o .. r - 1) \in Nat
      BY <1>6
    <3>4. n[k] + 1 <= Limit /\ n[k] \in Nat
      BY <1>1
    <3> HIDE DEF D, o, r
    <3> QED
      BY <1>7, <1>8, <3>2, <3>3, <3>4
  <2> QED
    BY <2>1, <2>2
<1>12. Counted(k)'
  BY <1>1, <1>3, <1>7, <1>8, <1>9, <1>10 DEF Counted, Opened, GrantedIn
<1> QED
  BY <1>11, <1>12

\* Both ways allow grants: the key's window is accounted for, the other keys
\* are as they were, and a refused window was not reopened at its instant.
LEMMA GrantStep ==
  ASSUME LimiterIInv, NEW peer \in Remote \cup Local, NEW head \in Heads,
         OpenWindow(peer, head) \/ Count(peer, head)
  PROVE  LimiterIInv'
<1> DEFINE k == clientIP(peer, head)
<1>1. k \in Keys /\ k = Source(peer, head)
  BY KeyOfRequest, KeyIsSource
<1> HIDE DEF k
<1>2. /\ log[k][now] < MaxEvents /\ log' = [log EXCEPT ![k][now] = @ + 1]
      /\ now' = now /\ refusal' = refusal
  BY <1>1 DEF OpenWindow, Count, Granted, k
<1>3. /\ n \in [Keys -> Nat] /\ reset \in [Keys -> Nat] /\ now \in Nat /\ now \in Times
      /\ n'[k] # 0 /\ n' \in [Keys -> Nat] /\ reset' \in [Keys -> Nat]
      /\ \A j \in Keys : j # k => n'[j] = n[j] /\ reset'[j] = reset[j]
      /\ \/ RolledOver(k) /\ n'[k] = 1 /\ reset'[k] = now + Window
         \/ ~RolledOver(k) /\ n[k] < Limit /\ n'[k] = n[k] + 1 /\ reset'[k] = reset[k]
  <2>1. n \in [Keys -> Nat] /\ reset \in [Keys -> Nat] /\ now \in Nat /\ now \in Times
    BY DEF LimiterIInv, LogType, Times
  <2>2. CASE OpenWindow(peer, head)
    BY <1>1, <2>1, <2>2 DEF OpenWindow, k
  <2>3. CASE Count(peer, head)
    BY <1>1, <2>1, <2>3 DEF Count, k
  <2> QED
    BY <2>2, <2>3
<1>4. LogType'
  <2>1. log' \in [Keys -> Logs]
    BY <1>1, <1>2, GrantLogs
  <2> QED
    BY <1>2, <1>3, <2>1 DEF LimiterIInv, LogType
<1>5. NoFutureEvent'
  <2>1. ASSUME NEW j \in Keys, NEW t \in Times, t > now PROVE log'[j][t] = 0
    <3>1. log[j][t] = 0 /\ t # now
      BY <1>3, <2>1 DEF LimiterIInv, NoFutureEvent, Times
    <3>2. log'[j][t] = log[j][t]
      BY <1>1, <1>2, <3>1, GrantLogs
    <3> QED
      BY <3>1, <3>2
  <2> QED
    BY <1>2, <2>1 DEF NoFutureEvent
<1>6. ASSUME NEW j \in Keys
      PROVE  /\ (IF n[j] = 0 THEN Idle(j) ELSE Counted(j))'
             /\ \A t \in Times : Cardinality(EventsIn(log'[j], t .. t + Window - 1)) < 2 * Limit
  <2>1. CASE j # k
    BY <1>1, <1>2, <1>3, <2>1, GrantElsewhere
  <2>2. CASE RolledOver(k) /\ n'[k] = 1 /\ reset'[k] = now + Window
    <3>1. /\ Counted(k)'
          /\ \A t \in Times : Cardinality(EventsIn(log'[k], t .. t + Window - 1)) < 2 * Limit
      BY <1>1, <1>2, <2>2, OpenKeepsWindow
    <3> QED
      BY <1>3, <2>1, <3>1
  <2>3. CASE ~RolledOver(k) /\ n[k] < Limit /\ n'[k] = n[k] + 1 /\ reset'[k] = reset[k]
    <3>1. /\ Counted(k)'
          /\ \A t \in Times : Cardinality(EventsIn(log'[k], t .. t + Window - 1)) < 2 * Limit
      BY <1>1, <1>2, <2>3, CountKeepsWindow
    <3> QED
      BY <1>3, <2>1, <3>1
  <2> QED
    BY <1>3, <2>2, <2>3
<1>7. WindowsMatchLog' /\ BurstBound'
  BY <1>6 DEF WindowsMatchLog, BurstBound, GrantedIn
<1>8. RefusedOnlyWhenSpent'
  BY <1>1, <1>2, GrantKeepsSpent
<1>9. RefusalWindow'
  <2> SUFFICES ASSUME refusal # NoRefusal
               PROVE  /\ refusal.key \in Keys /\ refusal.at <= now
                      /\ now = refusal.at => ~(n'[refusal.key] = 0 \/ now >= reset'[refusal.key])
                      /\ \/ n'[refusal.key] = 0
                         \/ reset'[refusal.key] > refusal.at + Window
                         \/ reset'[refusal.key] <= refusal.at + (refusal.secs + 1) * TicksPerSec - 1
    BY <1>2 DEF RefusalWindow, RolledOver, NoRefusal
  <2>1. /\ refusal.key \in Keys /\ refusal.at <= now /\ refusal.at \in Nat
        /\ now = refusal.at => ~RolledOver(refusal.key)
        /\ \/ n[refusal.key] = 0
           \/ reset[refusal.key] > refusal.at + Window
           \/ reset[refusal.key] <= refusal.at + (refusal.secs + 1) * TicksPerSec - 1
    BY DEF LimiterIInv, RefusalWindow, LogType, Times
  <2>2. CASE refusal.key # k
    BY <1>3, <2>1, <2>2 DEF RolledOver
  <2>3. CASE refusal.key = k /\ RolledOver(k) /\ n'[k] = 1 /\ reset'[k] = now + Window
    BY <1>3, <2>1, <2>3
  <2>4. CASE refusal.key = k /\ ~RolledOver(k) /\ n'[k] = n[k] + 1 /\ reset'[k] = reset[k]
    BY <1>3, <2>1, <2>4 DEF RolledOver
  <2> QED
    BY <1>3, <2>2, <2>3, <2>4
<1> QED
  BY <1>4, <1>5, <1>7, <1>8, <1>9 DEF LimiterIInv

\* The whole seconds of a duration, and one more, are longer than it.
LEMMA SecondsRoundedUp ==
  ASSUME NEW d \in Nat
  PROVE  /\ d \div TicksPerSec \in Nat
         /\ \A s \in Nat : s >= d \div TicksPerSec => d <= (s + 1) * TicksPerSec - 1
<1> DEFINE q == d \div TicksPerSec
<1>1. q \in Nat /\ d < (q + 1) * TicksPerSec /\ TicksPerSec \in Nat
  BY Z3
<1> HIDE DEF q
<1>2. ASSUME NEW s \in Nat, s >= q PROVE (q + 1) * TicksPerSec <= (s + 1) * TicksPerSec
  BY <1>1, <1>2, Z3
<1>3. ASSUME NEW s \in Nat, s >= q PROVE d <= (s + 1) * TicksPerSec - 1
  <2>1. (q + 1) * TicksPerSec \in Nat /\ (s + 1) * TicksPerSec \in Nat
    BY <1>1
  <2> QED
    BY <1>1, <1>2, <1>3, <2>1
<1> QED
  BY <1>1, <1>3 DEF q

\* A refusal: the window that refuses counts a whole budget, all of it within
\* the last window, and ends within the seconds it promises.
LEMMA RefuseStep ==
  ASSUME LimiterIInv, NEW peer \in Remote \cup Local, NEW head \in Heads,
         Refuse(peer, head)
  PROVE  LimiterIInv'
<1> DEFINE k == clientIP(peer, head)
           s == RetryAfter(k)
           o == reset[k] - Window
<1>1. k \in Keys
  BY KeyOfRequest
<1>2. /\ ~RolledOver(k) /\ n[k] >= Limit /\ refusal' = [key |-> k, at |-> now, secs |-> s]
      /\ now' = now /\ n' = n /\ reset' = reset /\ log' = log
  BY DEF Refuse
<1> HIDE DEF k
<1>3. n[k] \in Nat /\ reset[k] \in Nat /\ now \in Nat /\ now \in Times /\ log[k] \in Logs
  BY <1>1 DEF LimiterIInv, LogType, Times
<1>4. n[k] # 0 /\ now < reset[k]
  BY <1>2, <1>3 DEF RolledOver
<1>5. s \in Nat /\ reset[k] - now <= (s + 1) * TicksPerSec - 1
  <2>1. reset[k] - now \in Nat
    BY <1>3, <1>4
  <2>2. (reset[k] - now) \div TicksPerSec \in Nat
    BY <2>1, SecondsRoundedUp
  <2>3. s \in Nat /\ s >= (reset[k] - now) \div TicksPerSec
    BY <2>2 DEF RetryAfter
  <2> HIDE DEF s
  <2> QED
    BY <2>1, <2>3, SecondsRoundedUp
<1> HIDE DEF s
<1>6. LogType' /\ NoFutureEvent' /\ WindowsMatchLog' /\ BurstBound'
  <2>1. LogType'
    BY <1>1, <1>2, <1>3, <1>5 DEF LimiterIInv, LogType, Heads
  <2>2. NoFutureEvent' /\ BurstBound'
    BY <1>2 DEF LimiterIInv, NoFutureEvent, BurstBound, GrantedIn
  <2>3. WindowsMatchLog'
    BY <1>2 DEF LimiterIInv, WindowsMatchLog, Idle, Counted, Opened, GrantedIn
  <2> QED
    BY <2>1, <2>2, <2>3
<1>7. RefusedOnlyWhenSpent'
  <2>1. o <= now /\ o \in Nat /\ GrantedIn(k, o .. reset[k] - 1) = n[k] /\ NoFutureEvent
    BY <1>1, <1>4 DEF LimiterIInv, WindowsMatchLog, Counted, Opened, Times
  <2>2. \A t \in Times : t \in o .. reset[k] - 1 /\ log[k][t] # 0 => t \in now - Window + 1 .. now
    <3> SUFFICES ASSUME NEW t \in Times, t \in o .. reset[k] - 1, log[k][t] # 0
                 PROVE  t \in now - Window + 1 .. now
      OBVIOUS
    <3>1. ~(t > now)
      BY <1>1, <2>1 DEF NoFutureEvent
    <3>2. o + Window > now
      BY <1>3, <1>4
    <3>3. t \in Nat /\ o <= t
      BY <2>1 DEF Times
    <3> HIDE DEF o
    <3> QED BY <1>3, <2>1, <3>1, <3>2, <3>3
  <2>3. GrantedIn(k, o .. reset[k] - 1) <= GrantedIn(k, now - Window + 1 .. now)
    BY <1>3, <2>2, EventsMono DEF GrantedIn
  <2>4. GrantedIn(k, now - Window + 1 .. now) \in Nat
    BY EventsFinite DEF GrantedIn
  <2>5. GrantedIn(k, now - Window + 1 .. now) >= Limit
    BY <1>2, <1>3, <2>1, <2>3, <2>4
  <2>6. refusal'.key = k /\ refusal'.at = now
    BY <1>2
  <2> QED
    BY <1>2, <2>5, <2>6 DEF RefusedOnlyWhenSpent, GrantedIn
<1>8. RefusalWindow'
  <2>1. refusal'.key = k /\ refusal'.at = now /\ refusal'.secs = s
    BY <1>2
  <2>2. ~RolledOver(k)'
    BY <1>2 DEF RolledOver
  <2>3. (s + 1) * TicksPerSec \in Int
    BY <1>5
  <2>4. reset[k] <= now + (s + 1) * TicksPerSec - 1
    BY <1>3, <1>5, <2>3
  <2> QED
    BY <1>1, <1>2, <1>3, <2>1, <2>2, <2>4 DEF RefusalWindow, RolledOver
<1> QED
  BY <1>6, <1>7, <1>8 DEF LimiterIInv

\* Sweeping a window that is over, at any moment.
LEMMA SweepStep ==
  ASSUME LimiterIInv, Sweep
  PROVE  LimiterIInv'
<1>1. /\ n' = [k \in Keys |-> IF RolledOver(k) THEN 0 ELSE n[k]]
      /\ reset' = [k \in Keys |-> IF RolledOver(k) THEN 0 ELSE reset[k]]
      /\ now' = now /\ log' = log /\ refusal' = refusal
  BY DEF Sweep
<1>2. LogType'
  BY <1>1 DEF LimiterIInv, LogType
<1>3. NoFutureEvent' /\ BurstBound' /\ RefusedOnlyWhenSpent'
  BY <1>1 DEF LimiterIInv, NoFutureEvent, BurstBound, RefusedOnlyWhenSpent, GrantedIn, NoRefusal
<1>4. ASSUME NEW k \in Keys PROVE (IF n[k] = 0 THEN Idle(k) ELSE Counted(k))'
  <2>1. CASE RolledOver(k)
    <3>1. Idle(k) /\ n'[k] = 0
      BY <1>1, <2>1, OverIsIdle
    <3> QED
      BY <1>1, <3>1 DEF Idle, GrantedIn
  <2>2. CASE ~RolledOver(k)
    <3>1. n'[k] = n[k] /\ n[k] # 0 /\ reset'[k] = reset[k] /\ Counted(k)
      BY <1>1, <2>2 DEF RolledOver, LimiterIInv, WindowsMatchLog
    <3> QED
      BY <1>1, <3>1 DEF Counted, Opened, GrantedIn
  <2> QED
    BY <2>1, <2>2
<1>5. RefusalWindow'
  BY <1>1 DEF LimiterIInv, RefusalWindow, RolledOver, NoRefusal
<1> QED
  BY <1>2, <1>3, <1>4, <1>5 DEF LimiterIInv, WindowsMatchLog

LEMMA TickStep ==
  ASSUME LimiterIInv, Tick
  PROVE  LimiterIInv'
<1>1. /\ now' = now + 1 /\ now \in Nat /\ now' \in Times
      /\ n' = n /\ reset' = reset /\ log' = log /\ refusal' = refusal
  BY DEF Tick, LimiterIInv, LogType, Times
<1>2. LogType'
  BY <1>1 DEF LimiterIInv, LogType
<1>3. NoFutureEvent'
  BY <1>1 DEF LimiterIInv, NoFutureEvent, Times
<1>4. BurstBound' /\ RefusedOnlyWhenSpent'
  BY <1>1 DEF LimiterIInv, BurstBound, RefusedOnlyWhenSpent, GrantedIn, NoRefusal
<1>5. ASSUME NEW k \in Keys PROVE (IF n[k] = 0 THEN Idle(k) ELSE Counted(k))'
  <2>1. CASE n[k] = 0
    <3>1. Idle(k) /\ log[k] \in Logs
      BY <2>1 DEF LimiterIInv, WindowsMatchLog, LogType
    <3>2. log[k][now + 1] = 0
      BY <1>1 DEF LimiterIInv, NoFutureEvent
    <3>3. \A t \in Times : t \in now + 1 - Window + 1 .. now + 1 /\ log[k][t] # 0
                             => t \in now - Window + 1 .. now
      BY <1>1, <3>2 DEF Times
    <3>4. GrantedIn(k, now + 1 - Window + 1 .. now + 1) <= GrantedIn(k, now - Window + 1 .. now)
      BY <3>1, <3>3, EventsMono DEF GrantedIn
    <3>5. /\ GrantedIn(k, now + 1 - Window + 1 .. now + 1) \in Nat
          /\ GrantedIn(k, now - Window + 1 .. now) \in Nat
      BY EventsFinite DEF GrantedIn
    <3>6. GrantedIn(k, now + 1 - Window + 1 .. now + 1) < Limit
      BY <3>1, <3>4, <3>5 DEF Idle
    <3> QED
      BY <1>1, <2>1, <3>2, <3>6 DEF Idle, GrantedIn
  <2>2. CASE n[k] # 0
    <3>1. Counted(k)
      BY <2>2 DEF LimiterIInv, WindowsMatchLog
    <3>2. Opened(k) <= now + 1
      BY <1>1, <3>1 DEF Counted, Times
    <3> QED
      BY <1>1, <2>2, <3>1, <3>2 DEF Counted, Opened, GrantedIn
  <2> QED
    BY <2>1, <2>2
<1>6. RefusalWindow'
  <2> SUFFICES ASSUME refusal # NoRefusal PROVE RefusalWindow'
    BY <1>1 DEF RefusalWindow, NoRefusal
  <2>1. refusal.at <= now /\ refusal.at \in Nat
    BY DEF LimiterIInv, RefusalWindow, LogType, Times
  <2>2. refusal.at <= now + 1 /\ now + 1 # refusal.at
    BY <1>1, <2>1
  <2> QED
    BY <1>1, <2>2 DEF LimiterIInv, RefusalWindow, RolledOver, NoRefusal
<1> QED
  BY <1>2, <1>3, <1>4, <1>5, <1>6 DEF LimiterIInv, WindowsMatchLog

LEMMA LimiterInit == Init => LimiterIInv
<1> SUFFICES ASSUME Init PROVE LimiterIInv
  OBVIOUS
<1>1. LogType
  BY DEF Init, LogType, Logs, Times, Heads, NoRefusal
<1>2. ASSUME NEW k \in Keys, NEW ts PROVE GrantedIn(k, ts) = 0
  <2>1. log[k] \in Logs /\ \A t \in Times : log[k][t] = 0
    BY DEF Init, Logs
  <2> QED
    BY <2>1, EventsNone DEF GrantedIn
<1>3. WindowsMatchLog
  BY <1>2 DEF Init, WindowsMatchLog, Idle, Times
<1>4. BurstBound
  BY <1>2 DEF BurstBound
<1>5. NoFutureEvent /\ RefusedOnlyWhenSpent /\ RefusalWindow
  BY DEF Init, NoFutureEvent, RefusedOnlyWhenSpent, RefusalWindow
<1> QED
  BY <1>1, <1>3, <1>4, <1>5 DEF LimiterIInv

LEMMA LimiterStep == LimiterIInv /\ [Next]_vars => LimiterIInv'
<1> SUFFICES ASSUME LimiterIInv, [Next]_vars PROVE LimiterIInv'
  OBVIOUS
<1>1. ASSUME NEW peer \in Remote \cup Local, NEW head \in Heads, Request(peer, head)
      PROVE  LimiterIInv'
  BY <1>1, GrantStep, RefuseStep DEF Request
<1>2. CASE Sweep
  BY <1>2, SweepStep
<1>3. CASE Tick
  BY <1>3, TickStep
<1>4. CASE UNCHANGED vars
  BY <1>4 DEF vars, LimiterIInv, LogType, NoFutureEvent, WindowsMatchLog, Idle, Counted, Opened,
              BurstBound, RefusedOnlyWhenSpent, RefusalWindow, GrantedIn, RolledOver, NoRefusal
<1> QED
  BY <1>1, <1>2, <1>3, <1>4 DEF Next

\* Once the promised seconds and less than one more have passed, the refused
\* window is over.
LEMMA IInvGivesLimiterInv == LimiterIInv => LimiterInv
<1> SUFFICES ASSUME LimiterIInv PROVE LimiterInv
  OBVIOUS
<1>1. TypeOK
  BY DEF LimiterIInv, LogType, TypeOK, Logs
<1>2. RetryAfterSuffices
  <2> SUFFICES ASSUME refusal # NoRefusal,
                      now >= refusal.at + (refusal.secs + 1) * TicksPerSec - 1
               PROVE  RolledOver(refusal.key) \/ reset[refusal.key] > refusal.at + Window
    BY DEF RetryAfterSuffices
  <2> DEFINE p == (refusal.secs + 1) * TicksPerSec
  <2>1. now \in Nat /\ reset[refusal.key] \in Nat /\ refusal.at \in Nat /\ p \in Int
    BY DEF LimiterIInv, LogType, RefusalWindow, Times
  <2>2. \/ n[refusal.key] = 0
        \/ reset[refusal.key] > refusal.at + Window
        \/ reset[refusal.key] <= refusal.at + p - 1
    BY DEF LimiterIInv, RefusalWindow
  <2>3. now >= refusal.at + p - 1
    OBVIOUS
  <2> HIDE DEF p
  <2> QED
    BY <2>1, <2>2, <2>3 DEF RolledOver
<1> QED
  BY <1>1, <1>2 DEF LimiterIInv, LimiterInv

\* For every limit, window and set of callers, in any stretch of one window's
\* length a source is granted less than two budgets, however its events fall
\* around the boundary of its windows and whenever the sweeper runs (allow and
\* sweep of ratelimit.go, clientIP of the same file).
THEOREM BurstIsBounded == Spec => []BurstBound
<1>1. LimiterIInv => BurstBound
  BY DEF LimiterIInv
<1> QED
  BY <1>1, LimiterInit, LimiterStep, PTL DEF Spec

\* A 429 is given only to a key that spent its budget within the last window,
\* and the Retry-After in it is less than a second short of the window's end
\* (rateLimited of ratelimit.go), for every limit, window and clock unit.
THEOREM RefusalsAreEarned == Spec => []LimiterInv
BY LimiterInit, LimiterStep, IInvGivesLimiterInv, PTL DEF Spec
==============================================================================
