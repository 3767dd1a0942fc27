----------------------------- MODULE RateLimiter -----------------------------
(***************************************************************************)
(* The per-IP fixed-window limiter of /bff/login and /bff/elevate          *)
(* (bff/ratelimit.go).  allow and sweep hold the mutex for their whole     *)
(* body, so each is one action; the clock is monotonic.  allow grants      *)
(* everything when the limit is not positive; getint (bff/config.go) falls *)
(* back to the default in that case, so a server never has such a limit.   *)
(***************************************************************************)
EXTENDS Integers, FiniteSets

CONSTANTS
  Remote,        \* TCP peers that are not loopback
  Local,         \* loopback peers: the reverse proxy on the same host
  Clients,       \* addresses the reverse proxy forwards
  Limit,         \* events per window
  Window,        \* length of a window, in ticks of the clock
  TicksPerSec,   \* ticks in a second, the unit of Retry-After
  MaxTime,       \* bound on the clock
  MaxEvents      \* bound on the events of one source within one tick

ASSUME RateLimiterAssumptions ==
  /\ Limit \in Nat \ {0}
  /\ Window \in Nat \ {0} /\ TicksPerSec \in Nat \ {0}
  /\ MaxTime \in Nat /\ MaxEvents \in Nat \ {0}

\* The keys of the limiter, and what the left-most X-Forwarded-For entry may
\* hold: an address, or something that is not one (or nothing at all).
Keys    == Remote \cup Local \cup Clients
NotAnIP == "not an IP"
Heads   == Keys \cup {NotAnIP}

\* A peer is loopback or it is not, and an address parses as one.
ASSUME CallerAssumptions == Remote \cap Local = {} /\ NotAnIP \notin Keys

Times == 0 .. MaxTime

VARIABLES
  now,
  n, reset,   \* counts: the events and the end of a key's window; n = 0: no entry
  log,        \* history: events granted per source and instant
  refusal     \* history: the last 429: its key, its instant, its Retry-After

vars == <<now, n, reset, log, refusal>>

NoRefusal == [key |-> NotAnIP, at |-> 0, secs |-> 0]

Init ==
  /\ now = 0
  /\ n = [k \in Keys |-> 0]
  /\ reset = [k \in Keys |-> 0]
  /\ log = [k \in Keys |-> [t \in Times |-> 0]]
  /\ refusal = NoRefusal

\* Mutant: the header is believed whoever sends it.
clientIPTrusting(peer, head) == IF head \in Keys THEN head ELSE peer

\* clientIP: the forwarded address only when the peer is loopback and the
\* entry is an address, the peer's own otherwise.
clientIP(peer, head) == IF peer \in Local /\ head \in Keys THEN head ELSE peer

\* Whose budget a request should draw on.
Source(peer, head) == IF peer \in Remote THEN peer
                      ELSE IF head = NotAnIP THEN peer ELSE head

\* No entry, or its window is over.
RolledOver(k) == n[k] = 0 \/ now >= reset[k]

Granted(peer, head) ==
  /\ log[Source(peer, head)][now] < MaxEvents
  /\ log' = [log EXCEPT ![Source(peer, head)][now] = @ + 1]

\* allow, one disjunct per return.
OpenWindow(peer, head) ==
  LET k == clientIP(peer, head) IN
  /\ RolledOver(k)
  /\ n' = [n EXCEPT ![k] = 1]
  /\ reset' = [reset EXCEPT ![k] = now + Window]
  /\ Granted(peer, head)
  /\ UNCHANGED <<now, refusal>>

Count(peer, head) ==
  LET k == clientIP(peer, head) IN
  /\ ~RolledOver(k) /\ n[k] < Limit
  /\ n' = [n EXCEPT ![k] = @ + 1]
  /\ Granted(peer, head)
  /\ UNCHANGED <<now, reset, refusal>>

\* Mutant: the time since the window's end, not until it.
RetryAfterSince(k) == (now - reset[k]) \div TicksPerSec

\* Over budget: 429, with the rest of the window in whole seconds, at least 1.
RetryAfter(k) == LET secs == (reset[k] - now) \div TicksPerSec
                 IN  IF secs < 1 THEN 1 ELSE secs

Refuse(peer, head) ==
  LET k == clientIP(peer, head) IN
  /\ ~RolledOver(k) /\ n[k] >= Limit
  /\ refusal' = [key |-> k, at |-> now, secs |-> RetryAfter(k)]
  /\ UNCHANGED <<now, n, reset, log>>

\* rateLimited: one request of some peer.
Request(peer, head) ==
  OpenWindow(peer, head) \/ Count(peer, head) \/ Refuse(peer, head)

\* Mutant: the sweeper forgets windows that are still open.
SweepAll ==
  /\ n' = [k \in Keys |-> 0]
  /\ reset' = [k \in Keys |-> 0]
  /\ UNCHANGED <<now, log, refusal>>

\* The sweeper drops the windows that are over.
Sweep ==
  /\ n' = [k \in Keys |-> IF RolledOver(k) THEN 0 ELSE n[k]]
  /\ reset' = [k \in Keys |-> IF RolledOver(k) THEN 0 ELSE reset[k]]
  /\ UNCHANGED <<now, log, refusal>>

Tick ==
  /\ now < MaxTime
  /\ now' = now + 1
  /\ UNCHANGED <<n, reset, log, refusal>>

Next ==
  \/ \E peer \in Remote \cup Local, head \in Heads : Request(peer, head)
  \/ Sweep
  \/ Tick

Spec == Init /\ [][Next]_vars

-----------------------------------------------------------------------------
(* Properties.                                                             *)

TypeOK ==
  /\ now \in Times
  /\ n \in [Keys -> Nat] /\ reset \in [Keys -> Nat]
  /\ log \in [Keys -> [Times -> Nat]]
  /\ refusal \in [key : Heads, at : Times, secs : Nat]

\* Of the log l of one source, the events in the instants ts: the i-th of an
\* instant t is <<t, i>>.
EventsIn(l, ts) ==
  {e \in Times \X (1 .. MaxEvents) : e[1] \in ts /\ e[2] <= l[e[1]]}

\* How many events a source was granted in the instants ts.
GrantedIn(k, ts) == Cardinality(EventsIn(log[k], ts))

\* No source, whatever headers it sends and whenever the sweeper runs, gets
\* two full budgets in any stretch of one window's length: the burst a fixed
\* window allows across its boundary is one event short of them, because the
\* event that opened the earlier window lies before the stretch.
BurstBound ==
  \A k \in Keys, t \in Times : GrantedIn(k, t .. t + Window - 1) < 2 * Limit

\* A key is refused only if its budget was really spent within the last
\* window.
RefusedOnlyWhenSpent ==
  refusal # NoRefusal =>
    GrantedIn(refusal.key, refusal.at - Window + 1 .. refusal.at) >= Limit

\* allow's comment: the refusal carries the time "until the window rolls
\* over".  rateLimited cuts it to whole seconds, so it is less than a second
\* short: TicksPerSec - 1 ticks after it, the window is over.
RetryAfterSuffices ==
  refusal # NoRefusal /\ now >= refusal.at + (refusal.secs + 1) * TicksPerSec - 1
    => RolledOver(refusal.key) \/ reset[refusal.key] > refusal.at + Window

\* What a refusal promises its client, whatever the clock, the sweeper and
\* the other keys do: it was earned, and the time in it is long enough.
LimiterInv == TypeOK /\ RefusedOnlyWhenSpent /\ RetryAfterSuffices

-----------------------------------------------------------------------------
(* Refinement: pruning is invisible.                                       *)

Budget == INSTANCE RateBudget WITH
            used  <- [k \in Keys |-> IF RolledOver(k) THEN 0 ELSE n[k]],
            until <- [k \in Keys |-> IF RolledOver(k) THEN 0 ELSE reset[k]]

\* The limiter is the budget of RateBudget: a sweep at any moment changes no
\* later answer.
ImplementsBudget == Budget!Spec
=============================================================================
