----------------------------- MODULE SseClient -----------------------------
(***************************************************************************)
(* The client of the live event stream (src/composables/useSSE.ts) in the  *)
(* dashboard that uses it (src/views/DashboardView.vue).                   *)
(*                                                                         *)
(* Every mount of the dashboard makes its own useSSE instance; the Live    *)
(* indicator, monitorStore.isSSEConnected, is shared by all of them.  A    *)
(* step is what runs between two awaits: the network, the reconnect timers *)
(* and the router decide what comes next.                                  *)
(*                                                                         *)
(* abort() makes the pending fetch or read of a connection reject with     *)
(* AbortError, on which connect() returns silently.  It does not when the  *)
(* body of an error response is being read: that rejection is caught and   *)
(* the status is thrown instead.                                           *)
(***************************************************************************)
EXTENDS Integers

CONSTANTS
  Views,         \* mounts of the dashboard, one after the other
  Conns,         \* identities of connections, used again once over
  MaxAttempts,   \* maxReconnectAttempts
  None           \* no connection

ASSUME SseClientAssumptions ==
  /\ MaxAttempts \in Nat
  /\ None \notin Conns

\* A connect() past its guards: "fetch" out, reading the "body" of an error
\* response, stream "open", or "over".
Active == {"fetch", "body", "open"}

VARIABLES
  life,           \* per view: "unborn", "mounted", "unmounted"
  loading,        \* per view: onMounted awaits the first load
  interval,       \* per view: the refresh interval is running
  abortController, isConnecting, reconnectAttempts,   \* useSSE, per view
  timers,         \* per view: reconnect timers pending
  conn, of,       \* per connection: its state and its view
  live,           \* monitorStore.isSSEConnected
  isAuthenticated

viewVars == <<life, loading, interval>>
connVars == <<abortController, isConnecting, conn, of, live>>
vars == <<viewVars, connVars, reconnectAttempts, timers, isAuthenticated>>

Init ==
  /\ life = [v \in Views |-> "unborn"]
  /\ loading = [v \in Views |-> FALSE]
  /\ interval = [v \in Views |-> FALSE]
  /\ abortController = [v \in Views |-> None]
  /\ isConnecting = [v \in Views |-> FALSE]
  /\ reconnectAttempts = [v \in Views |-> 0]
  /\ timers = [v \in Views |-> 0]
  /\ conn = [c \in Conns |-> "over"]
  /\ of \in [Conns -> Views]
  /\ live = FALSE
  /\ isAuthenticated = TRUE

-----------------------------------------------------------------------------
(* useSSE.                                                                 *)

\* The connections after view v's controller was aborted.
Aborted(v) ==
  [c \in Conns |-> IF c = abortController[v] /\ conn[c] \in {"fetch", "open"}
                   THEN "over" ELSE conn[c]]

\* Mutant: the controller is dropped without being aborted.
disconnectUnaborted(v) ==
  /\ abortController' = [abortController EXCEPT ![v] = None]
  /\ isConnecting' = [isConnecting EXCEPT ![v] = FALSE]
  /\ live' = FALSE
  /\ UNCHANGED <<conn, of>>

disconnect(v) ==
  /\ conn' = Aborted(v)
  /\ abortController' = [abortController EXCEPT ![v] = None]
  /\ isConnecting' = [isConnecting EXCEPT ![v] = FALSE]
  /\ live' = FALSE
  /\ UNCHANGED of

Unused(v) ==
  {c \in Conns : Aborted(v)[c] = "over" /\ \A w \in Views \ {v} : abortController[w] # c}

\* connect() up to its first await.
connect(v) ==
  \/ isConnecting[v] /\ UNCHANGED connVars
  \/ ~isConnecting[v] /\ ~isAuthenticated /\ disconnect(v)
  \/ /\ ~isConnecting[v] /\ isAuthenticated
     /\ \E c \in Unused(v) :
          /\ conn' = [Aborted(v) EXCEPT ![c] = "fetch"]
          /\ of' = [of EXCEPT ![c] = v]
          /\ abortController' = [abortController EXCEPT ![v] = c]
     /\ isConnecting' = [isConnecting EXCEPT ![v] = TRUE]
     /\ live' = FALSE

\* The stream opens.
Connected(c) ==
  /\ conn[c] = "fetch"
  /\ conn' = [conn EXCEPT ![c] = "open"]
  /\ live' = TRUE
  /\ reconnectAttempts' = [reconnectAttempts EXCEPT ![of[c]] = 0]
  /\ isConnecting' = [isConnecting EXCEPT ![of[c]] = FALSE]
  /\ UNCHANGED <<viewVars, abortController, of, timers, isAuthenticated>>

\* An error response: read its body before throwing.
NotOk(c) ==
  /\ conn[c] = "fetch"
  /\ conn' = [conn EXCEPT ![c] = "body"]
  /\ UNCHANGED <<viewVars, abortController, isConnecting, of, live, reconnectAttempts, timers,
                 isAuthenticated>>

\* Mutants: two timers for one failure; the indicator left on; isConnecting
\* left set.
FailsAndRetries(c) ==
  LET v == of[c] IN
  /\ conn[c] \in Active
  /\ conn' = [conn EXCEPT ![c] = "over"]
  /\ live' = FALSE
  /\ isConnecting' = [isConnecting EXCEPT ![v] = FALSE]
  /\ \/ /\ reconnectAttempts[v] < MaxAttempts
        /\ reconnectAttempts' = [reconnectAttempts EXCEPT ![v] = @ + 1]
        /\ timers' = [timers EXCEPT ![v] = @ + 2]
     \/ reconnectAttempts[v] >= MaxAttempts /\ UNCHANGED <<reconnectAttempts, timers>>
  /\ UNCHANGED <<viewVars, abortController, of, isAuthenticated>>

FailsStillLive(c) ==
  LET v == of[c] IN
  /\ conn[c] \in Active
  /\ conn' = [conn EXCEPT ![c] = "over"]
  /\ isConnecting' = [isConnecting EXCEPT ![v] = FALSE]
  /\ \/ /\ reconnectAttempts[v] < MaxAttempts
        /\ reconnectAttempts' = [reconnectAttempts EXCEPT ![v] = @ + 1]
        /\ timers' = [timers EXCEPT ![v] = @ + 1]
     \/ reconnectAttempts[v] >= MaxAttempts /\ UNCHANGED <<reconnectAttempts, timers>>
  /\ UNCHANGED <<viewVars, abortController, of, live, isAuthenticated>>

FailsStillConnecting(c) ==
  LET v == of[c] IN
  /\ conn[c] \in Active
  /\ conn' = [conn EXCEPT ![c] = "over"]
  /\ live' = FALSE
  /\ \/ /\ reconnectAttempts[v] < MaxAttempts
        /\ reconnectAttempts' = [reconnectAttempts EXCEPT ![v] = @ + 1]
        /\ timers' = [timers EXCEPT ![v] = @ + 1]
     \/ reconnectAttempts[v] >= MaxAttempts /\ UNCHANGED <<reconnectAttempts, timers>>
  /\ UNCHANGED <<viewVars, abortController, isConnecting, of, isAuthenticated>>

\* The catch block for anything but AbortError: the network failed, the
\* response was an error, or the open stream broke.
Fails(c) ==
  LET v == of[c] IN
  /\ conn[c] \in Active
  /\ conn' = [conn EXCEPT ![c] = "over"]
  /\ live' = FALSE
  /\ isConnecting' = [isConnecting EXCEPT ![v] = FALSE]
  /\ \/ /\ reconnectAttempts[v] < MaxAttempts
        /\ reconnectAttempts' = [reconnectAttempts EXCEPT ![v] = @ + 1]
        /\ timers' = [timers EXCEPT ![v] = @ + 1]
     \/ reconnectAttempts[v] >= MaxAttempts /\ UNCHANGED <<reconnectAttempts, timers>>
  /\ UNCHANGED <<viewVars, abortController, of, isAuthenticated>>

\* The server ends the stream: the loop breaks and nothing else happens.
StreamEnds(c) ==
  /\ conn[c] = "open"
  /\ conn' = [conn EXCEPT ![c] = "over"]
  /\ UNCHANGED <<viewVars, abortController, isConnecting, of, live, reconnectAttempts, timers,
                 isAuthenticated>>

\* A reconnect timer fires.  disconnect() does not cancel it.
TimerFires(v) ==
  /\ timers[v] > 0
  /\ timers' = [timers EXCEPT ![v] = @ - 1]
  /\ connect(v)
  /\ UNCHANGED <<viewVars, reconnectAttempts, isAuthenticated>>

-----------------------------------------------------------------------------
(* DashboardView.                                                          *)

\* The router shows one view at a time.
Mount(v) ==
  /\ life[v] = "unborn" /\ \A w \in Views : life[w] # "mounted"
  /\ isAuthenticated
  /\ life' = [life EXCEPT ![v] = "mounted"]
  /\ loading' = [loading EXCEPT ![v] = TRUE]
  /\ UNCHANGED <<interval, connVars, reconnectAttempts, timers, isAuthenticated>>

\* The first load settled, whatever became of the view since: connect and
\* start the refresh interval.
Loaded(v) ==
  /\ loading[v]
  /\ loading' = [loading EXCEPT ![v] = FALSE]
  /\ interval' = [interval EXCEPT ![v] = TRUE]
  /\ connect(v)
  /\ UNCHANGED <<life, reconnectAttempts, timers, isAuthenticated>>

\* The view's and the composable's onUnmounted.
Unmount(v) ==
  /\ life[v] = "mounted"
  /\ life' = [life EXCEPT ![v] = "unmounted"]
  /\ interval' = [interval EXCEPT ![v] = FALSE]
  /\ disconnect(v)
  /\ UNCHANGED <<loading, reconnectAttempts, timers, isAuthenticated>>

\* A logout or a 401 elsewhere on the page.
SignedOut ==
  /\ isAuthenticated
  /\ isAuthenticated' = FALSE
  /\ UNCHANGED <<viewVars, connVars, reconnectAttempts, timers>>

Answered(c) == Connected(c) \/ NotOk(c) \/ Fails(c)

Next ==
  \/ \E v \in Views : Mount(v) \/ Loaded(v) \/ Unmount(v) \/ TimerFires(v)
  \/ \E c \in Conns : Answered(c) \/ StreamEnds(c)
  \/ SignedOut

Spec == Init /\ [][Next]_vars

\* A fetch is answered or fails, a load settles and a timer fires; streams
\* need not end, and the user need not do anything.
Fairness ==
  /\ \A v \in Views : WF_vars(Loaded(v)) /\ WF_vars(TimerFires(v))
  /\ \A c \in Conns : WF_vars(conn[c] \in {"fetch", "body"} /\ Answered(c))

FairSpec == Spec /\ Fairness

-----------------------------------------------------------------------------
(* Properties.                                                             *)

TypeOK ==
  /\ life \in [Views -> {"unborn", "mounted", "unmounted"}]
  /\ loading \in [Views -> BOOLEAN] /\ interval \in [Views -> BOOLEAN]
  /\ abortController \in [Views -> Conns \cup {None}]
  /\ isConnecting \in [Views -> BOOLEAN]
  /\ reconnectAttempts \in [Views -> 0 .. MaxAttempts]
  /\ timers \in [Views -> Nat]
  /\ conn \in [Conns -> Active \cup {"over"}] /\ of \in [Conns -> Views]
  /\ live \in BOOLEAN /\ isAuthenticated \in BOOLEAN

ActiveOf(v) == {c \in Conns : of[c] = v /\ conn[c] \in Active}

\* One view has one reconnect chain: a connection or a timer, never two, so
\* a failing server is not met with a growing number of requests.
OneChain ==
  \A v \in Views :
    /\ timers[v] <= 1
    /\ timers[v] = 1 => ActiveOf(v) = {}
    /\ \A c, d \in ActiveOf(v) : c = d

\* A connection that is out or open is the one its view's controller aborts.
CanBeClosed ==
  \A c \in Conns : conn[c] \in {"fetch", "open"} => abortController[of[c]] = c

\* A reconnect that was scheduled is made, unless the user signed out: the
\* flag that keeps connect() from running twice never swallows it.
ReconnectIsMade ==
  \A v \in Views :
    timers[v] > 0 ~> ((\E c \in Conns : of[c] = v /\ conn[c] = "fetch") \/ ~isAuthenticated)
=============================================================================
