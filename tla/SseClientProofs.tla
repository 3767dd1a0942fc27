-------------------------- MODULE SseClientProofs --------------------------
(***************************************************************************)
(* Proofs about SseClient and SseFeed, for any number of mounts,           *)
(* connections and reconnect attempts and any events.                      *)
(***************************************************************************)
EXTENDS SseFeed, SequenceTheorems, FiniteSetTheorems, TLAPS

USE SseClientAssumptions

\* A view whose first load is not over has neither a connection nor a timer,
\* and a view loads only after it was mounted.
QuietBeforeLoad ==
  \A v \in Views :
    /\ loading[v] \/ life[v] = "unborn" => timers[v] = 0 /\ ActiveOf(v) = {}
    /\ life[v] = "unborn" => ~loading[v]

\* A controller belongs to a connection of its own view.
OwnController == \A v \in Views : abortController[v] # None => of[abortController[v]] = v

SseInv == TypeOK /\ QuietBeforeLoad /\ OwnController /\ OneChain /\ CanBeClosed

\* It holds before the first mount.
LEMMA SseInvInit == Init => SseInv
<1> SUFFICES ASSUME Init PROVE SseInv
  OBVIOUS
<1>1. reconnectAttempts \in [Views -> 0 .. MaxAttempts] /\ timers \in [Views -> Nat]
  BY DEF Init
<1>2. TypeOK
  BY <1>1 DEF Init, TypeOK, Active
<1>3. \A v \in Views : ActiveOf(v) = {} /\ timers[v] = 0
  BY DEF Init, ActiveOf, Active
<1>4. OneChain
  <2>1. ASSUME NEW v \in Views PROVE timers[v] <= 1
    <3>1. timers[v] = 0
      BY <1>3
    <3> QED
      BY <3>1
  <2>2. \A v \in Views : \A c, d \in ActiveOf(v) : c = d
    BY <1>3, Zenon
  <2> QED
    BY <1>3, <2>1, <2>2, Zenon DEF OneChain
<1>5. QuietBeforeLoad
  BY <1>3 DEF Init, QuietBeforeLoad
<1>6. OwnController /\ CanBeClosed
  BY DEF Init, OwnController, CanBeClosed
<1> QED
  BY <1>2, <1>4, <1>5, <1>6 DEF SseInv

\* A connection of a view that is out or open ends with disconnect(), and no
\* other view's does.
LEMMA DisconnectStep ==
  ASSUME SseInv, NEW v \in Views, disconnect(v)
  PROVE  /\ conn' \in [Conns -> Active \cup {"over"}] /\ of' = of /\ live' \in BOOLEAN
         /\ abortController' \in [Views -> Conns \cup {None}]
         /\ isConnecting' \in [Views -> BOOLEAN]
         /\ OwnController' /\ CanBeClosed'
         /\ \A w \in Views : ActiveOf(w)' \subseteq ActiveOf(w)
<1> USE DEF SseInv, disconnect, Aborted, Active
<1>1. conn' \in [Conns -> Active \cup {"over"}] /\ of' = of
  BY DEF TypeOK
<1>2. OwnController'
  BY DEF TypeOK, OwnController
<1>3. CanBeClosed'
  BY DEF TypeOK, OwnController, CanBeClosed
<1>4. \A w \in Views : ActiveOf(w)' \subseteq ActiveOf(w)
  BY DEF TypeOK, ActiveOf
<1> QED
  BY <1>1, <1>2, <1>3, <1>4 DEF TypeOK

\* connect() of a view with nothing active leaves it with one connection at
\* most, and the other views with what they had.
LEMMA ConnectStep ==
  ASSUME SseInv, NEW v \in Views, connect(v), ActiveOf(v) = {}
  PROVE  /\ conn' \in [Conns -> Active \cup {"over"}] /\ of' \in [Conns -> Views]
         /\ live' \in BOOLEAN
         /\ abortController' \in [Views -> Conns \cup {None}]
         /\ isConnecting' \in [Views -> BOOLEAN]
         /\ OwnController' /\ CanBeClosed'
         /\ \A w \in Views \ {v} : ActiveOf(w)' \subseteq ActiveOf(w)
         /\ \A c, d \in ActiveOf(v)' : c = d
<1> USE DEF SseInv
<1>1. CASE isConnecting[v] /\ UNCHANGED connVars
  BY <1>1 DEF connVars, TypeOK, OwnController, CanBeClosed, ActiveOf
<1>2. CASE disconnect(v)
  BY <1>2, DisconnectStep DEF TypeOK
<1>3. ASSUME NEW c \in Unused(v),
             conn' = [Aborted(v) EXCEPT ![c] = "fetch"],
             of' = [of EXCEPT ![c] = v],
             abortController' = [abortController EXCEPT ![v] = c],
             isConnecting' = [isConnecting EXCEPT ![v] = TRUE],
             live' = FALSE
      PROVE  /\ conn' \in [Conns -> Active \cup {"over"}] /\ of' \in [Conns -> Views]
             /\ live' \in BOOLEAN
             /\ abortController' \in [Views -> Conns \cup {None}]
             /\ isConnecting' \in [Views -> BOOLEAN]
             /\ OwnController' /\ CanBeClosed'
             /\ \A w \in Views \ {v} : ActiveOf(w)' \subseteq ActiveOf(w)
             /\ \A d, e \in ActiveOf(v)' : d = e
  <2> USE <1>3 DEF Unused, Aborted, Active
  <2>1. conn' \in [Conns -> Active \cup {"over"}] /\ of' \in [Conns -> Views]
    BY DEF TypeOK
  <2>2. abortController' \in [Views -> Conns \cup {None}] /\ isConnecting' \in [Views -> BOOLEAN]
    BY DEF TypeOK
  <2>3. OwnController'
    BY DEF TypeOK, OwnController
  <2>4. CanBeClosed'
    BY DEF TypeOK, OwnController, CanBeClosed, ActiveOf
  <2>5. \A w \in Views \ {v} : ActiveOf(w)' \subseteq ActiveOf(w)
    BY DEF TypeOK, ActiveOf
  <2>6. \A d, e \in ActiveOf(v)' : d = e
    BY DEF TypeOK, ActiveOf
  <2> QED
    BY <2>1, <2>2, <2>3, <2>4, <2>5, <2>6
<1> QED
  BY <1>1, <1>2, <1>3 DEF connect

\* Every step of the views, the network and the timers keeps it.
LEMMA SseInvStep == ASSUME SseInv, [Next]_vars PROVE SseInv'
<1> USE DEF SseInv, viewVars
<1>1. ASSUME NEW v \in Views, Mount(v) PROVE SseInv'
  BY <1>1 DEF Mount, connVars, TypeOK, QuietBeforeLoad, OwnController, OneChain, CanBeClosed, ActiveOf
<1>2. ASSUME NEW v \in Views, Loaded(v) PROVE SseInv'
  <2> USE <1>2 DEF Loaded
  <2>1. ActiveOf(v) = {} /\ timers[v] = 0 /\ life[v] # "unborn"
    BY DEF QuietBeforeLoad
  <2>2. /\ \A w \in Views \ {v} : ActiveOf(w)' \subseteq ActiveOf(w)
        /\ \A c, d \in ActiveOf(v)' : c = d
    BY <2>1, ConnectStep
  <2>3. TypeOK' /\ OwnController' /\ CanBeClosed'
    BY <2>1, ConnectStep DEF TypeOK
  <2>4. QuietBeforeLoad'
    BY <2>1, <2>2 DEF TypeOK, QuietBeforeLoad
  <2>5. OneChain'
    BY <2>1, <2>2 DEF TypeOK, OneChain
  <2> QED
    BY <2>3, <2>4, <2>5
<1>3. ASSUME NEW v \in Views, Unmount(v) PROVE SseInv'
  <2> USE <1>3 DEF Unmount
  <2>1. \A w \in Views : ActiveOf(w)' \subseteq ActiveOf(w)
    BY DisconnectStep
  <2>2. TypeOK' /\ OwnController' /\ CanBeClosed'
    BY DisconnectStep DEF TypeOK
  <2>3. QuietBeforeLoad'
    BY <2>1 DEF TypeOK, QuietBeforeLoad
  <2>4. OneChain'
    BY <2>1 DEF TypeOK, OneChain
  <2> QED
    BY <2>2, <2>3, <2>4
<1>4. ASSUME NEW v \in Views, TimerFires(v) PROVE SseInv'
  <2> USE <1>4 DEF TimerFires
  <2>1. ActiveOf(v) = {} /\ timers[v] = 1 /\ ~loading[v] /\ life[v] # "unborn"
    BY DEF TypeOK, OneChain, QuietBeforeLoad
  <2>2. /\ \A w \in Views \ {v} : ActiveOf(w)' \subseteq ActiveOf(w)
        /\ \A c, d \in ActiveOf(v)' : c = d
    BY <2>1, ConnectStep
  <2>3. TypeOK' /\ OwnController' /\ CanBeClosed'
    BY <2>1, ConnectStep DEF TypeOK
  <2>4. QuietBeforeLoad'
    BY <2>1, <2>2 DEF TypeOK, QuietBeforeLoad
  <2>5. OneChain'
    BY <2>1, <2>2 DEF TypeOK, OneChain
  <2> QED
    BY <2>3, <2>4, <2>5
<1>5. ASSUME NEW c \in Conns, Connected(c) PROVE SseInv'
  <2> USE <1>5 DEF Connected, Active
  <2>1. TypeOK'
    BY DEF TypeOK
  <2>2. \A w \in Views : ActiveOf(w)' = ActiveOf(w)
    BY DEF TypeOK, ActiveOf
  <2>3. QuietBeforeLoad' /\ OneChain'
    BY <2>2 DEF QuietBeforeLoad, OneChain
  <2>4. OwnController' /\ CanBeClosed'
    BY DEF TypeOK, OwnController, CanBeClosed
  <2> QED
    BY <2>1, <2>3, <2>4
<1>6. ASSUME NEW c \in Conns, NotOk(c) PROVE SseInv'
  <2> USE <1>6 DEF NotOk, Active
  <2>1. TypeOK'
    BY DEF TypeOK
  <2>2. \A w \in Views : ActiveOf(w)' = ActiveOf(w)
    BY DEF TypeOK, ActiveOf
  <2>3. QuietBeforeLoad' /\ OneChain'
    BY <2>2 DEF QuietBeforeLoad, OneChain
  <2>4. OwnController' /\ CanBeClosed'
    BY DEF TypeOK, OwnController, CanBeClosed
  <2> QED
    BY <2>1, <2>3, <2>4
<1>7. ASSUME NEW c \in Conns, Fails(c) PROVE SseInv'
  <2> DEFINE v == of[c]
  <2>1. c \in ActiveOf(v) /\ v \in Views
    BY <1>7 DEF Fails, TypeOK, ActiveOf
  <2>2. timers[v] = 0 /\ ActiveOf(v) = {c} /\ ~loading[v] /\ life[v] # "unborn"
    BY <2>1 DEF TypeOK, OneChain, QuietBeforeLoad
  <2>3. TypeOK'
    <3>1. reconnectAttempts' \in [Views -> 0 .. MaxAttempts] /\ timers' \in [Views -> Nat]
      BY <1>7, <2>1 DEF Fails, TypeOK
    <3> QED
      BY <1>7, <2>1, <3>1 DEF Fails, TypeOK, Active
  <2>4. ActiveOf(v)' = {} /\ \A w \in Views : ActiveOf(w)' \subseteq ActiveOf(w)
    BY <1>7, <2>2 DEF Fails, TypeOK, ActiveOf, Active
  <2>5. timers'[v] <= 1 /\ \A w \in Views \ {v} : timers'[w] = timers[w]
    BY <1>7, <2>1, <2>2 DEF Fails, TypeOK
  <2>6. life' = life /\ loading' = loading /\ of' = of
    BY <1>7 DEF Fails
  <2>7. QuietBeforeLoad'
    BY <2>1, <2>2, <2>4, <2>5, <2>6 DEF QuietBeforeLoad
  <2>8. OneChain'
    BY <2>1, <2>4, <2>5, <2>6 DEF OneChain
  <2>9. OwnController' /\ CanBeClosed'
    BY <1>7 DEF Fails, TypeOK, OwnController, CanBeClosed
  <2> QED
    BY <2>3, <2>7, <2>8, <2>9
<1>8. ASSUME NEW c \in Conns, StreamEnds(c) PROVE SseInv'
  <2> USE <1>8 DEF StreamEnds, Active
  <2>1. TypeOK'
    BY DEF TypeOK
  <2>2. \A w \in Views : ActiveOf(w)' \subseteq ActiveOf(w)
    BY DEF TypeOK, ActiveOf
  <2>3. QuietBeforeLoad' /\ OneChain'
    BY <2>2 DEF QuietBeforeLoad, OneChain
  <2>4. OwnController' /\ CanBeClosed'
    BY DEF TypeOK, OwnController, CanBeClosed
  <2> QED
    BY <2>1, <2>3, <2>4
<1>9. CASE SignedOut
  <2> USE <1>9 DEF SignedOut, connVars
  <2>1. TypeOK' /\ OwnController' /\ CanBeClosed'
    BY DEF TypeOK, OwnController, CanBeClosed
  <2>2. QuietBeforeLoad' /\ OneChain'
    BY DEF QuietBeforeLoad, OneChain, ActiveOf
  <2> QED
    BY <2>1, <2>2
<1>10. CASE UNCHANGED vars
  <2> USE <1>10 DEF vars, connVars
  <2>1. TypeOK' /\ OwnController' /\ CanBeClosed'
    BY DEF TypeOK, OwnController, CanBeClosed
  <2>2. QuietBeforeLoad' /\ OneChain'
    BY DEF QuietBeforeLoad, OneChain, ActiveOf
  <2> QED
    BY <2>1, <2>2
<1> QED
  BY <1>1, <1>2, <1>3, <1>4, <1>5, <1>6, <1>7, <1>8, <1>9, <1>10 DEF Next, Answered

\* SseInv is an invariant of the client.
THEOREM SseInvariant == Spec => []SseInv
BY SseInvInit, SseInvStep, PTL DEF Spec

\* useSSE never meets a failing server with more than one chain of attempts
\* per view: however its timers, failures and unmounts interleave, a view has
\* one connection or one timer.
THEOREM SingleChain == Spec => []OneChain
BY SseInvariant, PTL DEF SseInv

\* A connection that is out or open is the one disconnect() aborts.
THEOREM DisconnectReaches == Spec => []CanBeClosed
BY SseInvariant, PTL DEF SseInv

-----------------------------------------------------------------------------
(***************************************************************************)
(* The feed of SseFeed on top: its steps are steps of the client or leave  *)
(* the client alone.                                                       *)
(***************************************************************************)

\* A view that was left with nothing due has nothing: no load, no timer and
\* no connection in any state, so nothing of it can open a stream later.
LeftQuiet ==
  \A v \in Views :
    life[v] = "unmounted" /\ v \notin late =>
      ~loading[v] /\ timers[v] = 0 /\ ActiveOf(v) = {}

FeedIInv == SseInv /\ LiveUnlessEnded /\ LeftQuiet

\* The indicator: every step that closes the last stream turns it off, or is
\* the server ending it.
LEMMA LiveStep ==
  ASSUME SseInv, LiveUnlessEnded, ClientStep
  PROVE  LiveUnlessEnded'
<1> USE DEF SseInv, TypeOK, LiveUnlessEnded
<1>1. Next /\ ended' = (live' /\ (ended \/ \E c \in Conns : StreamEnds(c)))
  BY DEF ClientStep
<1>2. ASSUME conn' = conn, live' = live PROVE LiveUnlessEnded'
  BY <1>1, <1>2
<1>3. ASSUME NEW v \in Views, connect(v) PROVE LiveUnlessEnded'
  BY <1>2, <1>3 DEF connect, connVars, disconnect
<1>4. ASSUME NEW v \in Views, Mount(v) \/ Loaded(v) \/ Unmount(v) \/ TimerFires(v)
      PROVE  LiveUnlessEnded'
  BY <1>2, <1>3, <1>4 DEF Mount, Loaded, Unmount, TimerFires, connVars, disconnect
<1>5. ASSUME NEW c \in Conns, Connected(c) PROVE LiveUnlessEnded'
  BY <1>5 DEF Connected
<1>6. ASSUME NEW c \in Conns, NotOk(c) PROVE LiveUnlessEnded'
  <2>1. \A d \in Conns : conn[d] = "open" => conn'[d] = "open"
    BY <1>6 DEF NotOk
  <2> QED
    BY <1>1, <1>6, <2>1 DEF NotOk
<1>7. ASSUME NEW c \in Conns, Fails(c) PROVE LiveUnlessEnded'
  BY <1>7 DEF Fails
<1>8. ASSUME NEW c \in Conns, StreamEnds(c) PROVE LiveUnlessEnded'
  BY <1>1, <1>8
<1>9. CASE SignedOut
  BY <1>2, <1>9 DEF SignedOut, connVars
<1> QED
  BY <1>1, <1>4, <1>5, <1>6, <1>7, <1>8, <1>9 DEF Next, Answered

\* A view left quiet stays quiet: only its own load, timer or connection could
\* start something, and it has none.
LEMMA LeftQuietStep ==
  ASSUME SseInv, LeftQuiet, ClientStep
  PROVE  LeftQuiet'
<1> USE DEF SseInv
<1>1. Next /\ late \subseteq late'
  BY DEF ClientStep
<1>2. ASSUME NEW v \in Views, loading' = [loading EXCEPT ![v] = FALSE],
             timers' = [timers EXCEPT ![v] = 0],
             life' = life, \A w \in Views \ {v} : ActiveOf(w)' \subseteq ActiveOf(w),
             loading[v] \/ timers[v] # 0 \/ ActiveOf(v) # {}
      PROVE  LeftQuiet'
  BY <1>1, <1>2 DEF LeftQuiet, TypeOK
<1>3. ASSUME life' = life, loading' = loading, timers' = timers,
             \A w \in Views : ActiveOf(w)' \subseteq ActiveOf(w)
      PROVE  LeftQuiet'
  BY <1>1, <1>3 DEF LeftQuiet
<1>4. ASSUME NEW v \in Views, Mount(v) PROVE LeftQuiet'
  BY <1>1, <1>4 DEF Mount, connVars, LeftQuiet, TypeOK, ActiveOf
<1>5. ASSUME NEW v \in Views, Loaded(v) PROVE LeftQuiet'
  <2>1. ActiveOf(v) = {} /\ timers[v] = 0 /\ connect(v) /\ loading[v] /\ life' = life
    BY <1>5 DEF Loaded, QuietBeforeLoad
  <2>2. \A w \in Views \ {v} : ActiveOf(w)' \subseteq ActiveOf(w)
    BY <2>1, ConnectStep
  <2>3. timers' = [timers EXCEPT ![v] = 0] /\ loading' = [loading EXCEPT ![v] = FALSE]
    BY <1>5, <2>1 DEF Loaded, TypeOK
  <2> QED
    BY <1>2, <2>1, <2>2, <2>3
<1>6. ASSUME NEW v \in Views, TimerFires(v) PROVE LeftQuiet'
  <2>1. ActiveOf(v) = {} /\ timers[v] = 1 /\ ~loading[v] /\ connect(v) /\ life' = life
    BY <1>6 DEF TimerFires, TypeOK, OneChain, QuietBeforeLoad, viewVars
  <2>2. \A w \in Views \ {v} : ActiveOf(w)' \subseteq ActiveOf(w)
    BY <2>1, ConnectStep
  <2>3. timers' = [timers EXCEPT ![v] = 0] /\ loading' = [loading EXCEPT ![v] = FALSE]
    BY <1>6, <2>1 DEF TimerFires, TypeOK, viewVars
  <2>4. timers[v] # 0
    BY <2>1
  <2> QED
    BY <1>2, <2>1, <2>2, <2>3, <2>4
<1>7. ASSUME NEW v \in Views, Unmount(v) PROVE LeftQuiet'
  <2>1. /\ life[v] = "mounted" /\ life' = [life EXCEPT ![v] = "unmounted"] /\ disconnect(v)
        /\ loading' = loading /\ timers' = timers
    BY <1>7 DEF Unmount
  <2>2. \A w \in Views : ActiveOf(w)' \subseteq ActiveOf(w)
    BY <2>1, DisconnectStep
  <2>3. ASSUME v \notin late' PROVE ~loading[v] /\ timers[v] = 0 /\ ActiveOf(v)' = {}
    <3>1. life'[v] = "unmounted"
      BY <2>1 DEF TypeOK
    <3>2. ~loading[v] /\ ~(timers[v] > 0) /\ \A c \in Conns : of[c] = v => conn[c] # "body"
      BY <2>1, <2>3, <3>1 DEF ClientStep
    <3>3. timers[v] = 0
      BY <3>2 DEF TypeOK
    <3>4. \A c \in Conns : of[c] = v => conn'[c] = "over"
      BY <2>1, <3>2 DEF disconnect, Aborted, TypeOK, CanBeClosed, Active
    <3>5. ActiveOf(v)' = {}
      BY <2>1, <3>4 DEF ActiveOf, Active, disconnect
    <3> QED
      BY <3>2, <3>3, <3>5
  <2>4. ASSUME NEW w \in Views, w # v, life'[w] = "unmounted", w \notin late'
        PROVE  ~loading'[w] /\ timers'[w] = 0 /\ ActiveOf(w)' = {}
    BY <1>1, <2>1, <2>2, <2>4 DEF LeftQuiet, TypeOK
  <2> QED
    BY <2>1, <2>3, <2>4 DEF LeftQuiet
<1>8. ASSUME NEW c \in Conns, Connected(c) \/ NotOk(c) \/ StreamEnds(c) PROVE LeftQuiet'
  <2>1. \A w \in Views : ActiveOf(w)' \subseteq ActiveOf(w)
    BY <1>8 DEF Connected, NotOk, StreamEnds, ActiveOf, Active, TypeOK
  <2> QED
    BY <1>3, <1>8, <2>1 DEF Connected, NotOk, StreamEnds, viewVars
<1>9. ASSUME NEW c \in Conns, Fails(c) PROVE LeftQuiet'
  <2> DEFINE v == of[c]
  <2>1. c \in ActiveOf(v) /\ v \in Views
    BY <1>9 DEF Fails, TypeOK, ActiveOf
  <2>2. \A w \in Views : ActiveOf(w)' \subseteq ActiveOf(w)
    BY <1>9 DEF Fails, TypeOK, ActiveOf, Active
  <2>3. /\ life' = life /\ loading' = loading
        /\ \A w \in Views \ {v} : timers'[w] = timers[w]
    BY <1>9 DEF Fails, TypeOK, viewVars
  <2>4. ~(life[v] = "unmounted" /\ v \notin late)
    BY <2>1 DEF LeftQuiet
  <2> HIDE DEF v
  <2> QED
    BY <1>1, <2>1, <2>2, <2>3, <2>4 DEF LeftQuiet
<1>10. CASE SignedOut
  BY <1>3, <1>10 DEF SignedOut, viewVars, connVars, ActiveOf
<1> QED
  BY <1>1, <1>4, <1>5, <1>6, <1>7, <1>8, <1>9, <1>10 DEF Next, Answered

LEMMA FeedIInvInit == FeedInit => FeedIInv
<1> SUFFICES ASSUME FeedInit PROVE FeedIInv
  OBVIOUS
<1>1. Init /\ SseInv
  BY SseInvInit DEF FeedInit
<1>2. LiveUnlessEnded /\ LeftQuiet
  BY <1>1 DEF Init, LiveUnlessEnded, LeftQuiet
<1> QED
  BY <1>1, <1>2 DEF FeedIInv

LEMMA FeedIInvStep == FeedIInv /\ [FeedNext]_<<vars, feedVars>> => FeedIInv'
<1> SUFFICES ASSUME FeedIInv, [FeedNext]_<<vars, feedVars>> PROVE FeedIInv'
  OBVIOUS
<1>1. CASE ClientStep
  <2>1. SseInv'
    BY <1>1, SseInvStep DEF FeedIInv, ClientStep
  <2> QED
    BY <1>1, <2>1, LiveStep, LeftQuietStep DEF FeedIInv
<1>2. ASSUME UNCHANGED <<vars, ended, late>> PROVE FeedIInv'
  <2>1. SseInv'
    BY <1>2, SseInvStep DEF FeedIInv
  <2> QED
    BY <1>2, <2>1 DEF FeedIInv, LiveUnlessEnded, LeftQuiet, ActiveOf, vars, viewVars, connVars
<1>3. ASSUME NEW k \in Kinds, Emit(k) PROVE FeedIInv'
  BY <1>2, <1>3 DEF Emit
<1>4. ASSUME NEW c \in Conns, ReadChunk(c) \/ ReadLine(c) \/ KeepRest(c) PROVE FeedIInv'
  BY <1>2, <1>4 DEF ReadChunk, ReadLine, KeepRest
<1>5. CASE UNCHANGED <<vars, feedVars>>
  BY <1>2, <1>5 DEF feedVars
<1> QED
  BY <1>1, <1>3, <1>4, <1>5 DEF FeedNext

\* The Live indicator is on only while some stream is open, whatever the views,
\* timers, failures and sign-outs do, until the server ends a stream itself
\* (connect, disconnect and the read loop of useSSE.ts).
THEOREM LiveMeansOpen == FeedSpec => []LiveUnlessEnded
<1>1. FeedIInv => LiveUnlessEnded
  BY DEF FeedIInv
<1> QED
  BY <1>1, FeedIInvInit, FeedIInvStep, PTL DEF FeedSpec

\* A dashboard left with nothing due never asks for a stream again: the late
\* load, the pending timer and the error response under way are the only ways
\* past the cleanup of useSSE.ts.
THEOREM CleanupIsComplete == FeedSpec => []QuietUnlessLate
<1>1. FeedIInv => QuietUnlessLate
  BY DEF FeedIInv, SseInv, TypeOK, LeftQuiet, QuietUnlessLate, ActiveOf, Active
<1> QED
  BY <1>1, FeedIInvInit, FeedIInvStep, PTL DEF FeedSpec

\* One reconnect chain per view, with the feed on top.
THEOREM FeedSingleChain == FeedSpec => []OneChain
<1>1. FeedIInv => OneChain
  BY DEF FeedIInv, SseInv
<1> QED
  BY <1>1, FeedIInvInit, FeedIInvStep, PTL DEF FeedSpec

-----------------------------------------------------------------------------
(***************************************************************************)
(* The live list.                                                          *)
(***************************************************************************)

FeedType ==
  /\ emitted \in Seq(Kinds)
  /\ at \in [Conns -> Nat \ {0}] /\ lineNo \in [Conns -> 0 .. 2]
  /\ buffer \in [Conns -> {"none", "event", "data"}]
  /\ chunkOf \in Conns \cup {None}
  /\ currentEvent \in Nat /\ currentData \in Nat
  /\ liveEvents \in Seq(Nat) /\ Len(liveEvents) <= Cap /\ Range(liveEvents) \subseteq read
  /\ read \subseteq 1 .. Len(emitted) /\ torn \subseteq 1 .. Len(emitted)
  /\ doubled \in BOOLEAN

\* A stream that is open is in the middle of an event, or after the last.
InStream ==
  /\ \A c \in Conns :
       conn[c] = "open" =>
         \/ at[c] \in 1 .. Len(emitted) /\ lineNo[c] < Len(LinesOf(at[c]))
         \/ at[c] = Len(emitted) + 1 /\ lineNo[c] = 0
  /\ chunkOf # None => conn[chunkOf] = "open"

\* The buffer holds nothing, or the line that is next.
BufferRight ==
  \A c \in Conns :
    conn[c] = "open" /\ buffer[c] # "none" => at[c] \in 1 .. Len(emitted) /\ buffer[c] = LineOn(c)

\* What the loop holds is of event n, of which k lines were read.
Holds(n, k) ==
  /\ currentEvent \in {0, n} /\ currentData \in {0, n}
  /\ k = 0 => currentEvent = 0 /\ currentData = 0
  /\ k > 0 /\ emitted[n] = "generic" => currentEvent = 0
  /\ k = 1 /\ emitted[n] # "generic" => currentData = 0
  /\ k = 2 /\ currentEvent # 0 => currentData # 0

ParserHolds == chunkOf # None => Holds(at[chunkOf], lineNo[chunkOf])

\* An event read in one chunk has all it needs, one that was torn has not.
Complete(n, k) ==
  k > 0 =>
    IF emitted[n] = "generic" THEN currentData = IF n \in torn THEN 0 ELSE n
    ELSE IF n \in torn THEN currentEvent = 0
    ELSE currentEvent = n /\ (k = 2 => currentData = n)

ParserComplete == ~doubled /\ chunkOf # None => Complete(at[chunkOf], lineNo[chunkOf])

\* The one stream that is open is past what was read and torn.
Forward ==
  ~doubled =>
    \A c \in Conns :
      conn[c] = "open" =>
        /\ \A d \in Conns : conn[d] = "open" => d = c
        /\ \A n \in read : n < at[c]
        /\ \A n \in torn : n < at[c] \/ (n = at[c] /\ lineNo[c] > 0)

\* The rows of event n, and the streams that have not read it to its end.
Copies(es, n) == {k \in DOMAIN es : es[k] = n}
Unread(n) == {c \in Conns : conn[c] = "open" /\ at[c] <= n}

\* An event is shown at most once for every stream that was open when it was sent.
WithinViews ==
  \A n \in 1 .. Len(emitted) :
    /\ IsFiniteSet(Unread(n))
    /\ Cardinality(Copies(liveEvents, n)) + Cardinality(Unread(n)) <= Cardinality(Views)

ListIInv ==
  /\ FeedType /\ InStream /\ BufferRight /\ ParserHolds /\ ParserComplete /\ Forward /\ WithinViews
  /\ FeedIsFaithful

(***************************************************************************)
(* addLiveEvent: the list with an event in front, cut at Cap.              *)
(***************************************************************************)

\* ds is es with n in front, without the last if es is full.
Pushed(es, n, ds) ==
  /\ ds \in Seq(Nat)
  /\ Len(ds) = IF Len(es) < Cap THEN Len(es) + 1 ELSE Cap
  /\ DOMAIN ds = 1 .. Len(ds) /\ Len(ds) \in Nat \ {0}
  /\ DOMAIN es = 1 .. Len(es) /\ Len(es) \in Nat /\ Len(es) <= Cap
  /\ ds[1] = n
  /\ \A k \in DOMAIN ds : k # 1 => k - 1 \in DOMAIN es /\ ds[k] = es[k - 1]

LEMMA PushedList ==
  ASSUME NEW es \in Seq(Nat), Len(es) <= Cap, NEW n \in Nat
  PROVE  Pushed(es, n, SubSeq(<<n>> \o es, 1, IF Len(es) < Cap THEN Len(es) + 1 ELSE Cap))
<1> DEFINE m == IF Len(es) < Cap THEN Len(es) + 1 ELSE Cap
<1>1. Len(es) \in Nat /\ DOMAIN es = 1 .. Len(es) /\ \A k \in 1 .. Len(es) : es[k] \in Nat
  BY LenProperties, ElementOfSeq
<1>2. PICK s : s = <<n>> \o es
  OBVIOUS
<1>3. Len(s) = Len(es) + 1 /\ s \in Seq(Nat)
      /\ \A k \in 1 .. Len(es) + 1 : s[k] = IF k = 1 THEN n ELSE es[k - 1]
  BY <1>1, <1>2, ConcatProperties
<1>4. m \in Nat \ {0} /\ m <= Len(es) + 1 /\ m = IF Len(es) < Cap THEN Len(es) + 1 ELSE Cap
  BY <1>1, SseFeedAssumptions
<1> HIDE DEF m
<1>5. \A k \in 1 .. m : s[k] \in Nat
  BY <1>1, <1>3, <1>4
<1>6. PICK ds : ds = SubSeq(s, 1, m)
  OBVIOUS
<1>7. ds \in Seq(Nat) /\ Len(ds) = m /\ \A k \in 1 .. m : ds[k] = s[k]
  <2>1. /\ SubSeq(s, 1, m) \in Seq(Nat) /\ Len(SubSeq(s, 1, m)) = IF 1 <= m THEN m - 1 + 1 ELSE 0
        /\ \A k \in 1 .. m - 1 + 1 : SubSeq(s, 1, m)[k] = s[1 + k - 1]
    BY <1>4, <1>5, SubSeqProperties
  <2> QED BY <1>4, <1>6, <2>1
<1>8. DOMAIN ds = 1 .. Len(ds)
  BY <1>7, LenProperties
<1>9. ds[1] = n /\ \A k \in DOMAIN ds : k # 1 => k - 1 \in DOMAIN es /\ ds[k] = es[k - 1]
  <2>1. ds[1] = n
    <3>1. 1 \in 1 .. m /\ 1 \in 1 .. Len(es) + 1
      BY <1>1, <1>4
    <3>2. ds[1] = s[1]
      BY <1>7, <3>1
    <3>3. s[1] = IF 1 = 1 THEN n ELSE es[1 - 1]
      BY <1>3, <3>1
    <3> QED BY <3>2, <3>3
  <2>2. ASSUME NEW k \in DOMAIN ds, k # 1 PROVE k - 1 \in DOMAIN es /\ ds[k] = es[k - 1]
    <3>1. k \in 1 .. m /\ k \in 1 .. Len(es) + 1
      BY <1>1, <1>4, <1>7, <1>8
    <3>2. ds[k] = s[k] /\ s[k] = es[k - 1]
      BY <1>3, <1>7, <2>2, <3>1
    <3> QED BY <1>1, <2>2, <3>1, <3>2
  <2> QED BY <2>1, <2>2
<1>10. Pushed(es, n, ds)
  BY <1>1, <1>4, <1>7, <1>8, <1>9 DEF Pushed
<1> QED BY <1>2, <1>6, <1>10 DEF m

\* The rows of an event are finitely many.
LEMMA CopiesFinite ==
  ASSUME NEW es \in Seq(Nat), NEW n
  PROVE  IsFiniteSet(Copies(es, n)) /\ Cardinality(Copies(es, n)) \in Nat
<1>1. Len(es) \in Nat /\ DOMAIN es = 1 .. Len(es)
  BY LenProperties
<1>2. IsFiniteSet(1 .. Len(es))
  BY <1>1, FS_Interval
<1>3. Copies(es, n) \in SUBSET (1 .. Len(es))
  BY <1>1 DEF Copies
<1>4. IsFiniteSet(Copies(es, n))
  BY <1>2, <1>3, FS_Subset
<1> QED BY <1>4, FS_CardinalityType

\* Pushing an event adds a row of it, and no row of another.
LEMMA PushedCopies ==
  ASSUME NEW es \in Seq(Nat), NEW n, NEW ds, Pushed(es, n, ds), NEW m
  PROVE  Cardinality(Copies(ds, m)) <= Cardinality(Copies(es, m)) + (IF m = n THEN 1 ELSE 0)
<1>1. PICK S, T : S = Copies(ds, m) /\ T = Copies(es, m)
  OBVIOUS
<1>2. /\ IsFiniteSet(S) /\ Cardinality(S) \in Nat /\ IsFiniteSet(T) /\ Cardinality(T) \in Nat
  BY <1>1, CopiesFinite DEF Pushed
<1>3. PICK R : R = S \ {1}
  OBVIOUS
<1>4. \A k \in R : k \in Nat /\ k - 1 \in T
  BY <1>1, <1>3 DEF Pushed, Copies
<1>5. PICK f : f = [k \in R |-> k - 1]
  OBVIOUS
<1>6. f \in [R -> T] /\ \A j, k \in R : f[j] = f[k] => j = k
  BY <1>4, <1>5
<1>7. f \in Injection(R, T)
  BY <1>6 DEF Injection, IsInjective
<1>8. Cardinality(R) <= Cardinality(T)
  BY <1>2, <1>7, FS_Injection
<1>9. Cardinality(R) = (IF 1 \in S THEN Cardinality(S) - 1 ELSE Cardinality(S))
  BY <1>2, <1>3, FS_RemoveElement
<1>10. 1 \in S => m = n
  BY <1>1 DEF Pushed, Copies
<1> QED BY <1>1, <1>2, <1>8, <1>9, <1>10

\* The list stays the newest Cap of the events to show, in order, when an
\* event newer than all of them is pushed.
Newest(es, due) ==
  /\ Range(es) \subseteq due
  /\ \A j, k \in DOMAIN es : j < k => es[j] > es[k]
  /\ \A n \in due \ Range(es) : Len(es) = Cap /\ \A k \in DOMAIN es : es[k] > n

LEMMA PushedNewest ==
  ASSUME NEW es \in Seq(Nat), NEW due \in SUBSET Nat, Newest(es, due), NEW n \in Nat,
         \A m \in due : m < n, NEW ds, Pushed(es, n, ds)
  PROVE  Newest(ds, due \cup {n})
<1>1. /\ DOMAIN ds = 1 .. Len(ds) /\ Len(ds) \in Nat \ {0}
      /\ Len(ds) = IF Len(es) < Cap THEN Len(es) + 1 ELSE Cap
      /\ DOMAIN es = 1 .. Len(es) /\ Len(es) \in Nat /\ Len(es) <= Cap
      /\ ds[1] = n
      /\ \A k \in DOMAIN ds : k # 1 => k - 1 \in DOMAIN es /\ ds[k] = es[k - 1]
  BY DEF Pushed
<1>2. /\ \A k \in DOMAIN es : es[k] \in due /\ es[k] \in Nat /\ es[k] < n
      /\ \A j, k \in DOMAIN es : j < k => es[j] > es[k]
  BY DEF Newest, Range
<1>3. Range(ds) \subseteq due \cup {n}
  BY <1>1, <1>2 DEF Range
<1>4. ASSUME NEW j \in DOMAIN ds, NEW k \in DOMAIN ds, j < k PROVE ds[j] > ds[k]
  <2>1. k # 1 /\ k - 1 \in DOMAIN es /\ ds[k] = es[k - 1] /\ j \in Nat /\ k \in Nat
    BY <1>1, <1>4
  <2>2. CASE j = 1
    BY <1>1, <1>2, <2>1, <2>2
  <2>3. CASE j # 1
    <3>1. j - 1 \in DOMAIN es /\ ds[j] = es[j - 1] /\ j - 1 < k - 1
      BY <1>1, <1>4, <2>1, <2>3
    <3> QED BY <1>2, <2>1, <3>1
  <2> QED BY <2>2, <2>3
<1>5. ASSUME NEW m \in (due \cup {n}) \ Range(ds)
      PROVE  Len(ds) = Cap /\ \A k \in DOMAIN ds : ds[k] > m
  <2>1. m \in due /\ m \in Nat /\ m < n
    BY <1>1, <1>5 DEF Range
  <2>2. CASE m \notin Range(es)
    <3>1. Len(es) = Cap /\ \A k \in DOMAIN es : es[k] > m
      BY <2>1, <2>2 DEF Newest
    <3> QED BY <1>1, <2>1, <3>1
  <2>3. CASE m \in Range(es)
    <3>1. PICK l \in DOMAIN es : es[l] = m
      BY <2>3 DEF Range
    <3>2. l + 1 \notin DOMAIN ds
      <4>1. SUFFICES ASSUME l + 1 \in DOMAIN ds PROVE FALSE
        OBVIOUS
      <4>2. l \in Nat \ {0} /\ (l + 1) - 1 = l /\ l + 1 # 1
        BY <1>1, <3>1
      <4>3. ds[l + 1] = es[l]
        BY <1>1, <4>1, <4>2
      <4> QED BY <1>5, <3>1, <4>1, <4>3 DEF Range
    <3>3. Len(ds) = Cap /\ l = Len(es) /\ l = Cap
      BY <1>1, <3>1, <3>2, SseFeedAssumptions
    <3>4. ASSUME NEW k \in DOMAIN ds PROVE ds[k] > m
      <4>1. CASE k = 1
        BY <1>1, <2>1, <4>1
      <4>2. CASE k # 1
        <5>1. k - 1 \in DOMAIN es /\ ds[k] = es[k - 1] /\ k - 1 < l
          BY <1>1, <3>3, <4>2
        <5> QED BY <1>2, <3>1, <5>1
      <4> QED BY <4>1, <4>2
    <3> QED BY <3>3, <3>4
  <2> QED BY <2>2, <2>3
<1> QED BY <1>3, <1>4, <1>5 DEF Newest

\* The events that are to be shown.
DueEvents == {n \in read \ torn : emitted[n] # "heartbeat"}

LEMMA FaithfulNewest == FeedIsFaithful <=> (~doubled => Newest(liveEvents, DueEvents))
BY DEF FeedIsFaithful, Newest, DueEvents

\* Streams that are going read on; one that opens has read nothing and has
\* nothing to read.
LEMMA ClientListStep == ASSUME ListIInv, ClientStep PROVE ListIInv'
<1> DEFINE going == {c \in Conns : conn[c] = "open" /\ conn'[c] = "open"}
<1>1. /\ chunkOf = None /\ chunkOf' = None
      /\ UNCHANGED <<emitted, currentEvent, currentData, liveEvents, read, torn>>
      /\ doubled' = (doubled \/ \E c, d \in Conns : c # d /\ conn'[c] = "open" /\ conn'[d] = "open")
      /\ at' = [c \in Conns |-> IF c \in going THEN at[c]
                                ELSE IF conn'[c] = "open" THEN Len(emitted) + 1 ELSE 1]
      /\ lineNo' = [c \in Conns |-> IF c \in going THEN lineNo[c] ELSE 0]
      /\ buffer' = [c \in Conns |-> IF c \in going THEN buffer[c] ELSE "none"]
  BY DEF ClientStep, chunkVars
<1>2. Len(emitted) \in Nat
  BY LenProperties DEF ListIInv, FeedType
<1>3. \A c \in Conns : conn'[c] = "open" =>
        \/ conn[c] = "open" /\ at'[c] = at[c] /\ lineNo'[c] = lineNo[c]
        \/ at'[c] = Len(emitted) + 1 /\ lineNo'[c] = 0
  BY <1>1
<1>4. FeedType'
  <2>1. at' \in [Conns -> Nat \ {0}] /\ lineNo' \in [Conns -> 0 .. 2]
    BY <1>1, <1>2 DEF ListIInv, FeedType
  <2>2. buffer' \in [Conns -> {"none", "event", "data"}] /\ doubled' \in BOOLEAN
    BY <1>1 DEF ListIInv, FeedType
  <2> QED BY <1>1, <2>1, <2>2 DEF ListIInv, FeedType
<1>5. InStream'
  <2>1. \A n : LinesOf(n)' = LinesOf(n)
    BY <1>1 DEF LinesOf
  <2> QED BY <1>1, <1>2, <1>3, <2>1 DEF ListIInv, InStream
<1>10. BufferRight'
  <2>1. \A c \in Conns : conn'[c] = "open" /\ buffer'[c] # "none" =>
          /\ conn[c] = "open" /\ buffer'[c] = buffer[c] /\ at'[c] = at[c] /\ lineNo'[c] = lineNo[c]
    BY <1>1
  <2>2. \A c \in Conns : at'[c] = at[c] /\ lineNo'[c] = lineNo[c] => LineOn(c)' = LineOn(c)
    BY <1>1 DEF LineOn, LinesOf
  <2> QED BY <1>1, <2>1, <2>2 DEF ListIInv, BufferRight
<1>6. ParserHolds' /\ ParserComplete'
  BY <1>1 DEF ParserHolds, ParserComplete
<1>7. Forward'
  <2> SUFFICES ASSUME ~doubled', NEW c \in Conns, conn'[c] = "open"
               PROVE  /\ \A d \in Conns : conn'[d] = "open" => d = c
                      /\ \A n \in read : n < at'[c]
                      /\ \A n \in torn : n < at'[c] \/ (n = at'[c] /\ lineNo'[c] > 0)
    BY <1>1 DEF Forward
  <2>1. ~doubled /\ \A d \in Conns : conn'[d] = "open" => d = c
    BY <1>1
  <2>2. CASE conn[c] = "open" /\ at'[c] = at[c] /\ lineNo'[c] = lineNo[c]
    BY <2>1, <2>2 DEF ListIInv, Forward
  <2>3. CASE at'[c] = Len(emitted) + 1
    <3>1. read \subseteq 1 .. Len(emitted) /\ torn \subseteq 1 .. Len(emitted)
      BY DEF ListIInv, FeedType
    <3>2. \A n \in 1 .. Len(emitted) : n < at'[c]
      BY <1>2, <2>3
    <3> QED BY <2>1, <3>1, <3>2
  <2> QED BY <1>3, <2>1, <2>2, <2>3
<1>8. WithinViews'
  <2> SUFFICES ASSUME NEW n \in 1 .. Len(emitted)
               PROVE  /\ IsFiniteSet(Unread(n)')
                      /\ Cardinality(Copies(liveEvents, n)) + Cardinality(Unread(n)') <= Cardinality(Views)
    BY <1>1 DEF WithinViews, Copies
  <2>1. PICK S, T : S = Unread(n) /\ T = Unread(n)'
    OBVIOUS
  <2>2. T \in SUBSET S
    BY <1>2, <1>3, <2>1 DEF Unread
  <2>3. IsFiniteSet(S) /\ Cardinality(Copies(liveEvents, n)) + Cardinality(S) <= Cardinality(Views)
    BY <2>1 DEF ListIInv, WithinViews
  <2>4. IsFiniteSet(T) /\ Cardinality(T) <= Cardinality(S) /\ Cardinality(S) \in Nat /\ Cardinality(T) \in Nat
    BY <2>2, <2>3, FS_Subset, FS_CardinalityType
  <2>5. Cardinality(Copies(liveEvents, n)) \in Nat /\ Cardinality(Views) \in Nat
    BY CopiesFinite, SseFeedAssumptions, FS_CardinalityType DEF ListIInv, FeedType
  <2> QED BY <2>1, <2>3, <2>4, <2>5
<1>9. FeedIsFaithful'
  <2>1. DueEvents' = DueEvents /\ (~doubled' => ~doubled)
    BY <1>1 DEF DueEvents
  <2>2. (~doubled' => Newest(liveEvents, DueEvents))
    BY <2>1, FaithfulNewest DEF ListIInv
  <2> QED BY <1>1, <2>2 DEF FeedIsFaithful, Newest, DueEvents
<1> QED BY <1>4, <1>5, <1>6, <1>7, <1>8, <1>9, <1>10 DEF ListIInv

\* At most one stream of each view is open.
LEMMA OpenBounded ==
  ASSUME SseInv, NEW O, O = {c \in Conns : conn[c] = "open"}
  PROVE  IsFiniteSet(O) /\ Cardinality(O) <= Cardinality(Views)
<1>1. PICK f : f = [c \in O |-> of[c]]
  OBVIOUS
<1>2. f \in [O -> Views]
  BY <1>1 DEF SseInv, TypeOK
<1>3. \A c, d \in O : f[c] = f[d] => c = d
  <2> SUFFICES ASSUME NEW c \in O, NEW d \in O, f[c] = f[d] PROVE c = d
    OBVIOUS
  <2>1. f[c] \in Views /\ c \in ActiveOf(f[c]) /\ d \in ActiveOf(f[c])
    BY <1>1, <1>2 DEF ActiveOf, Active
  <2> QED BY <2>1 DEF SseInv, OneChain
<1>4. f \in Injection(O, Views)
  BY <1>2, <1>3 DEF Injection, IsInjective
<1> QED BY <1>4, SseFeedAssumptions, FS_Injection

LEMMA EmitListStep == ASSUME SseInv, ListIInv, NEW k \in Kinds, Emit(k) PROVE ListIInv'
<1>1. /\ chunkOf = None /\ emitted' = Append(emitted, k)
      /\ UNCHANGED <<conn, at, lineNo, buffer, chunkOf, currentEvent, currentData>>
      /\ UNCHANGED <<liveEvents, read, torn, doubled>>
  BY DEF Emit, vars, connVars, streamVars, chunkVars
<1>2. /\ Len(emitted) \in Nat /\ emitted' \in Seq(Kinds) /\ Len(emitted') = Len(emitted) + 1
      /\ \A n \in 1 .. Len(emitted) : emitted'[n] = emitted[n]
  BY <1>1, AppendProperties, LenProperties DEF ListIInv, FeedType
<1>3. FeedType'
  <2>1. read \subseteq 1 .. Len(emitted') /\ torn \subseteq 1 .. Len(emitted')
    BY <1>2 DEF ListIInv, FeedType
  <2> QED BY <1>1, <1>2, <2>1 DEF ListIInv, FeedType
<1>4. InStream'
  <2>1. ASSUME NEW c \in Conns, conn[c] = "open"
        PROVE  at[c] \in 1 .. Len(emitted') /\ lineNo[c] < Len(LinesOf(at[c])')
    <3>1. CASE at[c] \in 1 .. Len(emitted) /\ lineNo[c] < Len(LinesOf(at[c]))
      <4>1. LinesOf(at[c])' = LinesOf(at[c])
        BY <1>1, <1>2, <3>1 DEF LinesOf
      <4> QED BY <1>2, <3>1, <4>1
    <3>2. CASE at[c] = Len(emitted) + 1 /\ lineNo[c] = 0
      <4>1. PICK m : m = Len(LinesOf(at[c])')
        OBVIOUS
      <4>2. m = 2 \/ m = 3
        BY <4>1 DEF LinesOf
      <4>3. 0 < m
        BY <4>2
      <4>4. at[c] \in 1 .. Len(emitted')
        BY <1>2, <3>2
      <4> QED BY <3>2, <4>1, <4>3, <4>4
    <3> QED BY <2>1, <3>1, <3>2 DEF ListIInv, InStream
  <2> QED BY <1>1, <2>1 DEF InStream
<1>9. BufferRight'
  <2>1. \A c \in Conns : at[c] \in 1 .. Len(emitted) => LineOn(c)' = LineOn(c) /\ at[c] \in 1 .. Len(emitted')
    BY <1>1, <1>2 DEF LineOn, LinesOf
  <2> QED BY <1>1, <2>1 DEF ListIInv, BufferRight
<1>5. ParserHolds' /\ ParserComplete'
  BY <1>1 DEF ParserHolds, ParserComplete
<1>6. Forward'
  BY <1>1 DEF ListIInv, Forward
<1>7. WithinViews'
  <2> SUFFICES ASSUME NEW n \in 1 .. Len(emitted')
               PROVE  /\ IsFiniteSet(Unread(n))
                      /\ Cardinality(Copies(liveEvents, n)) + Cardinality(Unread(n)) <= Cardinality(Views)
    BY <1>1 DEF WithinViews, Copies, Unread
  <2>1. CASE n \in 1 .. Len(emitted)
    BY <2>1 DEF ListIInv, WithinViews
  <2>2. CASE n = Len(emitted) + 1
    <3>1. PICK O : O = {c \in Conns : conn[c] = "open"}
      OBVIOUS
    <3>2. Unread(n) \in SUBSET O
      BY <3>1 DEF Unread
    <3>3. IsFiniteSet(O) /\ Cardinality(O) <= Cardinality(Views)
      BY <3>1, OpenBounded
    <3>4. IsFiniteSet(Unread(n)) /\ Cardinality(Unread(n)) <= Cardinality(O)
      BY <3>2, <3>3, FS_Subset
    <3>5. Cardinality(Unread(n)) \in Nat /\ Cardinality(O) \in Nat /\ Cardinality(Views) \in Nat
      BY <3>3, <3>4, SseFeedAssumptions, FS_CardinalityType
    <3>6. Copies(liveEvents, n) = {}
      <4>1. \A j \in DOMAIN liveEvents : liveEvents[j] \in 1 .. Len(emitted)
        BY DEF ListIInv, FeedType, Range
      <4> QED BY <1>2, <2>2, <4>1 DEF Copies
    <3>7. Cardinality(Copies(liveEvents, n)) = 0
      BY <3>6, FS_EmptySet
    <3> QED BY <3>3, <3>4, <3>5, <3>7
  <2> QED BY <1>2, <2>1, <2>2
<1>8. FeedIsFaithful'
  <2>1. DueEvents' = DueEvents
    BY <1>1, <1>2 DEF DueEvents, ListIInv, FeedType
  <2>2. (~doubled => Newest(liveEvents, DueEvents))
    BY FaithfulNewest DEF ListIInv
  <2> QED BY <1>1, <2>1, <2>2 DEF FeedIsFaithful, Newest, DueEvents
<1> QED BY <1>3, <1>4, <1>5, <1>6, <1>7, <1>8, <1>9 DEF ListIInv

\* What is read and torn does not change what a list of one stream must show,
\* if only the event being read is torn.
LEMMA ReadChunkStep == ASSUME ListIInv, NEW c \in Conns, ReadChunk(c) PROVE ListIInv'
<1>1. /\ chunkOf = None /\ conn[c] = "open" /\ at[c] <= Len(emitted)
      /\ chunkOf' = c /\ currentEvent' = 0 /\ currentData' = 0
      /\ torn' = (IF lineNo[c] > 0 THEN torn \cup {at[c]} ELSE torn)
      /\ UNCHANGED <<conn, emitted, at, lineNo, buffer, liveEvents, read, doubled>>
  BY DEF ReadChunk, MoreOf, vars, connVars, streamVars
<1>2. at[c] \in 1 .. Len(emitted) /\ lineNo[c] \in 0 .. 2 /\ at[c] \in Nat /\ c # None
  BY <1>1, LenProperties DEF ListIInv, FeedType
<1>3. FeedType'
  BY <1>1, <1>2 DEF ListIInv, FeedType
<1>4. InStream'
  <2>1. \A n : LinesOf(n)' = LinesOf(n)
    BY <1>1 DEF LinesOf
  <2> QED BY <1>1, <2>1 DEF ListIInv, InStream
<1>10. BufferRight'
  BY <1>1 DEF ListIInv, BufferRight, LineOn, LinesOf
<1>5. ParserHolds'
  BY <1>1, <1>2 DEF ParserHolds, Holds
<1>6. ParserComplete'
  <2>1. lineNo[c] > 0 => at[c] \in torn'
    BY <1>1
  <2> QED BY <1>1, <1>2, <2>1 DEF ParserComplete, Complete
<1>7. Forward'
  BY <1>1, <1>2 DEF ListIInv, Forward
<1>8. WithinViews'
  BY <1>1 DEF ListIInv, WithinViews, Copies, Unread
<1>9. FeedIsFaithful'
  <2> SUFFICES ASSUME ~doubled PROVE Newest(liveEvents, DueEvents')
    BY <1>1 DEF FeedIsFaithful, Newest, DueEvents
  <2>1. at[c] \notin read
    BY <1>1, <1>2 DEF ListIInv, Forward
  <2>2. DueEvents' = DueEvents
    BY <1>1, <2>1 DEF DueEvents
  <2> QED BY <2>2, FaithfulNewest DEF ListIInv
<1> QED BY <1>3, <1>4, <1>5, <1>6, <1>7, <1>8, <1>9, <1>10 DEF ListIInv

LEMMA KeepRestStep == ASSUME ListIInv, NEW c \in Conns, KeepRest(c) PROVE ListIInv'
<1>1. /\ chunkOf' = None /\ currentEvent' = 0 /\ currentData' = 0
      /\ \/ buffer' = buffer
         \/ /\ at[c] <= Len(emitted) /\ LineOn(c) # "end"
            /\ buffer' = [buffer EXCEPT ![c] = LineOn(c)]
      /\ UNCHANGED <<conn, emitted, at, lineNo, liveEvents, read, torn, doubled>>
      /\ conn[c] = "open" /\ c # None
  BY DEF KeepRest, MoreOf, ListIInv, InStream, vars, connVars
<1>6. /\ at[c] <= Len(emitted) => /\ at[c] \in 1 .. Len(emitted)
                                 /\ LineOn(c) \in {"event", "data", "end"}
  <2> SUFFICES ASSUME at[c] <= Len(emitted)
               PROVE  at[c] \in 1 .. Len(emitted) /\ LineOn(c) \in {"event", "data", "end"}
    OBVIOUS
  <2>1. at[c] \in 1 .. Len(emitted) /\ lineNo[c] < Len(LinesOf(at[c])) /\ lineNo[c] \in 0 .. 2
    BY <1>1, LenProperties DEF ListIInv, InStream, FeedType
  <2> QED BY <2>1 DEF LineOn, LinesOf
<1>7. buffer' \in [Conns -> {"none", "event", "data"}]
  BY <1>1, <1>6 DEF ListIInv, FeedType
<1>8. BufferRight'
  <2>1. \A d : LineOn(d)' = LineOn(d)
    BY <1>1 DEF LineOn, LinesOf
  <2>2. \A d \in Conns :
          buffer'[d] = buffer[d] \/ (d = c /\ at[c] \in 1 .. Len(emitted) /\ buffer'[c] = LineOn(c))
    BY <1>1, <1>6 DEF ListIInv, FeedType
  <2> QED BY <1>1, <2>1, <2>2 DEF ListIInv, BufferRight
<1>2. FeedType'
  BY <1>1, <1>7 DEF ListIInv, FeedType
<1>3. InStream'
  <2>1. \A n : LinesOf(n)' = LinesOf(n)
    BY <1>1 DEF LinesOf
  <2> QED BY <1>1, <2>1 DEF ListIInv, InStream
<1>4. ParserHolds' /\ ParserComplete'
  BY <1>1 DEF ParserHolds, ParserComplete
<1>5. Forward' /\ WithinViews' /\ FeedIsFaithful'
  BY <1>1 DEF ListIInv, Forward, WithinViews, Copies, Unread, FeedIsFaithful
<1> QED BY <1>2, <1>3, <1>4, <1>5, <1>8 DEF ListIInv

\* A line put together from the buffer and the chunk is the line that was sent.
LEMMA LineWhole ==
  ASSUME ListIInv, NEW c \in Conns, chunkOf = c
  PROVE  NextLine(c) = LineOn(c)
<1>1. conn[c] = "open"
  BY DEF ListIInv, InStream
<1> QED BY <1>1 DEF ListIInv, BufferRight, NextLine

\* A line that does not end an event.
LEMMA InsideStep ==
  ASSUME ListIInv, NEW c \in Conns, ReadLine(c), NextLine(c) # "end"
  PROVE  ListIInv'
<1>1. /\ chunkOf = c /\ at[c] <= Len(emitted) /\ ParseLine(NextLine(c), at[c])
      /\ buffer' = [buffer EXCEPT ![c] = "none"] /\ NextLine(c) = LineOn(c)
      /\ UNCHANGED <<conn, emitted, chunkOf, torn, doubled>>
  BY LineWhole DEF ReadLine, MoreOf, vars, connVars
<1>2. /\ conn[c] = "open" /\ c # None /\ at[c] \in 1 .. Len(emitted) /\ at[c] \in Nat \ {0}
      /\ lineNo[c] \in 0 .. 2 /\ lineNo[c] < Len(LinesOf(at[c]))
      /\ Holds(at[c], lineNo[c])
      /\ ~doubled => Complete(at[c], lineNo[c])
  BY <1>1, LenProperties DEF ListIInv, InStream, FeedType, ParserHolds, ParserComplete
<1>3. \/ emitted[at[c]] = "generic" /\ lineNo[c] = 0 /\ NextLine(c) = "data"
      \/ emitted[at[c]] # "generic" /\ lineNo[c] = 0 /\ NextLine(c) = "event"
      \/ emitted[at[c]] # "generic" /\ lineNo[c] = 1 /\ NextLine(c) = "data"
  BY <1>1, <1>2 DEF LineOn, LinesOf
<1>4. /\ lineNo[c] + 1 < Len(LinesOf(at[c])) /\ lineNo[c] + 1 \in 1 .. 2
      /\ lineNo' = [lineNo EXCEPT ![c] = @ + 1] /\ at' = at /\ read' = read
  <2>1. lineNo[c] + 1 < Len(LinesOf(at[c])) /\ lineNo[c] + 1 \in 1 .. 2
    BY <1>3 DEF LinesOf
  <2>2. lineNo[c] + 1 # Len(LinesOf(at[c]))
    BY <2>1
  <2> QED BY <2>1, <2>2 DEF ReadLine
<1>5. /\ liveEvents' = liveEvents
      /\ NextLine(c) = "event" => currentEvent' = at[c] /\ currentData' = currentData
      /\ NextLine(c) = "data" => currentData' = at[c] /\ currentEvent' = currentEvent
  BY <1>1, <1>3 DEF ParseLine
<1>6. \A d \in Conns : d # c => lineNo'[d] = lineNo[d]
  BY <1>4 DEF ListIInv, FeedType
<1>7. lineNo'[c] = lineNo[c] + 1
  BY <1>4 DEF ListIInv, FeedType
<1>8. FeedType'
  <2>1. lineNo' \in [Conns -> 0 .. 2]
    BY <1>4 DEF ListIInv, FeedType
  <2>2. buffer' \in [Conns -> {"none", "event", "data"}]
    BY <1>1 DEF ListIInv, FeedType
  <2>3. currentEvent' \in Nat /\ currentData' \in Nat
    BY <1>2, <1>3, <1>5 DEF ListIInv, FeedType
  <2> QED BY <1>1, <1>4, <1>5, <2>1, <2>2, <2>3 DEF ListIInv, FeedType
<1>9. InStream'
  <2>1. \A n : LinesOf(n)' = LinesOf(n)
    BY <1>1 DEF LinesOf
  <2> QED BY <1>1, <1>2, <1>4, <1>6, <1>7, <2>1 DEF ListIInv, InStream
<1>10. ParserHolds'
  BY <1>1, <1>2, <1>3, <1>4, <1>5, <1>7 DEF ParserHolds, Holds
<1>11. ParserComplete'
  <2> SUFFICES ASSUME ~doubled PROVE Complete(at[c], lineNo[c])'
    BY <1>1, <1>4 DEF ParserComplete
  <2>1. lineNo[c] = 0 => at[c] \notin torn
    BY <1>2 DEF ListIInv, Forward
  <2> QED BY <1>1, <1>2, <1>3, <1>4, <1>5, <1>7, <2>1 DEF Complete, Holds
<1>12. Forward'
  BY <1>1, <1>2, <1>4, <1>6, <1>7 DEF ListIInv, Forward
<1>13. WithinViews' /\ FeedIsFaithful'
  BY <1>1, <1>4, <1>5 DEF ListIInv, WithinViews, Copies, Unread, FeedIsFaithful
<1>14. BufferRight'
  <2>1. \A d \in Conns : d # c => LineOn(d)' = LineOn(d) /\ buffer'[d] = buffer[d] /\ at'[d] = at[d]
    BY <1>1, <1>4, <1>6 DEF ListIInv, FeedType, LineOn, LinesOf
  <2>2. buffer'[c] = "none"
    BY <1>1 DEF ListIInv, FeedType
  <2> QED BY <1>1, <2>1, <2>2 DEF ListIInv, BufferRight
<1> QED BY <1>8, <1>9, <1>10, <1>11, <1>12, <1>13, <1>14 DEF ListIInv

\* The line that ends an event: it is shown if it has all it needs.
LEMMA EndStep ==
  ASSUME ListIInv, NEW c \in Conns, ReadLine(c), NextLine(c) = "end"
  PROVE  ListIInv'
<1>1. /\ chunkOf = c /\ at[c] <= Len(emitted) /\ ParseLine("end", at[c])
      /\ buffer' = [buffer EXCEPT ![c] = "none"] /\ LineOn(c) = "end"
      /\ UNCHANGED <<conn, emitted, chunkOf, torn, doubled>>
  BY LineWhole DEF ReadLine, MoreOf, vars, connVars
<1>2. /\ conn[c] = "open" /\ c # None /\ at[c] \in 1 .. Len(emitted) /\ at[c] \in Nat \ {0}
      /\ Len(emitted) \in Nat
      /\ lineNo[c] \in 0 .. 2 /\ lineNo[c] < Len(LinesOf(at[c]))
      /\ Holds(at[c], lineNo[c])
      /\ ~doubled => Complete(at[c], lineNo[c])
  BY <1>1, LenProperties DEF ListIInv, InStream, FeedType, ParserHolds, ParserComplete
<1>3. /\ lineNo[c] > 0
      /\ \/ emitted[at[c]] = "generic" /\ lineNo[c] = 1 /\ Len(LinesOf(at[c])) = 2
         \/ emitted[at[c]] # "generic" /\ lineNo[c] = 2 /\ Len(LinesOf(at[c])) = 3
  BY <1>1, <1>2 DEF LineOn, LinesOf
<1>4. /\ lineNo' = [lineNo EXCEPT ![c] = 0] /\ at' = [at EXCEPT ![c] = @ + 1]
      /\ read' = read \cup {at[c]}
  <2>1. lineNo[c] + 1 = Len(LinesOf(at[c])) /\ ~(lineNo[c] + 1 < Len(LinesOf(at[c])))
    <3>1. PICK k, m : k = lineNo[c] /\ m = Len(LinesOf(at[c]))
      OBVIOUS
    <3>2. (k = 1 /\ m = 2) \/ (k = 2 /\ m = 3)
      BY <1>3, <3>1
    <3>3. k + 1 = m /\ ~(k + 1 < m)
      BY <3>2
    <3> QED BY <3>1, <3>3
  <2> QED BY <2>1 DEF ReadLine
<1>5. /\ currentData \in {0, at[c]} /\ currentEvent \in {0, at[c]}
      /\ currentData = 0 => currentEvent = 0
  BY <1>2, <1>3 DEF Holds
<1>6. currentEvent' = 0 /\ currentData' = 0
  BY <1>1, <1>5 DEF ParseLine
<1> DEFINE pushed == currentData # 0 /\ Recognised(currentEvent, at[c])
<1>7. /\ pushed => Pushed(liveEvents, at[c], liveEvents')
      /\ ~pushed => liveEvents' = liveEvents
  <2>1. CASE currentData = 0
    BY <1>1, <2>1 DEF ParseLine
  <2>2. CASE currentData # 0
    <3>1. currentData = at[c] /\ processEvent(currentEvent, at[c])
      BY <1>1, <1>5, <2>2 DEF ParseLine
    <3>2. CASE Recognised(currentEvent, at[c])
      <4>1. liveEvents' = SubSeq(<<at[c]>> \o liveEvents, 1,
                                 IF Len(liveEvents) < Cap THEN Len(liveEvents) + 1 ELSE Cap)
        BY <3>1, <3>2 DEF processEvent, addLiveEvent
      <4>2. liveEvents \in Seq(Nat) /\ Len(liveEvents) <= Cap /\ at[c] \in Nat
        BY <1>2 DEF ListIInv, FeedType
      <4>3. Pushed(liveEvents, at[c], liveEvents')
        BY <4>1, <4>2, PushedList
      <4> QED BY <2>2, <3>2, <4>3
    <3>3. CASE ~Recognised(currentEvent, at[c])
      BY <3>1, <3>3 DEF processEvent
    <3> QED BY <3>2, <3>3
  <2> QED BY <2>1, <2>2
<1>8. ~doubled => (pushed <=> at[c] \notin torn /\ emitted[at[c]] # "heartbeat")
  <2> SUFFICES ASSUME ~doubled PROVE pushed <=> at[c] \notin torn /\ emitted[at[c]] # "heartbeat"
    OBVIOUS
  <2>1. emitted[at[c]] \in Kinds
    BY <1>2, ElementOfSeq DEF ListIInv, FeedType
  <2>2. CASE emitted[at[c]] = "generic"
    BY <1>2, <1>3, <2>2 DEF Complete, Holds, Recognised
  <2>3. CASE emitted[at[c]] = "named"
    <3>1. CASE at[c] \in torn
      BY <1>2, <1>3, <2>3, <3>1 DEF Complete, Recognised
    <3>2. CASE at[c] \notin torn
      BY <1>2, <1>3, <2>3, <3>2 DEF Complete, Recognised
    <3> QED BY <3>1, <3>2
  <2>4. CASE emitted[at[c]] = "heartbeat"
    BY <2>4 DEF Recognised
  <2> QED BY <2>1, <2>2, <2>3, <2>4 DEF Kinds
<1> HIDE DEF pushed
<1>9. /\ at'[c] = at[c] + 1 /\ lineNo'[c] = 0
      /\ \A d \in Conns : d # c => at'[d] = at[d] /\ lineNo'[d] = lineNo[d]
  BY <1>4 DEF ListIInv, FeedType
<1>10. FeedType'
  <2>1. at' \in [Conns -> Nat \ {0}] /\ lineNo' \in [Conns -> 0 .. 2]
    BY <1>2, <1>4 DEF ListIInv, FeedType
  <2>2. buffer' \in [Conns -> {"none", "event", "data"}]
    BY <1>1 DEF ListIInv, FeedType
  <2>3. read' \subseteq 1 .. Len(emitted')
    BY <1>1, <1>2, <1>4 DEF ListIInv, FeedType
  <2>4. /\ liveEvents' \in Seq(Nat) /\ Len(liveEvents') <= Cap
        /\ \A k \in DOMAIN liveEvents' : liveEvents'[k] \in read'
    <3>1. \A k \in DOMAIN liveEvents : liveEvents[k] \in read
      BY DEF ListIInv, FeedType, Range
    <3>2. CASE pushed
      <4>1. /\ liveEvents' \in Seq(Nat)
            /\ Len(liveEvents') = IF Len(liveEvents) < Cap THEN Len(liveEvents) + 1 ELSE Cap
            /\ Len(liveEvents) \in Nat
            /\ \A k \in DOMAIN liveEvents' :
                 liveEvents'[k] = at[c] \/ \E j \in DOMAIN liveEvents : liveEvents'[k] = liveEvents[j]
        BY <1>7, <3>2 DEF Pushed
      <4>2. Len(liveEvents') <= Cap
        BY <4>1, SseFeedAssumptions
      <4> QED BY <1>4, <3>1, <4>1, <4>2
    <3>3. CASE ~pushed
      BY <1>4, <1>7, <3>1, <3>3 DEF ListIInv, FeedType
    <3> QED BY <3>2, <3>3
  <2>5. Range(liveEvents') \subseteq read'
    BY <2>4 DEF Range
  <2> QED BY <1>1, <1>6, <2>1, <2>2, <2>3, <2>4, <2>5 DEF ListIInv, FeedType
<1>11. InStream'
  <2>1. \A n : LinesOf(n)' = LinesOf(n)
    BY <1>1 DEF LinesOf
  <2>2. \/ at'[c] \in 1 .. Len(emitted) /\ lineNo'[c] < Len(LinesOf(at'[c]))
        \/ at'[c] = Len(emitted) + 1 /\ lineNo'[c] = 0
    <3>1. CASE at[c] = Len(emitted)
      BY <1>9, <3>1
    <3>2. CASE at[c] # Len(emitted)
      <4>1. at'[c] \in 1 .. Len(emitted)
        BY <1>2, <1>9, <3>2
      <4>2. PICK m : m = Len(LinesOf(at'[c]))
        OBVIOUS
      <4>3. m = 2 \/ m = 3
        BY <4>2 DEF LinesOf
      <4>4. 0 < m
        BY <4>3
      <4> QED BY <1>9, <4>1, <4>2, <4>4
    <3> QED BY <3>1, <3>2
  <2> QED BY <1>1, <1>2, <1>9, <2>1, <2>2 DEF ListIInv, InStream
<1>12. ParserHolds' /\ ParserComplete'
  BY <1>1, <1>6, <1>9 DEF ParserHolds, Holds, ParserComplete, Complete
<1>13. Forward'
  <2> SUFFICES ASSUME ~doubled, NEW d \in Conns, conn[d] = "open"
               PROVE  /\ \A e \in Conns : conn[e] = "open" => e = d
                      /\ \A n \in read' : n < at'[d]
                      /\ \A n \in torn : n < at'[d] \/ (n = at'[d] /\ lineNo'[d] > 0)
    BY <1>1 DEF Forward
  <2>1. /\ d = c /\ \A e \in Conns : conn[e] = "open" => e = d
        /\ \A n \in read : n < at[c]
        /\ \A n \in torn : n < at[c] \/ n = at[c]
    BY <1>2 DEF ListIInv, Forward
  <2>2. read \subseteq Nat /\ torn \subseteq Nat
    BY <1>2 DEF ListIInv, FeedType
  <2>3. \A n \in read \cup torn \cup {at[c]} : n < at[c] + 1
    BY <1>2, <2>1, <2>2
  <2> QED BY <1>4, <1>9, <2>1, <2>3
<1>14. WithinViews'
  <2> SUFFICES ASSUME NEW n \in 1 .. Len(emitted)
               PROVE  /\ IsFiniteSet(Unread(n)')
                      /\ Cardinality(Copies(liveEvents', n)) + Cardinality(Unread(n)') <= Cardinality(Views)
    BY <1>1 DEF WithinViews, Copies
  <2>1. PICK S, T, C, D : /\ S = Unread(n) /\ T = Unread(n)'
                          /\ C = Cardinality(Copies(liveEvents, n)) /\ D = Cardinality(Copies(liveEvents', n))
    OBVIOUS
  <2>2. IsFiniteSet(S) /\ C + Cardinality(S) <= Cardinality(Views)
    BY <2>1 DEF ListIInv, WithinViews
  <2>3. T = IF n = at[c] THEN S \ {c} ELSE S
    <3>1. \A d \in Conns : at[d] \in Nat
      BY DEF ListIInv, FeedType
    <3> QED BY <1>1, <1>2, <1>9, <2>1, <3>1 DEF Unread
  <2>4. n = at[c] => c \in S
    BY <1>2, <2>1 DEF Unread
  <2>5. /\ IsFiniteSet(T) /\ Cardinality(S) \in Nat
        /\ Cardinality(T) = IF n = at[c] THEN Cardinality(S) - 1 ELSE Cardinality(S)
    BY <2>2, <2>3, <2>4, FS_RemoveElement, FS_CardinalityType
  <2>6. C \in Nat /\ D \in Nat /\ Cardinality(Views) \in Nat
    BY <1>10, <2>1, CopiesFinite, SseFeedAssumptions, FS_CardinalityType DEF ListIInv, FeedType
  <2>7. D <= C + (IF n = at[c] THEN 1 ELSE 0)
    <3>1. CASE pushed
      BY <1>7, <2>1, <3>1, PushedCopies DEF ListIInv, FeedType
    <3>2. CASE ~pushed
      BY <1>7, <2>1, <2>6, <3>2
    <3> QED BY <3>1, <3>2
  <2>8. D + Cardinality(T) <= Cardinality(Views)
    BY <2>2, <2>5, <2>6, <2>7
  <2> QED BY <2>1, <2>5, <2>8
<1>15. FeedIsFaithful'
  <2> SUFFICES ASSUME ~doubled PROVE Newest(liveEvents', DueEvents')
    BY <1>1 DEF FeedIsFaithful, Newest, DueEvents
  <2>1. Newest(liveEvents, DueEvents)
    BY FaithfulNewest DEF ListIInv
  <2>2. DueEvents \subseteq Nat /\ \A m \in DueEvents : m < at[c]
    <3>1. read \subseteq 1 .. Len(emitted) /\ Len(emitted) \in Nat
      BY DEF ListIInv, FeedType
    <3>2. \A m \in read : m < at[c]
      BY <1>2 DEF ListIInv, Forward
    <3>3. DueEvents \subseteq read
      BY DEF DueEvents
    <3> QED BY <3>1, <3>2, <3>3
  <2>3. CASE pushed
    <3>1. DueEvents' = DueEvents \cup {at[c]}
      BY <1>1, <1>4, <1>8, <2>3 DEF DueEvents
    <3>2. liveEvents \in Seq(Nat)
      BY DEF ListIInv, FeedType
    <3> QED BY <1>2, <1>7, <2>1, <2>2, <2>3, <3>1, <3>2, PushedNewest
  <2>4. CASE ~pushed
    <3>1. DueEvents' = DueEvents
      BY <1>1, <1>4, <1>8, <2>4 DEF DueEvents
    <3> QED BY <1>7, <2>1, <2>4, <3>1
  <2> QED BY <2>3, <2>4
<1>16. BufferRight'
  <2>1. \A d \in Conns : d # c => LineOn(d)' = LineOn(d) /\ buffer'[d] = buffer[d] /\ at'[d] = at[d]
    BY <1>1, <1>9 DEF ListIInv, FeedType, LineOn, LinesOf
  <2>2. buffer'[c] = "none"
    BY <1>1 DEF ListIInv, FeedType
  <2> QED BY <1>1, <2>1, <2>2 DEF ListIInv, BufferRight
<1> QED BY <1>10, <1>11, <1>12, <1>13, <1>14, <1>15, <1>16 DEF ListIInv

LEMMA ListStart == ASSUME FeedInit PROVE ListIInv
<1>1. /\ emitted = <<>> /\ at = [c \in Conns |-> 1] /\ lineNo = [c \in Conns |-> 0]
      /\ buffer = [c \in Conns |-> "none"] /\ chunkOf = None /\ currentEvent = 0 /\ currentData = 0
      /\ liveEvents = <<>> /\ read = {} /\ torn = {} /\ doubled = FALSE
      /\ conn = [c \in Conns |-> "over"]
  BY DEF FeedInit, Init
<1>2. Len(emitted) = 0 /\ Len(liveEvents) = 0 /\ Range(liveEvents) = {}
  BY <1>1 DEF Range
<1>3. FeedType
  <2>1. /\ at \in [Conns -> Nat \ {0}] /\ lineNo \in [Conns -> 0 .. 2]
        /\ buffer \in [Conns -> {"none", "event", "data"}]
    BY <1>1
  <2>2. emitted \in Seq(Kinds) /\ liveEvents \in Seq(Nat)
    BY <1>1
  <2>3. Len(liveEvents) <= Cap
    BY <1>2, SseFeedAssumptions
  <2> QED BY <1>1, <1>2, <2>1, <2>2, <2>3 DEF FeedType
<1>4. InStream /\ BufferRight /\ ParserHolds /\ ParserComplete /\ Forward
  BY <1>1 DEF InStream, BufferRight, ParserHolds, ParserComplete, Forward
<1>5. WithinViews
  BY <1>2 DEF WithinViews
<1>6. FeedIsFaithful
  BY <1>1, <1>2 DEF FeedIsFaithful
<1> QED BY <1>3, <1>4, <1>5, <1>6 DEF ListIInv

LEMMA ListStep == ASSUME SseInv, ListIInv, [FeedNext]_<<vars, feedVars>> PROVE ListIInv'
<1>1. CASE ClientStep
  BY <1>1, ClientListStep
<1>2. CASE \E k \in Kinds : Emit(k)
  BY <1>2, EmitListStep
<1>3. CASE \E c \in Conns : ReadChunk(c) \/ ReadLine(c) \/ KeepRest(c)
  BY <1>3, ReadChunkStep, InsideStep, EndStep, KeepRestStep
<1>4. CASE UNCHANGED <<vars, feedVars>>
  <2>1. UNCHANGED <<conn, emitted, at, lineNo, buffer, chunkOf, currentEvent, currentData, liveEvents,
                    read, torn, doubled>>
    BY <1>4 DEF vars, connVars, feedVars, streamVars, chunkVars
  <2>2. \A n : LinesOf(n)' = LinesOf(n)
    BY <2>1 DEF LinesOf
  <2>3. FeedType' /\ InStream' /\ BufferRight'
    BY <2>1, <2>2 DEF ListIInv, FeedType, InStream, BufferRight, LineOn
  <2>4. ParserHolds' /\ ParserComplete'
    BY <2>1 DEF ListIInv, ParserHolds, ParserComplete, Holds, Complete
  <2>5. Forward' /\ WithinViews' /\ FeedIsFaithful'
    BY <2>1 DEF ListIInv, Forward, WithinViews, Copies, Unread, FeedIsFaithful
  <2> QED BY <2>3, <2>4, <2>5 DEF ListIInv
<1> QED BY <1>1, <1>2, <1>3, <1>4 DEF FeedNext

\* Whatever the server sends, however it is cut into chunks and whatever the
\* connections go through, the live list (addLiveEvent of monitorStore.ts, fed
\* by the read loop and processEvent of useSSE.ts) is the newest events that
\* were read whole, in order, each once, while one stream is open at a time;
\* with more it stays within its cap and shows an event once per view at most.
THEOREM FeedIsRight == FeedSpec => []FeedInv
<1>1. FeedInit => FeedIInv /\ ListIInv
  BY FeedIInvInit, ListStart
<1>2. FeedIInv /\ ListIInv /\ [FeedNext]_<<vars, feedVars>> => (FeedIInv /\ ListIInv)'
  BY FeedIInvStep, ListStep DEF FeedIInv
<1>3. FeedIInv /\ ListIInv => FeedInv
  <2> SUFFICES ASSUME FeedIInv, ListIInv PROVE FeedInv
    OBVIOUS
  <2>1. TypeOK /\ FeedIsFaithful
    BY DEF FeedIInv, SseInv, ListIInv
  <2>2. ASSUME NEW n \in read
        PROVE  Cardinality({k \in DOMAIN liveEvents : liveEvents[k] = n}) <= Cardinality(Views)
    <3>1. /\ n \in 1 .. Len(emitted) /\ IsFiniteSet(Unread(n))
          /\ Cardinality(Copies(liveEvents, n)) + Cardinality(Unread(n)) <= Cardinality(Views)
      BY DEF ListIInv, FeedType, WithinViews
    <3>2. Cardinality(Copies(liveEvents, n)) \in Nat /\ Cardinality(Unread(n)) \in Nat
          /\ Cardinality(Views) \in Nat
      BY <3>1, CopiesFinite, SseFeedAssumptions, FS_CardinalityType DEF ListIInv, FeedType
    <3>3. Cardinality(Copies(liveEvents, n)) <= Cardinality(Views)
      BY <3>1, <3>2
    <3> QED BY <3>3 DEF Copies
  <2>3. FeedIsBounded
    BY <2>2 DEF FeedIsBounded, ListIInv, FeedType
  <2> QED BY <2>1, <2>3 DEF FeedInv
<1> QED BY <1>1, <1>2, <1>3, PTL DEF FeedSpec
=============================================================================
