------------------------------ MODULE SseFeed ------------------------------
(***************************************************************************)
(* What the live event stream puts on the dashboard: the read loop and     *)
(* processEvent of src/composables/useSSE.ts and addLiveEvent of the       *)
(* monitor store, on top of the connections of SseClient.                  *)
(*                                                                         *)
(* The server sends every event to every open stream, as lines; a stream   *)
(* arrives in chunks cut anywhere.  A connection is in the middle of an    *)
(* event, at[c], of which lineNo[c] lines were read; the text of the next  *)
(* may have come without its newline (buffer[c]).  The loop over the       *)
(* lines of a chunk runs to its end before anything else happens on the    *)
(* page; it is modelled line by line, so that a chunk may have any number. *)
(* An event is its number, and of one of three kinds: "named"              *)
(* (security_event and alert, which need their event line), "generic" (no  *)
(* event line, the type is in the data) and "heartbeat" (nothing to show). *)
(***************************************************************************)
EXTENDS SseClient, Sequences, FiniteSets, SequencesExt

CONSTANTS
  Scripts,     \* bound: the kinds of the events sent, in sequence
  Cap          \* live events kept (100)

Kinds == {"named", "generic", "heartbeat"}

ASSUME SseFeedAssumptions ==
  Scripts \subseteq Seq(Kinds) /\ Cap \in Nat \ {0} /\ IsFiniteSet(Views)

VARIABLES
  emitted,     \* kinds of the events sent so far
  at, lineNo,  \* per connection: the event it is in, and how many lines of it were read
  buffer,      \* per connection: the text after the last newline ("none": empty)
  chunkOf,     \* the connection whose chunk is being read, or None
  currentEvent, currentData,   \* of that chunk: the event whose line it was (0: empty)
  liveEvents,  \* store.liveEvents, newest first
  read, torn,  \* ghosts: events read to their end, and those of which the
               \* lines did not end in one chunk
  doubled,     \* ghost: two streams were open at once
  ended,       \* ghost: a stream was ended by the server since live was set
  late         \* ghost: views left with their first load, a reconnect or an
               \* error response due

streamVars == <<at, lineNo, buffer>>
chunkVars == <<chunkOf, currentEvent, currentData>>
feedVars == <<emitted, streamVars, chunkVars, liveEvents, read, torn, doubled, ended, late>>

FeedInit ==
  /\ Init
  /\ emitted = <<>>
  /\ at = [c \in Conns |-> 1] /\ lineNo = [c \in Conns |-> 0] /\ buffer = [c \in Conns |-> "none"]
  /\ chunkOf = None /\ currentEvent = 0 /\ currentData = 0
  /\ liveEvents = <<>>
  /\ read = {} /\ torn = {} /\ doubled = FALSE /\ ended = FALSE /\ late = {}

-----------------------------------------------------------------------------
(* The stream of a connection (external: Socrate's event stream).          *)

LinesOf(n) == IF emitted[n] = "generic" THEN <<"data", "end">> ELSE <<"event", "data", "end">>

\* An event is sent; one that no open stream gets is not counted.
Emit(k) ==
  /\ chunkOf = None
  /\ \E c \in Conns : conn[c] = "open"
  /\ \E s \in Scripts : IsPrefix(Append(emitted, k), s)
  /\ emitted' = Append(emitted, k)
  /\ UNCHANGED <<vars, streamVars, chunkVars, liveEvents, read, torn, doubled, ended, late>>

\* What is next on the stream of c.
MoreOf(c) == at[c] <= Len(emitted)
LineOn(c) == LinesOf(at[c])[lineNo[c] + 1]

-----------------------------------------------------------------------------
(* useSSE's read loop.                                                     *)

\* A chunk arrives.  currentEvent and currentData start empty in each; an
\* event of which a line was read is torn.
ReadChunk(c) ==
  /\ chunkOf = None /\ conn[c] = "open" /\ MoreOf(c)
  /\ chunkOf' = c /\ currentEvent' = 0 /\ currentData' = 0
  /\ torn' = IF lineNo[c] > 0 THEN torn \cup {at[c]} ELSE torn
  /\ UNCHANGED <<vars, emitted, streamVars, liveEvents, read, doubled, ended, late>>

\* Mutant: the incomplete line is not kept, and of it only the newline is left.
NextLineUnbuffered(c) == IF buffer[c] = "none" THEN LineOn(c) ELSE "end"

\* The line up to the next newline: what is in the buffer, or comes whole.
NextLine(c) == IF buffer[c] = "none" THEN LineOn(c) ELSE buffer[c]

addLiveEvent(n) ==
  liveEvents' = SubSeq(<<n>> \o liveEvents, 1, IF Len(liveEvents) < Cap THEN Len(liveEvents) + 1 ELSE Cap)

\* A named event without its type is not recognised.
Recognised(type, data) ==
  \/ emitted[data] = "generic" /\ type = 0
  \/ emitted[data] = "named" /\ type # 0 /\ emitted[type] = "named"

processEvent(type, data) ==
  IF Recognised(type, data) THEN addLiveEvent(data) ELSE UNCHANGED liveEvents

\* What the loop does with a line.
ParseLine(line, n) ==
  \/ line = "event" /\ currentEvent' = n /\ UNCHANGED <<currentData, liveEvents>>
  \/ line = "data" /\ currentData' = n /\ UNCHANGED <<currentEvent, liveEvents>>
  \/ /\ line = "end" /\ currentData # 0
     /\ processEvent(currentEvent, currentData)
     /\ currentEvent' = 0 /\ currentData' = 0
  \/ line = "end" /\ currentData = 0 /\ UNCHANGED <<currentEvent, currentData, liveEvents>>

\* The chunk has another newline.
ReadLine(c) ==
  /\ chunkOf = c /\ MoreOf(c)
  /\ ParseLine(NextLine(c), at[c])
  /\ buffer' = [buffer EXCEPT ![c] = "none"]
  /\ \/ /\ lineNo[c] + 1 < Len(LinesOf(at[c]))
        /\ lineNo' = [lineNo EXCEPT ![c] = @ + 1]
        /\ UNCHANGED <<at, read>>
     \/ /\ lineNo[c] + 1 = Len(LinesOf(at[c]))
        /\ lineNo' = [lineNo EXCEPT ![c] = 0]
        /\ at' = [at EXCEPT ![c] = @ + 1]
        /\ read' = read \cup {at[c]}
  /\ UNCHANGED <<vars, emitted, chunkOf, torn, doubled, ended, late>>

\* The chunk has no other newline: what is left, if anything, is kept in the
\* buffer with what was there; currentEvent and currentData are gone.
KeepRest(c) ==
  /\ chunkOf = c
  /\ chunkOf' = None /\ currentEvent' = 0 /\ currentData' = 0
  /\ \/ UNCHANGED buffer
     \/ /\ buffer[c] = "none" /\ MoreOf(c) /\ LineOn(c) # "end"
        /\ buffer' = [buffer EXCEPT ![c] = LineOn(c)]
  /\ UNCHANGED <<vars, emitted, at, lineNo, liveEvents, read, torn, doubled, ended, late>>

\* Everything else SseClient does; a stream that opens starts with the next
\* event.
ClientStep ==
  /\ chunkOf = None
  /\ Next
  /\ LET going == {c \in Conns : conn[c] = "open" /\ conn'[c] = "open"}
         first(c) == IF conn'[c] = "open" THEN Len(emitted) + 1 ELSE 1
     IN
     /\ at' = [c \in Conns |-> IF c \in going THEN at[c] ELSE first(c)]
     /\ lineNo' = [c \in Conns |-> IF c \in going THEN lineNo[c] ELSE 0]
     /\ buffer' = [c \in Conns |-> IF c \in going THEN buffer[c] ELSE "none"]
  /\ doubled' = (doubled \/ \E c, d \in Conns : c # d /\ conn'[c] = "open" /\ conn'[d] = "open")
  /\ ended' = (live' /\ (ended \/ \E c \in Conns : StreamEnds(c)))
  /\ late' = late \cup {v \in Views : /\ life[v] = "mounted" /\ life'[v] = "unmounted"
                                     /\ \/ loading[v] \/ timers[v] > 0
                                        \/ \E c \in Conns : of[c] = v /\ conn[c] = "body"}
  /\ UNCHANGED <<emitted, chunkVars, liveEvents, read, torn>>

FeedNext ==
  \/ ClientStep
  \/ \E k \in Kinds : Emit(k)
  \/ \E c \in Conns : ReadChunk(c) \/ ReadLine(c) \/ KeepRest(c)

FeedSpec == FeedInit /\ [][FeedNext]_<<vars, feedVars>> /\ Fairness

-----------------------------------------------------------------------------
(* Properties.                                                             *)

\* The live list is exactly the events read that are to be shown, newest
\* first, each once, the newest Cap of them, whatever the chunks and however
\* often the stream was opened again: a line cut in two is put together.  Not
\* shown is an event whose lines ended in different chunks.  Two streams at
\* once, of a dashboard that is gone and the one shown, are left out.
FeedIsFaithful ==
  ~doubled =>
    LET due == {n \in read \ torn : emitted[n] # "heartbeat"} IN
    /\ Range(liveEvents) \subseteq due
    /\ \A j, k \in DOMAIN liveEvents : j < k => liveEvents[j] > liveEvents[k]
    /\ \A n \in due \ Range(liveEvents) :
         Len(liveEvents) = Cap /\ \A k \in DOMAIN liveEvents : liveEvents[k] > n

\* Whatever streams are open, the list never holds more than Cap events, none
\* that was not read to its end, and none more often than there were streams
\* to read it.
FeedIsBounded ==
  /\ Len(liveEvents) <= Cap
  /\ Range(liveEvents) \subseteq read
  /\ \A n \in read : Cardinality({k \in DOMAIN liveEvents : liveEvents[k] = n})
                       <= Cardinality(Views)

\* The live list is right with one stream and within bounds with any number.
FeedInv == TypeOK /\ FeedIsFaithful /\ FeedIsBounded

\* The Live indicator (README: "a live indicator and automatic reconnection")
\* is on only while a stream is open, through every failure, sign-out and
\* change of view, except after the server itself ended a stream.
LiveUnlessEnded == live => (ended \/ \E c \in Conns : conn[c] = "open")

\* "Auto-cleanup on unmount": a dashboard that was left has no stream and no
\* request for one, except if its first load, a reconnect or an error response
\* was due when it was left.
QuietUnlessLate ==
  \A c \in Conns :
    (conn[c] \in {"fetch", "open"} /\ life[of[c]] = "unmounted") => of[c] \in late
=============================================================================
