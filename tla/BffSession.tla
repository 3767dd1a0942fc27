----------------------------- MODULE BffSession -----------------------------
(***************************************************************************)
(* The life of one console session in the backend-for-frontend: the row in *)
(* the session store, the tokens it holds, and the handlers that use it    *)
(* concurrently (bff/auth.go, bff/server.go, bff/stores.go).               *)
(*                                                                         *)
(* Sessions share nothing but the counter of failed store statements, and  *)
(* their ids are 32 random bytes, so one session is modelled; what the     *)
(* requests of other sessions do to the counter is the action              *)
(* OtherStatementFails.                                                    *)
(*                                                                         *)
(* Three parts are libraries or services outside this repository, modelled *)
(* from how the code and its tests use them: backendkit's session stores   *)
(* (Get, Put, Delete, Sweep), backendkit's Gateway (EnsureFresh and        *)
(* ProxyWithSession) and the issuer, Socrate, whose refresh tokens are     *)
(* single use.                                                             *)
(***************************************************************************)
EXTENDS Integers, FiniteSets

CONSTANTS
  Requests,    \* slots for requests in flight; a slot is used again once answered
  Durable,     \* TRUE: Postgres store, FALSE: memory store
  MaxTokens,   \* bound on the refresh tokens the issuer hands out
  MaxErrors    \* bound on the failed store statements

ASSUME BffSessionAssumptions ==
  /\ Durable \in BOOLEAN
  /\ MaxTokens \in Nat \ {0}
  /\ MaxErrors \in Nat

Kinds == {"session", "proxy", "elevate", "logout"}

\* Where a handler stands.  "get" .. "put" is currentSession, "main" the
\* handler's own code, "wait" a caller of EnsureFresh, "use" the upstream
\* call, "kill" the fatal branch, "revoke" .. "check" the rest of logout.
Idle    == {"idle", "done"}
Holding == {"put", "main", "wait", "use", "kill", "revoke", "load", "delete", "check"}
PCs     == Idle \cup {"get", "nosess"} \cup Holding

\* What the caller is told.  "loggedOut" and "nothingToDo" are both 204 on
\* the wire: a logout that deleted a session, and one that found none.
Answers == {"none", "authenticated", "anonymous", "served", "elevated", "challenged",
            "upstream502", "refused401", "refused403", "limited429",
            "loggedOut", "nothingToDo", "incomplete500"}

\* The answers that treat the caller as signed in.
SignedIn == {"authenticated", "served", "elevated"}

\* The tokens of a session: the serial number of the refresh token (0: none)
\* and whether the access token is the one a step-up returned.
TokenSet == [rt : 0 .. MaxTokens, el : BOOLEAN]
NoTokens == [rt |-> 0, el |-> FALSE]

Phases   == {"none", "sent", "ok", "rejected", "down"}
NoFlight == [phase |-> "none", rt |-> 0]

VARIABLES
  row,      \* the store's row: "none" yet, "live", "tomb"stoned, "gone"
  val,      \* its tokens; with the memory store, the object every handler shares
  errs,     \* stores.sessionErrors
  cookie,   \* the browser holds the session cookie
  pc, kind,
  sent,     \* the request carried the session cookie
  held,     \* the tokens the handler holds (memory store: only what logout copied)
  before,   \* the counter logout read before its Delete
  answer,
  flight,   \* the gateway's one refresh in flight for the session
  issued,   \* issuer: refresh tokens handed out so far
  good,     \* issuer: the refresh token it accepts, 0 when there is none
  ended,    \* history: a Delete of the session succeeded
  late,     \* history: the request began after that
  lost,     \* history: a rotated token never reached the store
  spent,    \* history: a token used before was presented again
  latest,   \* history: the tokens of the last sign-in, refresh or step-up stored
  stale,    \* history: handlers whose copy was read before the last of those
  overwritten \* history: one of them wrote its copy back since

store    == <<row, val, errs>>
issuer   == <<issued, good>>
request  == <<kind, sent, late>>
history  == <<ended, lost, spent>>
copies   == <<latest, stale, overwritten>>
vars     == <<store, cookie, pc, request, held, before, answer, flight, issuer, history, copies>>

Init ==
  /\ row = "none" /\ val = NoTokens /\ errs = 0
  /\ cookie = FALSE
  /\ pc = [r \in Requests |-> "idle"]
  /\ kind = [r \in Requests |-> "session"]
  /\ sent = [r \in Requests |-> FALSE]
  /\ held = [r \in Requests |-> NoTokens]
  /\ before = [r \in Requests |-> 0]
  /\ answer = [r \in Requests |-> "none"]
  /\ flight = NoFlight
  /\ issued = 0 /\ good = 0
  /\ ended = FALSE
  /\ late = [r \in Requests |-> FALSE]
  /\ lost = FALSE /\ spent = FALSE
  /\ latest = NoTokens /\ stale = {} /\ overwritten = FALSE

-----------------------------------------------------------------------------
(* The session store (external).  The memory store hands out the stored    *)
(* object itself and its statements cannot fail; the Postgres store        *)
(* rehydrates a copy per Get, writes the whole copy per Put, and reports a *)
(* failed statement only to the error handler, which counts it.            *)

StatementFails ==
  /\ Durable /\ errs < MaxErrors
  /\ errs' = errs + 1
  /\ UNCHANGED <<row, val>>

\* Put is an upsert that never revives a tombstone.  A row that timed out,
\* or was swept, since the handler's Get is written again: the idle window
\* starts anew, but a session past its absolute timeout stays too old.
StoreWrites(v) ==
  /\ CASE row = "tomb" -> row' = "tomb"
       [] row = "gone" -> row' \in {"live", "gone"}
       [] OTHER        -> row' = "live"
  /\ val' = IF Durable /\ row = "tomb" THEN val ELSE v
  /\ UNCHANGED errs

\* Delete leaves a tombstone, of a row that was just swept too.
StoreDeletes ==
  /\ row' = "tomb"
  /\ ended' = TRUE
  /\ UNCHANGED <<val, errs>>

\* The session object a handler works on.
Session(r) == IF Durable THEN held[r] ELSE val

\* Mutant: an unconditional insert, as the memory store's Put once was.
WriteBackRevives(v) ==
  \/ row' = "live" /\ val' = v /\ UNCHANGED errs
  \/ StatementFails

\* Server.writeBack: persist the session, or lose the write to a failed
\* statement.
WriteBack(v) == StoreWrites(v) \/ StatementFails

Answer(r, a) ==
  /\ pc' = [pc EXCEPT ![r] = "done"]
  /\ answer' = [answer EXCEPT ![r] = a]
  /\ held' = [held EXCEPT ![r] = NoTokens]
  /\ before' = [before EXCEPT ![r] = 0]

\* ... and lets its copy go.
Reply(r, a) ==
  /\ Answer(r, a)
  /\ stale' = stale \ {r}
  /\ UNCHANGED <<latest, overwritten>>

Goto(r, l) ==
  /\ pc' = [pc EXCEPT ![r] = l]
  /\ UNCHANGED answer

\* The other handlers that work on a copy of the row.
Others(r) == {q \in Requests \ {r} : Durable /\ pc[q] \in Holding}

\* The store takes a write: it is not refused by a tombstone, and succeeds.
Taken == row' # "tomb" /\ errs' = errs

\* The store took the tokens of r's step-up: every other copy is out of date.
StepUpStored(r) ==
  /\ latest' = IF Taken THEN [latest EXCEPT !.el = TRUE] ELSE latest
  /\ stale' = IF Taken THEN (stale \cup Others(r)) \ {r} ELSE stale \ {r}

\* r wrote what it holds; was that read before the row last changed?
WroteCopy(r) == overwritten' = (overwritten \/ (r \in stale /\ Taken))

\* No handler is between its Get and its last write.
Quiet == \A r \in Requests : pc[r] \notin Holding

-----------------------------------------------------------------------------
(* handleCallback, from the point where the code was exchanged: create the *)
(* session, store it, set the cookie.  A failed Put is not noticed.        *)
Callback ==
  /\ row = "none"
  /\ issued' = 1 /\ good' = 1
  /\ cookie' = TRUE
  /\ \/ StoreWrites([rt |-> 1, el |-> FALSE])
     \/ /\ Durable /\ errs < MaxErrors
        /\ errs' = errs + 1 /\ row' = "gone" /\ UNCHANGED val
  /\ latest' = [rt |-> 1, el |-> FALSE]
  /\ UNCHANGED <<pc, request, held, before, answer, flight, history, stale, overwritten>>

\* The browser sends a request, with the cookie if it has it.
Begin(r, k) ==
  /\ row # "none"
  /\ pc[r] \in Idle
  /\ kind' = [kind EXCEPT ![r] = k]
  /\ sent' = [sent EXCEPT ![r] = cookie]
  /\ late' = [late EXCEPT ![r] = ended]
  /\ pc' = [pc EXCEPT ![r] = "get"]
  /\ answer' = [answer EXCEPT ![r] = "none"]
  /\ UNCHANGED <<store, cookie, held, before, flight, issuer, history, copies>>

\* handleElevate's budget is spent: nothing else happens.
RateLimited(r) ==
  /\ pc[r] = "get" /\ kind[r] = "elevate"
  /\ Reply(r, "limited429")
  /\ UNCHANGED <<store, cookie, request, flight, issuer, history>>

\* Mutant: a miss does not stop the handler.
GetFailsOpen(r) ==
  /\ pc[r] = "get"
  /\ Goto(r, "put")
  /\ UNCHANGED <<store, held, cookie, request, before, flight, issuer, history, copies>>

\* Mutant: the lookup does not check the timeouts.
GetStale(r) ==
  /\ pc[r] = "get"
  /\ \/ /\ sent[r] /\ row \in {"live", "gone"}
        /\ held' = [held EXCEPT ![r] = IF Durable THEN val ELSE NoTokens]
        /\ Goto(r, "put")
     \/ /\ ~(sent[r] /\ row \in {"live", "gone"})
        /\ Goto(r, "nosess")
        /\ UNCHANGED held
  /\ UNCHANGED <<store, cookie, request, before, flight, issuer, history, copies>>

\* currentSession, first half: the lookup.  A read error means no session.
Get(r) ==
  /\ pc[r] = "get"
  /\ \/ /\ sent[r] /\ row = "live"
        /\ held' = [held EXCEPT ![r] = IF Durable THEN val ELSE NoTokens]
        /\ Goto(r, "put")
        /\ UNCHANGED store
     \/ /\ ~(sent[r] /\ row = "live")
        /\ Goto(r, "nosess")
        /\ UNCHANGED <<store, held>>
     \/ /\ sent[r] /\ StatementFails
        /\ Goto(r, "nosess")
        /\ UNCHANGED held
  /\ UNCHANGED <<cookie, request, before, flight, issuer, history, copies>>

\* currentSession, second half: slide the idle window and write back.
Touch(r) ==
  /\ pc[r] = "put"
  /\ WriteBack(Session(r))
  /\ WroteCopy(r)
  /\ Goto(r, "main")
  /\ UNCHANGED <<cookie, request, held, before, flight, issuer, history, latest, stale>>

\* The handlers' branches for a request without a session.
NoSession(r) ==
  /\ pc[r] = "nosess"
  /\ Reply(r, CASE kind[r] = "session" -> "anonymous"
                 [] kind[r] = "logout"  -> "nothingToDo"
                 [] OTHER               -> "refused401")
  /\ cookie' = IF kind[r] = "logout" THEN FALSE ELSE cookie
  /\ UNCHANGED <<store, request, flight, issuer, history>>

\* The double-submit check of the mutating routes fails: the header the
\* browser sent, or left out, is an input of the step.
RefuseCSRF(r) ==
  /\ pc[r] = "main" /\ kind[r] # "session"
  /\ Reply(r, "refused403")
  /\ UNCHANGED <<store, cookie, request, flight, issuer, history>>

\* handleSession with a session.
AnswerSession(r) ==
  /\ pc[r] = "main" /\ kind[r] = "session"
  /\ Reply(r, "authenticated")
  /\ UNCHANGED <<store, cookie, request, flight, issuer, history>>

-----------------------------------------------------------------------------
(* handleLogout.                                                           *)

\* revokeSessionTokens, first line: copy the tokens out of the session.
ReadTokens(r) ==
  /\ pc[r] = "main" /\ kind[r] = "logout"
  /\ held' = [held EXCEPT ![r] = Session(r)]
  /\ Goto(r, "revoke")
  /\ UNCHANGED <<store, cookie, request, before, flight, issuer, history, copies>>

\* The rest of it: revoke at the issuer, ignoring failures.
Revoke(r) ==
  /\ pc[r] = "revoke"
  /\ good' \in {good, IF held[r].rt = good THEN 0 ELSE good}
  /\ Goto(r, "load")
  /\ UNCHANGED <<store, cookie, request, held, before, flight, issued, history, copies>>

\* stores.deleteSession reads the error counter, ...
LoadErrors(r) ==
  /\ pc[r] = "load"
  /\ before' = [before EXCEPT ![r] = errs]
  /\ Goto(r, "delete")
  /\ UNCHANGED <<store, cookie, request, held, flight, issuer, history, copies>>

\* ... deletes, ...
Delete(r) ==
  /\ pc[r] = "delete"
  /\ \/ StoreDeletes
     \/ StatementFails /\ UNCHANGED ended
  /\ Goto(r, "check")
  /\ UNCHANGED <<cookie, request, held, before, flight, issuer, lost, spent, copies>>

\* Mutant: the counter is not compared.
CheckNothing(r) ==
  /\ pc[r] = "check"
  /\ Reply(r, "loggedOut")
  /\ cookie' = FALSE
  /\ UNCHANGED <<store, request, flight, issuer, history>>

\* ... and reads the counter again.  The cookie is cleared either way.
CheckErrors(r) ==
  /\ pc[r] = "check"
  /\ Reply(r, IF errs = before[r] THEN "loggedOut" ELSE "incomplete500")
  /\ cookie' = FALSE
  /\ UNCHANGED <<store, request, flight, issuer, history>>

-----------------------------------------------------------------------------
(* The refresh (Gateway.EnsureFresh, external): one in flight per session, *)
(* joined by every caller, its result written through to the store.        *)

NeedsToken(r) == pc[r] = "main" /\ kind[r] \in {"proxy", "elevate"}

\* The access token has not expired.
StillFresh(r) ==
  /\ NeedsToken(r)
  /\ Goto(r, "use")
  /\ UNCHANGED <<store, cookie, request, held, before, flight, issuer, history, copies>>

\* It has: join the refresh in flight, or start one with the newest token
\* known to the handler or to the store.
Refresh(r) ==
  /\ NeedsToken(r)
  /\ flight' = IF flight # NoFlight THEN flight
               ELSE [phase |-> "sent",
                     rt    |-> IF row = "live" /\ val.rt > Session(r).rt
                               THEN val.rt ELSE Session(r).rt]
  /\ Goto(r, "wait")
  /\ UNCHANGED <<store, cookie, request, held, before, issuer, history, copies>>

\* The issuer rotates the token it accepts and rejects every other one.  It
\* may reject that one too (the account was disabled), be out of reach
\* before it rotates, or lose its answer after.
IssuerAnswers ==
  /\ flight.phase = "sent"
  /\ \/ /\ flight.rt = good /\ issued < MaxTokens
        /\ issued' = issued + 1 /\ good' = issued + 1
        /\ \/ flight' = [phase |-> "ok", rt |-> issued + 1] /\ UNCHANGED lost
           \/ flight' = [flight EXCEPT !.phase = "down"] /\ lost' = TRUE
        /\ UNCHANGED spent
     \/ /\ flight' = [flight EXCEPT !.phase = "rejected"]
        /\ good' = IF flight.rt = good THEN 0 ELSE good
        /\ spent' = IF flight.rt < issued THEN TRUE ELSE spent
        /\ UNCHANGED <<issued, lost>>
     \/ /\ flight' = [flight EXCEPT !.phase = "down"]
        /\ UNCHANGED <<issuer, lost, spent>>
  /\ UNCHANGED <<store, cookie, pc, request, held, before, answer, ended, copies>>

\* The new tokens go into every waiting caller's session and, once, to the
\* store.
RefreshDone ==
  LET fresh == [rt |-> flight.rt, el |-> FALSE] IN
  /\ flight.phase = "ok"
  /\ \/ /\ StoreWrites(fresh)
        /\ latest' = IF row = "tomb" THEN latest ELSE fresh
        /\ overwritten' = FALSE
        /\ UNCHANGED lost
     \/ /\ StatementFails
        /\ lost' = TRUE
        /\ UNCHANGED <<latest, overwritten>>
  /\ stale' = {r \in Requests : Durable /\ pc[r] \in Holding \ {"wait"}}
  /\ held' = [r \in Requests |-> IF pc[r] = "wait" /\ Durable THEN fresh ELSE held[r]]
  /\ pc' = [r \in Requests |-> IF pc[r] = "wait" THEN "use" ELSE pc[r]]
  /\ flight' = NoFlight
  /\ UNCHANGED <<cookie, request, before, answer, issuer, ended, spent>>

\* Mutant: an outage releases no caller.
RefreshFailedSilently ==
  /\ flight.phase \in {"rejected", "down"}
  /\ pc' = [r \in Requests |->
              IF pc[r] = "wait" /\ flight.phase = "rejected" THEN "kill" ELSE pc[r]]
  /\ flight' = NoFlight
  /\ UNCHANGED <<store, cookie, request, held, before, answer, issuer, history, copies>>

\* Every caller fails with it: fatally, or with a 502 the browser may retry.
RefreshFailed ==
  /\ flight.phase \in {"rejected", "down"}
  /\ LET fatal == flight.phase = "rejected" IN
     /\ pc' = [r \in Requests |->
                 IF pc[r] # "wait" THEN pc[r] ELSE IF fatal THEN "kill" ELSE "done"]
     /\ answer' = [r \in Requests |->
                     IF pc[r] = "wait" /\ ~fatal THEN "upstream502" ELSE answer[r]]
     /\ held' = [r \in Requests |->
                   IF pc[r] = "wait" /\ ~fatal THEN NoTokens ELSE held[r]]
     /\ stale' = {r \in stale : pc[r] # "wait" \/ fatal}
  /\ flight' = NoFlight
  /\ UNCHANGED <<store, cookie, request, before, issuer, history, latest, overwritten>>

\* A rejected refresh ends the session; the Delete's outcome is not checked.
Kill(r) ==
  /\ pc[r] = "kill"
  /\ \/ StoreDeletes
     \/ StatementFails /\ UNCHANGED ended
  /\ cookie' = FALSE
  /\ Reply(r, "refused401")
  /\ UNCHANGED <<request, flight, issuer, lost, spent>>

\* ProxyWithSession forwards the request.
Proxy(r) ==
  /\ pc[r] = "use" /\ kind[r] = "proxy"
  /\ Reply(r, "served")
  /\ UNCHANGED <<store, cookie, request, flight, issuer, history>>

\* Mutant: the step-up response, which has no refresh token, overwrites the
\* session's with nothing.
ElevateDropsRefresh(r) ==
  /\ pc[r] = "use" /\ kind[r] = "elevate"
  /\ WriteBack([rt |-> 0, el |-> TRUE])
  /\ StepUpStored(r) /\ WroteCopy(r)
  /\ Answer(r, "elevated")
  /\ UNCHANGED <<cookie, request, flight, issuer, history>>

\* Mutant: the elevated token is set in the handler's session alone.
ElevateUnwritten(r) ==
  /\ pc[r] = "use" /\ kind[r] = "elevate"
  /\ UNCHANGED store
  /\ StepUpStored(r) /\ WroteCopy(r)
  /\ Answer(r, "elevated")
  /\ UNCHANGED <<cookie, request, flight, issuer, history>>

\* handleElevate: the upstream refuses (4xx forwarded), fails or answers 200
\* without a usable token (502), or returns the elevated access token, which
\* joins the refresh token the session already has (the admin login that
\* serves the step-up returns none: bff/auth_test.go:118).
Elevate(r) ==
  /\ pc[r] = "use" /\ kind[r] = "elevate"
  /\ \/ /\ WriteBack([Session(r) EXCEPT !.el = TRUE])
        /\ StepUpStored(r) /\ WroteCopy(r)
        /\ Answer(r, "elevated")
     \/ /\ \E a \in {"challenged", "upstream502"} : Reply(r, a)
        /\ UNCHANGED store
  /\ UNCHANGED <<cookie, request, flight, issuer, history>>

-----------------------------------------------------------------------------
(* What happens around the requests.                                       *)

\* The idle or the absolute timeout passed, or the sweeper pruned the row:
\* at any moment, also between a handler's Get and its write-back.
Lapse ==
  /\ row = "live"
  /\ row' = "gone"
  /\ UNCHANGED <<val, errs, cookie, pc, request, held, before, answer, flight, issuer, history, copies>>

\* The sweeper prunes a tombstone older than its TTL, an hour: a handler that
\* read the session before its Delete is over, its calls time out after ten
\* seconds.
PruneTombstone ==
  /\ row = "tomb" /\ Quiet
  /\ row' = "gone"
  /\ UNCHANGED <<val, errs, cookie, pc, request, held, before, answer, flight, issuer, history, copies>>

\* A statement for another session, or of the sweeper, fails.
OtherStatementFails ==
  /\ StatementFails
  /\ UNCHANGED <<cookie, pc, request, held, before, answer, flight, issuer, history, copies>>

\* The process restarts: its requests, its counter and, without a database,
\* its sessions are gone.
Restart ==
  /\ row # "none"
  /\ row' = IF Durable THEN row ELSE "gone"
  /\ errs' = 0
  /\ pc' = [r \in Requests |-> "idle"]
  /\ answer' = [r \in Requests |-> "none"]
  /\ held' = [r \in Requests |-> NoTokens]
  /\ before' = [r \in Requests |-> 0]
  /\ flight' = NoFlight
  /\ lost' = IF flight.phase = "ok" THEN TRUE ELSE lost
  /\ stale' = {}
  /\ UNCHANGED <<val, cookie, request, issuer, ended, spent, latest, overwritten>>

HandlerStep(r) ==
  \/ RateLimited(r) \/ Get(r) \/ Touch(r) \/ NoSession(r) \/ RefuseCSRF(r)
  \/ AnswerSession(r)
  \/ ReadTokens(r) \/ Revoke(r) \/ LoadErrors(r) \/ Delete(r) \/ CheckErrors(r)
  \/ StillFresh(r) \/ Refresh(r) \/ Kill(r) \/ Proxy(r) \/ Elevate(r)

FlightStep == IssuerAnswers \/ RefreshDone \/ RefreshFailed

Next ==
  \/ Callback
  \/ \E r \in Requests : HandlerStep(r)
  \/ \E r \in Requests, k \in Kinds : Begin(r, k)
  \/ FlightStep
  \/ Lapse \/ PruneTombstone \/ OtherStatementFails \/ Restart

Spec == Init /\ [][Next]_vars

\* Every handler runs in a goroutine of its own and every call it makes ends
\* (the issuer's with the client's ten-second timeout); nothing obliges the
\* browser, the clock or the operator to act.
Fairness ==
  /\ \A r \in Requests : WF_vars(HandlerStep(r))
  /\ WF_vars(FlightStep)

FairSpec == Spec /\ Fairness

-----------------------------------------------------------------------------
(* Properties.                                                             *)

StoreType ==
  row \in {"none", "live", "tomb", "gone"} /\ val \in TokenSet /\ errs \in 0 .. MaxErrors

RequestType ==
  /\ kind \in [Requests -> Kinds]
  /\ sent \in [Requests -> BOOLEAN] /\ late \in [Requests -> BOOLEAN]

HandlerType ==
  /\ pc \in [Requests -> PCs] /\ answer \in [Requests -> Answers]
  /\ held \in [Requests -> TokenSet] /\ before \in [Requests -> 0 .. MaxErrors]

IssuerType ==
  /\ flight \in [phase : Phases, rt : 0 .. MaxTokens]
  /\ issued \in 0 .. MaxTokens /\ good \in 0 .. MaxTokens

HistoryType == ended \in BOOLEAN /\ lost \in BOOLEAN /\ spent \in BOOLEAN

TypeOK ==
  /\ StoreType /\ RequestType /\ HandlerType /\ IssuerType /\ HistoryType
  /\ cookie \in BOOLEAN

\* Once a Delete succeeded, no write of a request that still holds the
\* session brings the row back (writeBack's promise, P3-29).
NoResurrection == ended => row \in {"tomb", "gone"}

\* A request that begins after the session was ended is never treated as
\* signed in, whatever it overlaps with.
NothingServedAfterEnd ==
  \A r \in Requests : late[r] => answer[r] \notin SignedIn

\* A logout that found a session and answers 204 has ended it, even while
\* other statements fail around its Delete (deleteSession: "a failed delete
\* is never reported as clean").
CleanLogoutEnded == \A r \in Requests : answer[r] = "loggedOut" => ended

\* The memory store never presents a refresh token twice unless the rotated
\* one was lost on its way (answer lost, process restarted).
SpentOnlyAfterLoss == spent => lost

\* The stored row has the tokens of the last sign-in, refresh or step-up,
\* the newest refresh token among them, whatever requests overlapped.  Two
\* things undo it: a rotated token lost on its way (lost), and, with Postgres,
\* a handler that writes back a copy it read before another one changed the
\* row (overwritten, until the next refresh); no other path loses an update.
StoredIsLatest ==
  row = "live" /\ ~lost /\ ~overwritten
    => val = latest /\ (flight.phase = "ok" \/ val.rt = issued)

\* Every request is answered, or dies with the process: no caller of
\* EnsureFresh waits for ever on a refresh that is over.
EveryRequestAnswered ==
  \A r \in Requests : pc[r] = "get" ~> pc[r] \in Idle

-----------------------------------------------------------------------------
(* The inductive invariant behind them (proved in BffSessionProofs).       *)

\* A handler holds the session only after the callback created it, and while
\* one does, the tombstone of an ended session stays.
TombstoneOutlivesHolders ==
  (\E r \in Requests : pc[r] \in Holding) => row # "none" /\ (ended => row = "tomb")

\* A refresh in flight has a handler waiting for it.
FlightHasWaiter == flight.phase # "none" => \E r \in Requests : pc[r] = "wait"

TombstoneMeansEnded == row = "tomb" => ended

\* A request that began after the end never comes to hold the session.
LateNeverHolds == \A r \in Requests : late[r] => ended /\ pc[r] \notin Holding

\* Logout's comparison of the two counter values is sound.
CountedDelete ==
  \A r \in Requests :
    /\ pc[r] \in {"delete", "check"} => before[r] <= errs
    /\ pc[r] = "check" /\ before[r] = errs => ended

RowInv   == NoResurrection /\ TombstoneOutlivesHolders /\ FlightHasWaiter /\ TombstoneMeansEnded
LateInv  == LateNeverHolds /\ NothingServedAfterEnd
CountInv == CountedDelete /\ CleanLogoutEnded

SessionInv == TypeOK /\ RowInv /\ LateInv /\ CountInv

\* The memory store holds the newest token issued, but for the moment
\* between the issuer's answer and the write-through, unless one was lost.
NewestToken ==
  /\ ~lost /\ flight.phase # "ok" => val.rt = issued
  /\ ~lost /\ flight.phase = "sent" => flight.rt = issued
  /\ flight.phase = "ok" => flight.rt = issued

TokenInv == NewestToken /\ SpentOnlyAfterLoss

\* What StoredIsLatest rests on: a handler whose copy is not out of date
\* works on the tokens the row has, or had before it timed out.
CopyInv ==
  /\ flight.phase = "ok" => flight.rt = issued
  /\ stale \subseteq {r \in Requests : pc[r] \in Holding}
  /\ latest \in TokenSet /\ overwritten \in BOOLEAN
  /\ ~lost /\ ~overwritten /\ ~ended =>
       /\ row = "live" => val = latest
       /\ \A r \in Requests : pc[r] \in Holding /\ r \notin stale => Session(r) = latest
       /\ row # "none" /\ flight.phase # "ok" => latest.rt = issued

-----------------------------------------------------------------------------
(* Refinement: the session a caller sees.                                  *)

lifeBar == IF row = "none" THEN "unborn"
           ELSE IF ended THEN "ended"
           ELSE IF row = "live" THEN "live" ELSE "lapsed"

\* The caller's view, from where its handler stands and what it was told.
ViewOf(l, a) == IF l \in Holding THEN "granted"
                ELSE IF l = "get" THEN "asking"
                ELSE IF l = "done" /\ a \in SignedIn THEN "served" ELSE "out"

viewBar == [r \in Requests |-> ViewOf(pc[r], answer[r])]

Life == INSTANCE SessionLife WITH Callers <- Requests, life <- lifeBar, view <- viewBar

\* The handlers implement SessionLife: whatever they interleave with, a
\* session is granted only while it is live, ended only by a request that
\* holds it, never back once ended, and back after a timeout only by a request
\* that was granted it before and is still at work.
ImplementsSessionLife == Life!Spec
=============================================================================
