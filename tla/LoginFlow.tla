----------------------------- MODULE LoginFlow -----------------------------
(***************************************************************************)
(* Signing in: /bff/login and /bff/callback (bff/auth.go), with the store  *)
(* of pending logins and the nonce cookie that ties a login to the browser *)
(* that began it.                                                          *)
(*                                                                         *)
(* A login is one run of /bff/login in one tab.  Its state, its PKCE       *)
(* verifier and its nonce are fresh random values, so each of them is      *)
(* identified with the login.  All tabs of a browser share one nonce       *)
(* cookie, and a cookie changes when a response is delivered, not when the *)
(* handler runs.  A callback URL may be opened more than once and in       *)
(* another browser than the one it was made for.                           *)
(*                                                                         *)
(* The pending-login store and the login binding are backendkit's and the  *)
(* issuer is Socrate: external, modelled from their use and their tests.   *)
(***************************************************************************)
EXTENDS Integers, FiniteSets

CONSTANTS
  Browsers,
  Logins,       \* runs of /bff/login
  Callbacks,    \* runs of /bff/callback
  Owner,        \* the browser of each login
  MaxPending,   \* capacity of the memory store
  NoLogin       \* no nonce cookie; no callback URL

ASSUME LoginFlowAssumptions ==
  /\ Browsers # {} /\ Owner \in [Logins -> Browsers]
  /\ MaxPending \in Nat
  /\ NoLogin \notin Logins

Responses == {"redirect", "unavailable503", "limited429"}

\* Where a tab stands: its response on its way, at the issuer, or back with
\* a callback URL (a code, or the issuer's error).
Steps == {"new"} \cup Responses \cup {"atIssuer", "code", "error", "stuck"}

URLKinds == {"code", "error", "bare"}   \* bare: a state and no code

Answers == {"none", "loginFailed400", "badState400", "otherBrowser400", "exchange502", "signedIn"}

VARIABLES
  durable,     \* the store is Postgres, not memory; fixed when the server starts
  step,        \* per login
  stored,      \* the pending-login store
  old,         \* logins whose TTL is over
  nonce,       \* per browser: the nonce cookie
  at,          \* per callback: where its handler stands
  url,         \* per callback: the login its URL names,
  urlKind,     \* and what else it carries
  browser,     \* per callback: the browser that sent it,
  carried,     \* and the nonce cookie it sent along
  answer,
  sessions,    \* sessions created: the login and the browser given the cookie
  exchanged,   \* history: how often a login's code was sent to the issuer
  taken,       \* history: logins whose state was taken
  lostState,   \* history: logins whose state a restart or a failed read lost
  crossed      \* history: logins whose cookie another response replaced or cleared

callbackVars == <<at, url, urlKind, browser, carried, answer>>
historyVars  == <<exchanged, taken, lostState, crossed>>
vars == <<durable, step, stored, old, nonce, callbackVars, sessions, historyVars>>

Init ==
  /\ durable \in BOOLEAN
  /\ step = [l \in Logins |-> "new"]
  /\ stored = {} /\ old = {}
  /\ nonce = [b \in Browsers |-> NoLogin]
  /\ at = [c \in Callbacks |-> "idle"]
  /\ url = [c \in Callbacks |-> NoLogin]
  /\ urlKind = [c \in Callbacks |-> "error"]
  /\ browser = [c \in Callbacks |-> CHOOSE b \in Browsers : TRUE]
  /\ carried = [c \in Callbacks |-> NoLogin]
  /\ answer = [c \in Callbacks |-> "none"]
  /\ sessions = {}
  /\ exchanged = [l \in Logins |-> 0]
  /\ taken = {} /\ lostState = {} /\ crossed = {}

-----------------------------------------------------------------------------
(* handleLogin.                                                            *)

\* The memory store refuses a login when it is full; an expired one counts
\* until it is swept.  A statement of the Postgres store may fail.
PutFails == IF durable THEN TRUE ELSE Cardinality(stored) >= MaxPending
PutWorks == durable \/ Cardinality(stored) < MaxPending

\* The limiter refuses; no nonce was made yet.
LoginLimited(l) ==
  /\ step[l] = "new"
  /\ step' = [step EXCEPT ![l] = "limited429"]
  /\ UNCHANGED <<durable, stored, old, nonce, callbackVars, sessions, historyVars>>

\* The state is stored, or the browser is told to come back later.
Login(l) ==
  /\ step[l] = "new"
  /\ \/ /\ PutWorks
        /\ stored' = stored \cup {l}
        /\ step' = [step EXCEPT ![l] = "redirect"]
     \/ /\ PutFails
        /\ step' = [step EXCEPT ![l] = "unavailable503"]
        /\ UNCHANGED stored
  /\ UNCHANGED <<durable, old, nonce, callbackVars, sessions, historyVars>>

\* The response reaches the browser.  login.Begin ran before the Put, so the
\* 503 replaces the nonce cookie as well; only the 429 does not.
DeliverLogin(l) ==
  LET b == Owner[l] IN
  /\ step[l] \in Responses
  /\ step' = [step EXCEPT ![l] = IF @ = "redirect" THEN "atIssuer" ELSE "stuck"]
  /\ nonce' = IF step[l] = "limited429" THEN nonce ELSE [nonce EXCEPT ![b] = l]
  /\ crossed' = IF step[l] = "limited429" THEN crossed
                ELSE crossed \cup ({nonce[b]} \ {NoLogin})
  /\ UNCHANGED <<durable, stored, old, callbackVars, sessions, exchanged, taken, lostState>>

\* The user signs in at the issuer, or does not (external).
IssuerReturns(l) ==
  /\ step[l] = "atIssuer"
  /\ \E kind \in {"code", "error"} : step' = [step EXCEPT ![l] = kind]
  /\ UNCHANGED <<durable, stored, old, nonce, callbackVars, sessions, historyVars>>

-----------------------------------------------------------------------------
(* handleCallback.                                                         *)

\* A browser opens a callback URL: the one its tab was redirected to, the
\* same one again, another browser's, or one cut short.
Open(c, b, l, kind) ==
  /\ at[c] = "idle"
  /\ step[l] \in {"code", "error"}
  /\ kind \in {step[l], "bare"}
  /\ at' = [at EXCEPT ![c] = "begin"]
  /\ url' = [url EXCEPT ![c] = l]
  /\ urlKind' = [urlKind EXCEPT ![c] = kind]
  /\ browser' = [browser EXCEPT ![c] = b]
  /\ carried' = [carried EXCEPT ![c] = nonce[b]]
  /\ UNCHANGED <<durable, step, stored, old, nonce, answer, sessions, historyVars>>

\* The answer is delivered and the request forgotten.  Verify's answers clear
\* the nonce cookie.
AnswerCallback(c, a, clears) ==
  LET b == browser[c] IN
  /\ at' = [at EXCEPT ![c] = "done"]
  /\ answer' = [answer EXCEPT ![c] = a]
  /\ nonce' = IF clears THEN [nonce EXCEPT ![b] = NoLogin] ELSE nonce
  /\ crossed' = IF clears THEN crossed \cup ({nonce[b]} \ {url[c], NoLogin}) ELSE crossed
  /\ urlKind' = [urlKind EXCEPT ![c] = "error"]
  /\ carried' = [carried EXCEPT ![c] = NoLogin]
  /\ UNCHANGED <<url, browser>>

\* Mutant: the error branch drops the cookie of a login it knows nothing of.
CallbackErrorClears(c) ==
  /\ at[c] = "begin" /\ urlKind[c] = "error"
  /\ at' = [at EXCEPT ![c] = "done"]
  /\ answer' = [answer EXCEPT ![c] = "loginFailed400"]
  /\ nonce' = [nonce EXCEPT ![browser[c]] = NoLogin]
  /\ UNCHANGED <<durable, step, stored, old, url, urlKind, browser, carried, sessions, historyVars>>

\* The issuer's error: nothing is consumed.
CallbackError(c) ==
  /\ at[c] = "begin" /\ urlKind[c] = "error"
  /\ AnswerCallback(c, "loginFailed400", FALSE)
  /\ UNCHANGED <<durable, step, stored, old, sessions, exchanged, taken, lostState>>

\* Mutant: the state is looked up and left in the store.
TakePeeks(c) ==
  /\ at[c] = "begin" /\ urlKind[c] # "error" /\ url[c] \in stored \ old
  /\ at' = [at EXCEPT ![c] = "verify"]
  /\ UNCHANGED <<durable, step, stored, old, nonce, url, urlKind, browser, carried, answer,
                 sessions, historyVars>>

\* Take finds the state, which is single use: it is gone from here on, even
\* when the code turns out to be missing.
Take(c) ==
  /\ at[c] = "begin" /\ urlKind[c] # "error" /\ url[c] \in stored \ old
  /\ stored' = stored \ {url[c]}
  /\ taken' = taken \cup {url[c]}
  /\ \/ /\ urlKind[c] = "code"
        /\ at' = [at EXCEPT ![c] = "verify"]
        /\ UNCHANGED <<url, urlKind, browser, carried, answer, nonce, crossed>>
     \/ /\ urlKind[c] = "bare"
        /\ AnswerCallback(c, "badState400", FALSE)
  /\ UNCHANGED <<durable, step, old, sessions, exchanged, lostState>>

\* It does not: taken before, expired, lost, or the read failed (a failed
\* statement of the Postgres store refuses the callback too).
TakeMisses(c) ==
  /\ at[c] = "begin" /\ urlKind[c] # "error"
  /\ \/ url[c] \notin stored \ old /\ UNCHANGED lostState
     \/ durable /\ lostState' = lostState \cup {url[c]}
  /\ AnswerCallback(c, "badState400", FALSE)
  /\ UNCHANGED <<durable, step, stored, old, sessions, exchanged, taken>>

\* Mutant: any nonce cookie will do.
VerifyAny(c) ==
  /\ at[c] = "verify"
  /\ at' = [at EXCEPT ![c] = "exchange"]
  /\ exchanged' = [exchanged EXCEPT ![url[c]] = @ + 1]
  /\ UNCHANGED <<durable, step, stored, old, nonce, url, urlKind, browser, carried, answer,
                 sessions, taken, lostState, crossed>>

\* Verify compares the cookie the request carried with the stored nonce; if
\* they agree the code is sent to the issuer.
Verify(c) ==
  /\ at[c] = "verify"
  /\ \/ /\ carried[c] = url[c]
        /\ at' = [at EXCEPT ![c] = "exchange"]
        /\ exchanged' = [exchanged EXCEPT ![url[c]] = @ + 1]
        /\ UNCHANGED <<nonce, url, urlKind, browser, carried, answer, crossed>>
     \/ /\ carried[c] # url[c]
        /\ AnswerCallback(c, "otherBrowser400", TRUE)
        /\ UNCHANGED exchanged
  /\ UNCHANGED <<durable, step, stored, old, sessions, taken, lostState>>

\* The issuer exchanges the code, or refuses it, or is out of reach, before
\* or after it acted.
Exchange(c) ==
  /\ at[c] = "exchange"
  /\ \/ /\ sessions' = sessions \cup {[login |-> url[c], browser |-> browser[c]]}
        /\ AnswerCallback(c, "signedIn", TRUE)
     \/ /\ AnswerCallback(c, "exchange502", TRUE)
        /\ UNCHANGED sessions
  /\ UNCHANGED <<durable, step, stored, old, exchanged, taken, lostState>>

-----------------------------------------------------------------------------
(* Time, the sweeper, the operator.                                        *)

\* A login's TTL is over; its nonce cookie has the same lifetime.
Expire(l) ==
  /\ step[l] # "new" /\ l \notin old
  /\ old' = old \cup {l}
  /\ nonce' = [b \in Browsers |-> IF nonce[b] = l THEN NoLogin ELSE nonce[b]]
  /\ UNCHANGED <<durable, step, stored, callbackVars, sessions, historyVars>>

\* Mutant: stores.sweep forgets the pending logins.
SweepSessions == UNCHANGED vars

\* stores.sweep drops the expired ones.
Sweep ==
  /\ stored \cap old # {}
  /\ stored' = stored \ old
  /\ UNCHANGED <<durable, step, old, nonce, callbackVars, sessions, historyVars>>

\* A restart loses the memory store and the callbacks being handled.
Restart ==
  /\ stored' = IF durable THEN stored ELSE {}
  /\ lostState' = IF durable THEN lostState ELSE lostState \cup stored
  /\ at' = [c \in Callbacks |-> IF at[c] = "idle" THEN "idle" ELSE "done"]
  /\ urlKind' = [c \in Callbacks |-> "error"]
  /\ carried' = [c \in Callbacks |-> NoLogin]
  /\ UNCHANGED <<durable, step, old, nonce, url, browser, answer, sessions,
                 exchanged, taken, crossed>>

CallbackStep(c) ==
  CallbackError(c) \/ Take(c) \/ TakeMisses(c) \/ Verify(c) \/ Exchange(c)

Next ==
  \/ \E l \in Logins :
       LoginLimited(l) \/ Login(l) \/ DeliverLogin(l) \/ IssuerReturns(l) \/ Expire(l)
  \/ \E c \in Callbacks, b \in Browsers, l \in Logins, kind \in URLKinds : Open(c, b, l, kind)
  \/ \E c \in Callbacks : CallbackStep(c)
  \/ Sweep \/ Restart

Spec == Init /\ [][Next]_vars

\* The sweeper runs on a ticker, time passes, and a handler's calls end.
Fairness ==
  /\ WF_vars(Sweep)
  /\ \A l \in Logins : WF_vars(Expire(l))
  /\ \A c \in Callbacks : WF_vars(CallbackStep(c))

FairSpec == Spec /\ Fairness

-----------------------------------------------------------------------------
(* Properties.                                                             *)

TypeOK ==
  /\ durable \in BOOLEAN
  /\ step \in [Logins -> Steps]
  /\ stored \subseteq Logins /\ old \subseteq Logins
  /\ nonce \in [Browsers -> Logins \cup {NoLogin}]
  /\ at \in [Callbacks -> {"idle", "begin", "verify", "exchange", "done"}]
  /\ url \in [Callbacks -> Logins \cup {NoLogin}]
  /\ urlKind \in [Callbacks -> URLKinds]
  /\ browser \in [Callbacks -> Browsers]
  /\ carried \in [Callbacks -> Logins \cup {NoLogin}]
  /\ answer \in [Callbacks -> Answers]
  /\ sessions \subseteq [login : Logins, browser : Browsers]
  /\ exchanged \in [Logins -> Nat]
  /\ taken \subseteq Logins /\ lostState \subseteq Logins /\ crossed \subseteq Logins

\* A callback URL signs in only the browser that began the login, whoever
\* opens it and however often (P3-15).
OwnBrowserOnly == \A s \in sessions : s.browser = Owner[s.login]

\* A state is accepted once: however many callbacks carry it at the same
\* moment, its code is sent to the issuer at most once.
AcceptedOnce == \A l \in Logins : exchanged[l] <= 1

\* handleLogin: "Without a stored state the callback could only be refused,
\* so do not send the browser to Socrate at all."
NoDeadEndRedirect ==
  \A l \in Logins :
    step[l] \in {"redirect", "atIssuer", "code", "error"}
      => l \in stored \cup taken \cup old \cup lostState

\* A login in the browser that began it is refused only for a reason: its
\* time was over, its state was taken or lost, or another tab of the browser
\* replaced or cleared the cookie they share.
RefusedForAReason ==
  \A c \in Callbacks :
    /\ answer[c] = "otherBrowser400" /\ browser[c] = Owner[url[c]] => url[c] \in crossed \cup old
    /\ answer[c] = "badState400" => url[c] \in taken \cup old \cup lostState

\* An abandoned login does not hold a slot of the bounded store for ever.
SlotFreed == \A l \in Logins : l \in stored ~> l \notin stored
=============================================================================
