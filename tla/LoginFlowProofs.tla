-------------------------- MODULE LoginFlowProofs --------------------------
(***************************************************************************)
(* Proofs about LoginFlow, for any browsers, logins, callbacks, either     *)
(* store and any capacity.                                                 *)
(***************************************************************************)
EXTENDS LoginFlow, TLAPS

USE LoginFlowAssumptions

\* A callback slot that was not used has no answer; one that was names a login
\* that came back from the issuer.
UrlReturned ==
  /\ \A c \in Callbacks : at[c] = "idle" => answer[c] = "none"
  /\ \A c \in Callbacks : at[c] # "idle" => url[c] \in Logins /\ step[url[c]] \in {"code", "error"}

\* A browser holds and sends only nonces of its own logins, and a callback
\* whose code goes to the issuer carried the right one.
NonceOwned ==
  /\ \A b \in Browsers : nonce[b] # NoLogin => Owner[nonce[b]] = b
  /\ \A c \in Callbacks : carried[c] # NoLogin => Owner[carried[c]] = browser[c]
  /\ \A c \in Callbacks : at[c] = "exchange" => carried[c] = url[c]

\* A state that was taken has left the store and does not come back, one
\* callback goes on with it, and until that one verified it its code was not
\* sent.
TakenOnce ==
  /\ \A l \in Logins : l \in stored => l \notin taken
  /\ \A l \in Logins : l \in stored \cup taken => step[l] # "new"
  /\ \A l \in Logins : exchanged[l] # 0 => l \in taken
  /\ \A c \in Callbacks : at[c] \in {"verify", "exchange"} => url[c] \in taken
  /\ \A c \in Callbacks : at[c] = "verify" => exchanged[url[c]] = 0
  /\ \A c, d \in Callbacks : at[c] = "verify" /\ at[d] = "verify" /\ c # d => url[c] # url[d]

\* A browser keeps the nonce of a login that came this far, and sends it,
\* unless something happened to it.
NonceKept ==
  /\ \A l \in Logins : step[l] \in {"atIssuer", "code", "error"}
       => nonce[Owner[l]] = l \/ l \in crossed \cup old \cup taken
  /\ \A c \in Callbacks : at[c] = "begin" /\ browser[c] = Owner[url[c]]
       => carried[c] = url[c] \/ url[c] \in crossed \cup old \cup taken
  /\ \A c \in Callbacks : at[c] = "verify" /\ browser[c] = Owner[url[c]]
       => carried[c] = url[c] \/ url[c] \in crossed \cup old

LoginInv ==
  /\ TypeOK /\ UrlReturned /\ NonceOwned /\ TakenOnce /\ NonceKept
  /\ OwnBrowserOnly /\ AcceptedOnce /\ NoDeadEndRedirect /\ RefusedForAReason

\* It holds when the server starts.
LEMMA LoginInvInit == Init => LoginInv
BY DEF Init, LoginInv, TypeOK, UrlReturned, NonceOwned, TakenOnce, NonceKept, OwnBrowserOnly,
       AcceptedOnce, NoDeadEndRedirect, RefusedForAReason, Steps, Responses, URLKinds, Answers

\* Every step of a tab, a callback, the clock, the sweeper or the operator
\* keeps it.
LEMMA LoginInvStep == ASSUME LoginInv, [Next]_vars PROVE LoginInv'
<1> USE DEF LoginInv, callbackVars, historyVars
<1>1. ASSUME NEW l \in Logins, LoginLimited(l) PROVE LoginInv'
  <2> USE <1>1 DEF LoginLimited
  <2>1. TypeOK' BY DEF TypeOK, Steps, Responses
  <2>2. UrlReturned' BY DEF TypeOK, UrlReturned
  <2>3. NonceOwned' BY DEF NonceOwned
  <2>4. TakenOnce' BY DEF TypeOK, TakenOnce
  <2>5. NonceKept' BY DEF TypeOK, NonceKept
  <2>6. OwnBrowserOnly' /\ AcceptedOnce' /\ RefusedForAReason'
    BY DEF OwnBrowserOnly, AcceptedOnce, RefusedForAReason
  <2>7. NoDeadEndRedirect' BY DEF TypeOK, NoDeadEndRedirect
  <2> QED BY <2>1, <2>2, <2>3, <2>4, <2>5, <2>6, <2>7
<1>2. ASSUME NEW l \in Logins, Login(l) PROVE LoginInv'
  <2> USE <1>2 DEF Login
  <2>1. TypeOK' BY DEF TypeOK, Steps, Responses
  <2>2. UrlReturned' BY DEF TypeOK, UrlReturned
  <2>3. NonceOwned' BY DEF NonceOwned
  <2>4. TakenOnce' BY DEF TypeOK, TakenOnce
  <2>5. NonceKept' BY DEF TypeOK, NonceKept
  <2>6. OwnBrowserOnly' /\ AcceptedOnce' /\ RefusedForAReason'
    BY DEF OwnBrowserOnly, AcceptedOnce, RefusedForAReason
  <2>7. NoDeadEndRedirect' BY DEF TypeOK, NoDeadEndRedirect
  <2> QED BY <2>1, <2>2, <2>3, <2>4, <2>5, <2>6, <2>7
<1>3. ASSUME NEW l \in Logins, DeliverLogin(l) PROVE LoginInv'
  <2> USE <1>3 DEF DeliverLogin, Responses
  <2>1. TypeOK' BY DEF TypeOK, Steps
  <2>2. UrlReturned' BY DEF TypeOK, UrlReturned
  <2>3. NonceOwned' BY DEF TypeOK, NonceOwned
  <2>4. TakenOnce' BY DEF TypeOK, TakenOnce
  <2>5. NonceKept' BY DEF TypeOK, NonceKept, UrlReturned
  <2>6. OwnBrowserOnly' /\ AcceptedOnce' BY DEF OwnBrowserOnly, AcceptedOnce
  <2>7. RefusedForAReason' BY DEF TypeOK, RefusedForAReason
  <2>8. NoDeadEndRedirect' BY DEF TypeOK, NoDeadEndRedirect
  <2> QED BY <2>1, <2>2, <2>3, <2>4, <2>5, <2>6, <2>7, <2>8
<1>4. ASSUME NEW l \in Logins, IssuerReturns(l) PROVE LoginInv'
  <2> USE <1>4 DEF IssuerReturns
  <2>1. TypeOK' BY DEF TypeOK, Steps
  <2>2. UrlReturned' BY DEF TypeOK, UrlReturned
  <2>3. NonceOwned' BY DEF NonceOwned
  <2>4. TakenOnce' BY DEF TypeOK, TakenOnce
  <2>5. NonceKept' BY DEF TypeOK, NonceKept
  <2>6. OwnBrowserOnly' /\ AcceptedOnce' /\ RefusedForAReason'
    BY DEF OwnBrowserOnly, AcceptedOnce, RefusedForAReason
  <2>7. NoDeadEndRedirect' BY DEF TypeOK, NoDeadEndRedirect
  <2> QED BY <2>1, <2>2, <2>3, <2>4, <2>5, <2>6, <2>7
<1>5. ASSUME NEW l \in Logins, Expire(l) PROVE LoginInv'
  <2> USE <1>5 DEF Expire
  <2>1. TypeOK' BY DEF TypeOK
  <2>2. UrlReturned' BY DEF UrlReturned
  <2>3. NonceOwned' BY DEF TypeOK, NonceOwned
  <2>4. TakenOnce' BY DEF TakenOnce
  <2>5. NonceKept' BY DEF TypeOK, NonceKept
  <2>6. OwnBrowserOnly' /\ AcceptedOnce' BY DEF OwnBrowserOnly, AcceptedOnce
  <2>7. RefusedForAReason' /\ NoDeadEndRedirect' BY DEF RefusedForAReason, NoDeadEndRedirect
  <2> QED BY <2>1, <2>2, <2>3, <2>4, <2>5, <2>6, <2>7
<1>6. ASSUME NEW c \in Callbacks, NEW b \in Browsers, NEW l \in Logins, NEW kind \in URLKinds,
             Open(c, b, l, kind)
      PROVE  LoginInv'
  <2> USE <1>6 DEF Open
  <2>1. TypeOK' BY DEF TypeOK, URLKinds
  <2>2. UrlReturned' BY DEF TypeOK, UrlReturned
  <2>3. NonceOwned' BY DEF TypeOK, NonceOwned
  <2>4. TakenOnce' BY DEF TypeOK, TakenOnce
  <2>5. NonceKept' BY DEF TypeOK, NonceKept
  <2>6. OwnBrowserOnly' /\ AcceptedOnce' /\ NoDeadEndRedirect'
    BY DEF OwnBrowserOnly, AcceptedOnce, NoDeadEndRedirect
  <2>7. RefusedForAReason' BY DEF TypeOK, RefusedForAReason, UrlReturned
  <2> QED BY <2>1, <2>2, <2>3, <2>4, <2>5, <2>6, <2>7
<1>7. ASSUME NEW c \in Callbacks, CallbackError(c) PROVE LoginInv'
  <2> USE <1>7 DEF CallbackError, AnswerCallback
  <2>1. TypeOK' BY DEF TypeOK, Answers, URLKinds
  <2>2. UrlReturned' BY DEF TypeOK, UrlReturned
  <2>3. NonceOwned' BY DEF TypeOK, NonceOwned
  <2>4. TakenOnce' BY DEF TypeOK, TakenOnce
  <2>5. NonceKept' BY DEF TypeOK, NonceKept
  <2>6. OwnBrowserOnly' /\ AcceptedOnce' /\ NoDeadEndRedirect'
    BY DEF OwnBrowserOnly, AcceptedOnce, NoDeadEndRedirect
  <2>7. RefusedForAReason' BY DEF TypeOK, RefusedForAReason
  <2> QED BY <2>1, <2>2, <2>3, <2>4, <2>5, <2>6, <2>7
<1>8. ASSUME NEW c \in Callbacks, Take(c) PROVE LoginInv'
  <2> USE <1>8 DEF Take, AnswerCallback
  <2>1. TypeOK' BY DEF TypeOK, Answers, URLKinds
  <2>2. UrlReturned' BY DEF TypeOK, UrlReturned
  <2>3. NonceOwned' BY DEF TypeOK, NonceOwned
  <2>4. TakenOnce' BY DEF TypeOK, TakenOnce, UrlReturned
  <2>5. NonceKept' BY DEF TypeOK, NonceKept, TakenOnce
  <2>6. OwnBrowserOnly' /\ AcceptedOnce' BY DEF OwnBrowserOnly, AcceptedOnce
  <2>7. RefusedForAReason' BY DEF TypeOK, RefusedForAReason
  <2>8. NoDeadEndRedirect' BY DEF TypeOK, NoDeadEndRedirect
  <2> QED BY <2>1, <2>2, <2>3, <2>4, <2>5, <2>6, <2>7, <2>8
<1>9. ASSUME NEW c \in Callbacks, TakeMisses(c) PROVE LoginInv'
  <2> USE <1>9 DEF TakeMisses, AnswerCallback
  <2>1. TypeOK' BY DEF TypeOK, Answers, URLKinds, UrlReturned
  <2>2. UrlReturned' BY DEF TypeOK, UrlReturned
  <2>3. NonceOwned' BY DEF TypeOK, NonceOwned
  <2>4. TakenOnce' BY DEF TypeOK, TakenOnce
  <2>5. NonceKept' BY DEF TypeOK, NonceKept
  <2>6. OwnBrowserOnly' /\ AcceptedOnce' BY DEF OwnBrowserOnly, AcceptedOnce
  <2>7. RefusedForAReason' BY DEF TypeOK, RefusedForAReason, UrlReturned, NoDeadEndRedirect
  <2>8. NoDeadEndRedirect' BY DEF TypeOK, NoDeadEndRedirect
  <2> QED BY <2>1, <2>2, <2>3, <2>4, <2>5, <2>6, <2>7, <2>8
<1>10. ASSUME NEW c \in Callbacks, Verify(c) PROVE LoginInv'
  <2> USE <1>10 DEF Verify, AnswerCallback
  <2>1. TypeOK' BY DEF TypeOK, Answers, URLKinds, UrlReturned
  <2>2. UrlReturned' BY DEF TypeOK, UrlReturned
  <2>3. NonceOwned' BY DEF TypeOK, NonceOwned
  <2>4. TakenOnce' BY DEF TypeOK, TakenOnce, UrlReturned
  <2>5. NonceKept' BY DEF TypeOK, NonceKept, TakenOnce, UrlReturned
  <2>6. OwnBrowserOnly' /\ NoDeadEndRedirect' BY DEF OwnBrowserOnly, NoDeadEndRedirect
  <2>7. AcceptedOnce' BY DEF TypeOK, AcceptedOnce, TakenOnce, UrlReturned
  <2>8. RefusedForAReason' BY DEF TypeOK, RefusedForAReason, NonceKept
  <2> QED BY <2>1, <2>2, <2>3, <2>4, <2>5, <2>6, <2>7, <2>8
<1>11. ASSUME NEW c \in Callbacks, Exchange(c) PROVE LoginInv'
  <2> USE <1>11 DEF Exchange, AnswerCallback
  <2>1. TypeOK' BY DEF TypeOK, Answers, URLKinds, UrlReturned
  <2>2. UrlReturned' BY DEF TypeOK, UrlReturned
  <2>3. NonceOwned' BY DEF TypeOK, NonceOwned
  <2>4. TakenOnce' BY DEF TypeOK, TakenOnce
  <2>5. NonceKept' BY DEF TypeOK, NonceKept, TakenOnce, UrlReturned
  <2>6. AcceptedOnce' /\ NoDeadEndRedirect' BY DEF AcceptedOnce, NoDeadEndRedirect
  <2>7. OwnBrowserOnly' BY DEF TypeOK, OwnBrowserOnly, NonceOwned, UrlReturned
  <2>8. RefusedForAReason' BY DEF TypeOK, RefusedForAReason
  <2> QED BY <2>1, <2>2, <2>3, <2>4, <2>5, <2>6, <2>7, <2>8
<1>12. CASE Sweep
  BY <1>12 DEF Sweep, TypeOK, UrlReturned, NonceOwned, TakenOnce, NonceKept, OwnBrowserOnly,
               AcceptedOnce, NoDeadEndRedirect, RefusedForAReason
<1>13. CASE Restart
  <2> USE <1>13 DEF Restart
  <2>1. TypeOK' BY DEF TypeOK, URLKinds
  <2>2. UrlReturned' BY DEF TypeOK, UrlReturned
  <2>3. NonceOwned' BY DEF TypeOK, NonceOwned
  <2>4. TakenOnce' BY DEF TypeOK, TakenOnce
  <2>5. NonceKept' BY DEF TypeOK, NonceKept
  <2>6. OwnBrowserOnly' /\ AcceptedOnce' BY DEF OwnBrowserOnly, AcceptedOnce
  <2>7. RefusedForAReason' /\ NoDeadEndRedirect' BY DEF RefusedForAReason, NoDeadEndRedirect
  <2> QED BY <2>1, <2>2, <2>3, <2>4, <2>5, <2>6, <2>7
<1>14. CASE UNCHANGED vars
  BY <1>14 DEF vars, TypeOK, UrlReturned, NonceOwned, TakenOnce, NonceKept, OwnBrowserOnly,
               AcceptedOnce, NoDeadEndRedirect, RefusedForAReason
<1> QED
  BY <1>1, <1>2, <1>3, <1>4, <1>5, <1>6, <1>7, <1>8, <1>9, <1>10, <1>11, <1>12, <1>13, <1>14
     DEF Next, CallbackStep

\* LoginInv is an invariant of signing in.
THEOREM LoginInvariant == Spec => []LoginInv
BY LoginInvInit, LoginInvStep, PTL DEF Spec

\* The model's types hold, for either store and any capacity.
THEOREM TypeCorrect == Spec => []TypeOK
BY LoginInvariant, PTL DEF LoginInv

\* Whoever opens a callback URL, and however often, only the browser that
\* began the login is signed in by it.
THEOREM SignsInOwnBrowser == Spec => []OwnBrowserOnly
BY LoginInvariant, PTL DEF LoginInv

\* Whatever number of callbacks carry a state, its code is sent to the issuer
\* at most once.
THEOREM CodeSentOnce == Spec => []AcceptedOnce
BY LoginInvariant, PTL DEF LoginInv

\* A browser is sent to the issuer only with a state that was stored.
THEOREM RedirectHasState == Spec => []NoDeadEndRedirect
BY LoginInvariant, PTL DEF LoginInv

\* handleCallback refuses a login in its own browser only for one of the
\* reasons RefusedForAReason names.
THEOREM RefusalHasCause == Spec => []RefusedForAReason
BY LoginInvariant, PTL DEF LoginInv
=============================================================================
