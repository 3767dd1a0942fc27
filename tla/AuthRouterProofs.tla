-------------------------- MODULE AuthRouterProofs --------------------------
(***************************************************************************)
(* Proofs about AuthRouter, for any routes.                                *)
(***************************************************************************)
EXTENDS AuthRouter, TLAPS

USE AuthRouterAssumptions

\* Before the router exists nothing is shown and nobody is signed in.
BootIsBlank == phase = "boot" => shown = "none" /\ hops = 0 /\ ~isAuthenticated

\* Where a navigation can be after each redirect.
GuardHops ==
  phase = "guard" =>
    \/ hops = 0
    \/ hops = 1 /\ \/ target = "login" /\ ~isAuthenticated
                   \/ target = "unauthorised"
                   \/ target = Home /\ isAuthenticated
    \/ hops = 2 /\ target = "unauthorised"

\* The view whose chunk is being loaded is one the guard would still let
\* pass, or the page is being left, or its sign-out was not awaited.
ChunkAllowed ==
  phase = "chunk" =>
    /\ isAuthenticated => /\ target \in AdminViews => role = "admin"
                          /\ target \in ViewerViews => role # "none"
                          /\ target # "login"
    /\ ~isAuthenticated /\ target \in Protected => leaving \/ bounced

RouterInv ==
  /\ TypeOK /\ BootIsBlank /\ GuardHops /\ ChunkAllowed
  /\ RedirectsEnd /\ LoginOnlyForGuests /\ ShownIsAllowed /\ IdentityLostLeaves

\* It holds when a page is opened.
LEMMA RouterInvInit == Init => RouterInv
<1> SUFFICES ASSUME Init PROVE RouterInv
  OBVIOUS
<1>0. 0 \in 0 .. MaxLogouts
  OBVIOUS
<1>1. TypeOK
  BY <1>0 DEF Init, TypeOK, Views, Roles
<1>2. BootIsBlank /\ GuardHops /\ RedirectsEnd /\ ChunkAllowed
  BY DEF Init, BootIsBlank, GuardHops, RedirectsEnd, ChunkAllowed
<1>3. LoginOnlyForGuests /\ ShownIsAllowed /\ IdentityLostLeaves
  BY DEF Init, LoginOnlyForGuests, ShownIsAllowed, IdentityLostLeaves, Protected
<1> QED
  BY <1>1, <1>2, <1>3 DEF RouterInv

\* Every step of the page, the user and the server keeps it.
LEMMA RouterInvStep == ASSUME RouterInv, [Next]_vars PROVE RouterInv'
<1> USE DEF RouterInv, Running, navVars, authVars, logoutVars, serverVars, histVars
<1>1. CASE FetchSession
  <2> USE <1>1 DEF FetchSession
  <2>1. TypeOK'
    BY DEF TypeOK, Views
  <2>2. BootIsBlank' /\ GuardHops' /\ RedirectsEnd'
    BY DEF TypeOK, BootIsBlank, GuardHops, RedirectsEnd
  <2>3. ChunkAllowed' /\ LoginOnlyForGuests' /\ ShownIsAllowed'
    BY DEF BootIsBlank, ChunkAllowed, LoginOnlyForGuests, ShownIsAllowed, Protected
  <2>4. IdentityLostLeaves'
    BY DEF TypeOK, ChunkAllowed, IdentityLostLeaves, Protected
  <2> QED
    BY <2>1, <2>2, <2>3, <2>4
<1>2. CASE Guard
  <2> USE DEF TypeOK, BootIsBlank, GuardHops, ChunkAllowed, RedirectsEnd,
              LoginOnlyForGuests, ShownIsAllowed, IdentityLostLeaves, Views, Protected
  <2>1. Redirect(target) \in Views
    BY DEF Redirect
  <2>2. CASE Redirect(target) = target /\ phase' = "chunk" /\ UNCHANGED <<target, hops>>
    BY <1>2, <2>2 DEF Guard, Redirect
  <2>3. CASE /\ Redirect(target) # target
             /\ target' = Redirect(target) /\ hops' = hops + 1
             /\ phase' = IF target' = shown THEN "idle" ELSE "guard"
    <3>1. GuardHops' /\ RedirectsEnd'
      BY <1>2, <2>3 DEF Guard, Redirect
    <3>2. IdentityLostLeaves'
      BY <1>2, <2>3 DEF Guard, Redirect
    <3> QED
      BY <1>2, <2>1, <2>3, <3>1, <3>2 DEF Guard
  <2> QED
    BY <1>2, <2>2, <2>3 DEF Guard
<1>3. CASE Show
  <2> USE <1>3 DEF Show
  <2>1. TypeOK'
    BY DEF TypeOK, Views
  <2>2. BootIsBlank' /\ GuardHops' /\ RedirectsEnd'
    BY DEF TypeOK, BootIsBlank, GuardHops, RedirectsEnd
  <2>3. ChunkAllowed' /\ LoginOnlyForGuests' /\ ShownIsAllowed'
    BY DEF BootIsBlank, ChunkAllowed, LoginOnlyForGuests, ShownIsAllowed, Protected
  <2>4. IdentityLostLeaves'
    BY DEF TypeOK, ChunkAllowed, IdentityLostLeaves, Protected
  <2> QED
    BY <2>1, <2>2, <2>3, <2>4
<1>4. CASE ChunkFails
  <2> USE <1>4 DEF ChunkFails
  <2>1. TypeOK'
    BY DEF TypeOK, Views
  <2>2. BootIsBlank' /\ GuardHops' /\ RedirectsEnd'
    BY DEF TypeOK, BootIsBlank, GuardHops, RedirectsEnd
  <2>3. ChunkAllowed' /\ LoginOnlyForGuests' /\ ShownIsAllowed'
    BY DEF BootIsBlank, ChunkAllowed, LoginOnlyForGuests, ShownIsAllowed, Protected
  <2>4. IdentityLostLeaves'
    BY DEF TypeOK, ChunkAllowed, IdentityLostLeaves, Protected
  <2> QED
    BY <2>1, <2>2, <2>3, <2>4
<1>5. ASSUME NEW t \in Views, Navigate(t) PROVE RouterInv'
  <2> USE <1>5 DEF Navigate, Go
  <2>1. TypeOK'
    BY DEF TypeOK, Views
  <2>2. BootIsBlank' /\ GuardHops' /\ RedirectsEnd'
    BY DEF TypeOK, BootIsBlank, GuardHops, RedirectsEnd
  <2>3. ChunkAllowed' /\ LoginOnlyForGuests' /\ ShownIsAllowed'
    BY DEF BootIsBlank, ChunkAllowed, LoginOnlyForGuests, ShownIsAllowed, Protected
  <2>4. IdentityLostLeaves'
    BY DEF TypeOK, ChunkAllowed, IdentityLostLeaves, Protected
  <2> QED
    BY <2>1, <2>2, <2>3, <2>4
<1>6. CASE Answer401
  <2> USE <1>6 DEF Answer401
  <2>1. TypeOK'
    BY DEF TypeOK, Views
  <2>2. BootIsBlank' /\ GuardHops' /\ RedirectsEnd'
    BY DEF TypeOK, BootIsBlank, GuardHops, RedirectsEnd
  <2>3. ChunkAllowed' /\ LoginOnlyForGuests' /\ ShownIsAllowed'
    BY DEF BootIsBlank, ChunkAllowed, LoginOnlyForGuests, ShownIsAllowed, Protected
  <2>4. IdentityLostLeaves'
    BY DEF TypeOK, ChunkAllowed, IdentityLostLeaves, Protected
  <2> QED
    BY <2>1, <2>2, <2>3, <2>4
<1>7. CASE SignOut
  <2> USE <1>7 DEF SignOut
  <2>1. TypeOK'
    BY DEF TypeOK, Views
  <2>2. BootIsBlank' /\ GuardHops' /\ RedirectsEnd'
    BY DEF TypeOK, BootIsBlank, GuardHops, RedirectsEnd
  <2>3. ChunkAllowed' /\ LoginOnlyForGuests' /\ ShownIsAllowed'
    BY DEF BootIsBlank, ChunkAllowed, LoginOnlyForGuests, ShownIsAllowed, Protected
  <2>4. IdentityLostLeaves'
    BY DEF TypeOK, ChunkAllowed, IdentityLostLeaves, Protected
  <2> QED
    BY <2>1, <2>2, <2>3, <2>4
<1>8. CASE SignedOut
  <2> USE <1>8 DEF SignedOut, Go
  <2>0. awaited' \in 0 .. MaxLogouts /\ unawaited' \in 0 .. MaxLogouts
    BY DEF TypeOK
  <2>1. TypeOK'
    BY <2>0 DEF TypeOK, Views
  <2>2. BootIsBlank' /\ GuardHops' /\ RedirectsEnd'
    BY DEF TypeOK, BootIsBlank, GuardHops, RedirectsEnd
  <2>3. ChunkAllowed' /\ LoginOnlyForGuests' /\ ShownIsAllowed'
    BY DEF BootIsBlank, ChunkAllowed, LoginOnlyForGuests, ShownIsAllowed, Protected
  <2>4. IdentityLostLeaves'
    BY DEF TypeOK, ChunkAllowed, IdentityLostLeaves, Protected
  <2> QED
    BY <2>1, <2>2, <2>3, <2>4
<1>9. CASE SignOutDenied
  <2> USE <1>9 DEF SignOutDenied, Go
  <2>1. TypeOK'
    BY DEF TypeOK, Views
  <2>2. BootIsBlank' /\ GuardHops' /\ RedirectsEnd'
    BY DEF TypeOK, BootIsBlank, GuardHops, RedirectsEnd
  <2>3. ChunkAllowed' /\ LoginOnlyForGuests' /\ ShownIsAllowed'
    BY DEF BootIsBlank, ChunkAllowed, LoginOnlyForGuests, ShownIsAllowed, Protected
  <2>4. IdentityLostLeaves'
    BY DEF TypeOK, ChunkAllowed, IdentityLostLeaves, Protected
  <2> QED
    BY <2>1, <2>2, <2>3, <2>4
<1>10. CASE SignedOutDenied
  <2> USE <1>10 DEF SignedOutDenied
  <2>0. awaited' \in 0 .. MaxLogouts /\ unawaited' \in 0 .. MaxLogouts
    BY DEF TypeOK
  <2>1. TypeOK'
    BY <2>0 DEF TypeOK, Views
  <2>2. BootIsBlank' /\ GuardHops' /\ RedirectsEnd'
    BY DEF TypeOK, BootIsBlank, GuardHops, RedirectsEnd
  <2>3. ChunkAllowed' /\ LoginOnlyForGuests' /\ ShownIsAllowed'
    BY DEF BootIsBlank, ChunkAllowed, LoginOnlyForGuests, ShownIsAllowed, Protected
  <2>4. IdentityLostLeaves'
    BY DEF TypeOK, ChunkAllowed, IdentityLostLeaves, Protected
  <2> QED
    BY <2>1, <2>2, <2>3, <2>4
<1>11. CASE SignIn \/ SessionEnds
  <2> USE <1>11 DEF SignIn, SessionEnds
  <2>1. TypeOK'
    BY DEF TypeOK, Views
  <2>2. BootIsBlank' /\ GuardHops' /\ RedirectsEnd'
    BY DEF TypeOK, BootIsBlank, GuardHops, RedirectsEnd
  <2>3. ChunkAllowed' /\ LoginOnlyForGuests' /\ ShownIsAllowed'
    BY DEF BootIsBlank, ChunkAllowed, LoginOnlyForGuests, ShownIsAllowed, Protected
  <2>4. IdentityLostLeaves'
    BY DEF TypeOK, ChunkAllowed, IdentityLostLeaves, Protected
  <2> QED
    BY <2>1, <2>2, <2>3, <2>4
<1>12. CASE Unload
  <2> USE <1>12 DEF Unload
  <2>0. 0 \in 0 .. MaxLogouts
    OBVIOUS
  <2>1. TypeOK'
    BY <2>0 DEF TypeOK, Views, Roles
  <2>2. BootIsBlank' /\ GuardHops' /\ RedirectsEnd'
    BY DEF TypeOK, BootIsBlank, GuardHops, RedirectsEnd
  <2>3. ChunkAllowed' /\ LoginOnlyForGuests' /\ ShownIsAllowed'
    BY DEF BootIsBlank, ChunkAllowed, LoginOnlyForGuests, ShownIsAllowed, Protected
  <2>4. IdentityLostLeaves'
    BY DEF TypeOK, ChunkAllowed, IdentityLostLeaves, Protected
  <2> QED
    BY <2>1, <2>2, <2>3, <2>4
<1>13. CASE UNCHANGED vars
  <2> USE <1>13 DEF vars
  <2>1. TypeOK'
    BY DEF TypeOK, Views
  <2>2. BootIsBlank' /\ GuardHops' /\ RedirectsEnd'
    BY DEF TypeOK, BootIsBlank, GuardHops, RedirectsEnd
  <2>3. ChunkAllowed' /\ LoginOnlyForGuests' /\ ShownIsAllowed'
    BY DEF BootIsBlank, ChunkAllowed, LoginOnlyForGuests, ShownIsAllowed, Protected
  <2>4. IdentityLostLeaves'
    BY DEF TypeOK, ChunkAllowed, IdentityLostLeaves, Protected
  <2> QED
    BY <2>1, <2>2, <2>3, <2>4
<1> QED
  BY <1>1, <1>2, <1>3, <1>4, <1>5, <1>6, <1>7, <1>8, <1>9, <1>10, <1>11, <1>12, <1>13 DEF Next

\* RouterInv is an invariant of the page.
THEOREM RouterInvariant == Spec => []RouterInv
BY RouterInvInit, RouterInvStep, PTL DEF Spec

\* No set of routes and roles makes the guard redirect more than twice.
THEOREM NoRedirectLoop == Spec => []RedirectsEnd
BY RouterInvariant, PTL DEF RouterInv

\* Whatever happens between the guard and the view, nobody sees a view their
\* role does not allow, nor the login screen while signed in.
THEOREM GuardHolds == Spec => []ShownSuitsUser
<1>1. RouterInv => ShownSuitsUser
  BY DEF RouterInv, ShownSuitsUser
<1> QED
  BY RouterInvariant, <1>1, PTL

\* A page that lost its identity leaves the protected view it shows.
THEOREM LostIdentityLeaves == Spec => []IdentityLostLeaves
BY RouterInvariant, PTL DEF RouterInv
=============================================================================
