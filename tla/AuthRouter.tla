----------------------------- MODULE AuthRouter -----------------------------
(***************************************************************************)
(* Identity and navigation in one page of the single-page application:     *)
(* authStore (src/stores/authStore.ts), the beforeEach guard               *)
(* (src/router/index.ts), the bootstrap (src/main.ts), the 401 branch of   *)
(* fetchWithAuth and the sign-out buttons.                                 *)
(*                                                                         *)
(* A navigation runs the guard, once per redirect, then imports the view's *)
(* chunk, then shows it.  The guard runs in microtasks, so no answer from  *)
(* the network comes between its redirects; answers do come while a chunk  *)
(* is loading.  A newer navigation replaces the one under way, and one to  *)
(* the view shown ends at once (vue-router: external).                     *)
(***************************************************************************)
EXTENDS Integers

CONSTANTS
  ViewerViews, AdminViews,   \* routes with requiresAuth, and also requiresAdmin
  Home,                      \* the route "/"
  MaxLogouts,                \* bound on /bff/logout calls out at the same time
  MaxHops                    \* bound on the redirects of one navigation

ASSUME AuthRouterAssumptions ==
  /\ Home \in ViewerViews /\ ViewerViews \cap AdminViews = {}
  /\ {"login", "unauthorised", "none"} \cap (ViewerViews \cup AdminViews) = {}
  /\ MaxLogouts \in Nat /\ MaxHops \in Nat

Protected == ViewerViews \cup AdminViews
Views     == Protected \cup {"login", "unauthorised"}
Roles     == {"none", "viewer", "admin"}

VARIABLES
  phase,           \* the page: "boot", "idle", or a navigation in "guard" or "chunk"
  target, hops,    \* the navigation's destination; its redirects so far
  shown,           \* the view on the screen
  isAuthenticated, role,   \* authStore; the role counts while authenticated
  awaited, unawaited,      \* /bff/logout calls out, by whether the caller waits
  calling,         \* a protected view was shown, so API calls may be out
  leaving,         \* window.location was set to /bff/login
  alive, account,  \* the BFF's session, and the role of its user
  stranded,        \* history: a chunk did not load
  bounced          \* history: a sign-out that was not awaited has ended

navVars    == <<phase, target, hops, shown, calling>>
authVars   == <<isAuthenticated, role>>
logoutVars == <<awaited, unawaited>>
serverVars == <<alive, account>>
histVars   == <<stranded, bounced>>
vars == <<navVars, authVars, logoutVars, leaving, serverVars, histVars>>

\* main.ts: the session is fetched before the router exists.
Init ==
  /\ phase = "boot" /\ target \in Views /\ hops = 0 /\ shown = "none" /\ calling = FALSE
  /\ isAuthenticated = FALSE /\ role = "none"
  /\ awaited = 0 /\ unawaited = 0 /\ leaving = FALSE
  /\ alive \in BOOLEAN /\ account \in Roles
  /\ stranded = FALSE /\ bounced = FALSE

\* router.push or the history: a navigation to t.
Go(t) ==
  /\ phase' = IF t = shown THEN "idle" ELSE "guard"
  /\ target' = t /\ hops' = 0

-----------------------------------------------------------------------------
(* fetchSession and the bootstrap.                                         *)

\* The session is resolved, an error counting as none; then the page's URL is
\* navigated to.
FetchSession ==
  /\ phase = "boot"
  /\ \/ alive /\ isAuthenticated' = TRUE /\ role' = account
     \/ UNCHANGED authVars
  /\ phase' = "guard"
  /\ UNCHANGED <<target, hops, shown, calling, logoutVars, leaving, serverVars, histVars>>

-----------------------------------------------------------------------------
(* The guard.                                                              *)

\* Mutants: the admin routes need a viewer only; /unauthorised is a guest
\* route too.
RedirectViewer(t) ==
  IF t \in Protected /\ ~isAuthenticated THEN "login"
  ELSE IF t \in Protected /\ role = "none" THEN "unauthorised"
  ELSE IF t = "login" /\ isAuthenticated THEN Home
  ELSE t

RedirectGuests(t) ==
  IF t \in Protected /\ ~isAuthenticated THEN "login"
  ELSE IF t \in AdminViews /\ role # "admin" THEN "unauthorised"
  ELSE IF t \in ViewerViews /\ role = "none" THEN "unauthorised"
  ELSE IF t \in {"login", "unauthorised"} /\ isAuthenticated THEN Home
  ELSE t

\* Where beforeEach sends a navigation to t; t itself: it may go on.
Redirect(t) ==
  IF t \in Protected /\ ~isAuthenticated THEN "login"
  ELSE IF t \in AdminViews /\ role # "admin" THEN "unauthorised"
  ELSE IF t \in ViewerViews /\ role = "none" THEN "unauthorised"
  ELSE IF t = "login" /\ isAuthenticated THEN Home
  ELSE t

Guard ==
  /\ phase = "guard"
  /\ \/ Redirect(target) = target /\ phase' = "chunk" /\ UNCHANGED <<target, hops>>
     \/ /\ Redirect(target) # target /\ hops < MaxHops
        /\ target' = Redirect(target) /\ hops' = hops + 1
        /\ phase' = IF target' = shown THEN "idle" ELSE "guard"
  /\ UNCHANGED <<shown, calling, authVars, logoutVars, leaving, serverVars, histVars>>

\* The chunk is there: the view is shown, and a protected one calls the API.
Show ==
  /\ phase = "chunk"
  /\ phase' = "idle" /\ shown' = target
  /\ calling' = (calling \/ target \in Protected)
  /\ UNCHANGED <<target, hops, authVars, logoutVars, leaving, serverVars, histVars>>

\* It cannot be loaded: the navigation is given up.
ChunkFails ==
  /\ phase = "chunk"
  /\ phase' = "idle" /\ stranded' = TRUE
  /\ UNCHANGED <<target, hops, shown, calling, authVars, logoutVars, leaving, serverVars, bounced>>

Running == phase \in {"idle", "chunk"}

\* A link, or the browser's back and forward.  Only the sidebar, which is
\* there for signed-in users, links to the view that is shown.
Navigate(t) ==
  /\ Running /\ shown # "none"
  /\ t = shown => isAuthenticated
  /\ Go(t)
  /\ UNCHANGED <<shown, calling, authVars, logoutVars, leaving, serverVars, histVars>>

-----------------------------------------------------------------------------
(* Losing the identity.                                                    *)

\* Mutant: the 401 branch forgets the identity and does not navigate.
Answer401Stays ==
  /\ Running /\ calling /\ ~alive
  /\ isAuthenticated' = FALSE
  /\ UNCHANGED <<navVars, role, logoutVars, leaving, serverVars, histVars>>

\* An API call answers 401.
Answer401 ==
  /\ Running /\ calling /\ ~alive
  /\ isAuthenticated' = FALSE /\ leaving' = TRUE
  /\ UNCHANGED <<navVars, role, logoutVars, serverVars, histVars>>

\* Sign Out in the sidebar or in the settings: logout() is awaited.
SignOut ==
  /\ Running /\ shown \in Protected /\ isAuthenticated /\ awaited < MaxLogouts
  /\ awaited' = awaited + 1
  /\ UNCHANGED <<navVars, authVars, unawaited, leaving, serverVars, histVars>>

\* It settles, whatever the server did: forget the identity and push /login.
SignedOut ==
  /\ Running /\ awaited > 0
  /\ awaited' = awaited - 1
  /\ alive' \in {alive, FALSE}
  /\ isAuthenticated' = FALSE
  /\ Go("login")
  /\ UNCHANGED <<shown, calling, role, unawaited, leaving, account, histVars>>

\* Sign Out in the "Access Denied" view: logout() is not awaited, so /login is
\* pushed at once.
SignOutDenied ==
  /\ Running /\ shown = "unauthorised" /\ unawaited < MaxLogouts
  /\ unawaited' = unawaited + 1
  /\ Go("login")
  /\ UNCHANGED <<shown, calling, authVars, awaited, leaving, serverVars, histVars>>

\* Its logout settles later.
SignedOutDenied ==
  /\ Running /\ unawaited > 0
  /\ unawaited' = unawaited - 1
  /\ alive' \in {alive, FALSE}
  /\ isAuthenticated' = FALSE /\ bounced' = TRUE
  /\ UNCHANGED <<navVars, role, awaited, leaving, account, stranded>>

-----------------------------------------------------------------------------
(* The browser and the server.                                             *)

\* LoginView's button.
SignIn ==
  /\ Running /\ shown = "login"
  /\ leaving' = TRUE
  /\ UNCHANGED <<navVars, authVars, logoutVars, serverVars, histVars>>

\* The page is left for the login, which gives a new session or not, or it is
\* reloaded.
Unload ==
  /\ Running
  /\ \/ leaving /\ alive' = TRUE /\ account' \in Roles
     \/ UNCHANGED serverVars
  /\ phase' = "boot" /\ target' \in Views /\ hops' = 0 /\ shown' = "none" /\ calling' = FALSE
  /\ isAuthenticated' = FALSE /\ role' = "none"
  /\ awaited' = 0 /\ unawaited' = 0 /\ leaving' = FALSE
  /\ stranded' = FALSE /\ bounced' = FALSE

\* The session ends elsewhere: timeout, another tab, an administrator.
SessionEnds ==
  /\ Running /\ alive
  /\ alive' = FALSE
  /\ UNCHANGED <<navVars, authVars, logoutVars, leaving, account, histVars>>

Next ==
  \/ FetchSession \/ Guard \/ Show \/ ChunkFails
  \/ \E t \in Views : Navigate(t)
  \/ Answer401 \/ SignOut \/ SignedOut \/ SignOutDenied \/ SignedOutDenied
  \/ SignIn \/ Unload \/ SessionEnds

Spec == Init /\ [][Next]_vars

-----------------------------------------------------------------------------
(* Properties.                                                             *)

TypeOK ==
  /\ phase \in {"boot", "idle", "guard", "chunk"}
  /\ target \in Views /\ hops \in Nat
  /\ shown \in Views \cup {"none"} /\ calling \in BOOLEAN
  /\ isAuthenticated \in BOOLEAN /\ role \in Roles
  /\ awaited \in 0 .. MaxLogouts /\ unawaited \in 0 .. MaxLogouts
  /\ leaving \in BOOLEAN /\ alive \in BOOLEAN /\ account \in Roles
  /\ stranded \in BOOLEAN /\ bounced \in BOOLEAN

\* The router's comment on /unauthorised fears "an infinite redirect loop":
\* whoever navigates wherever, two redirects are the most.
RedirectsEnd == hops <= 2

\* main.ts: "the first navigation guard sees the auth state".  Nobody who is
\* signed in is left on the login screen.
LoginOnlyForGuests == shown = "login" => ~isAuthenticated

\* A view on the screen is one the user on record may see, although the guard
\* looked before its chunk was loaded.
ShownIsAllowed ==
  isAuthenticated => /\ shown \in AdminViews => role = "admin"
                     /\ shown \in ViewerViews => role # "none"

\* What is on the screen suits who is signed in, both ways, whatever happened
\* since the guard looked.
ShownSuitsUser == ShownIsAllowed /\ LoginOnlyForGuests

\* P3-22: nothing "keeps acting as if we were signed in".  A page that lost
\* its identity leaves a protected view, for the login or another public view,
\* unless the chunk of that view could not be loaded or the sign-out was the
\* one that is not awaited.
IdentityLostLeaves ==
  shown \in Protected /\ ~isAuthenticated =>
    \/ leaving \/ stranded \/ bounced
    \/ phase = "guard"
    \/ phase = "chunk" /\ target \notin Protected
=============================================================================
