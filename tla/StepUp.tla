------------------------------- MODULE StepUp -------------------------------
(***************************************************************************)
(* Step-up in the single-page application: privileged calls that meet      *)
(* 403 elevation_required, the dialog they share, and the one retry each   *)
(* of them makes (src/composables/useApi.ts, src/stores/stepUpStore.ts,    *)
(* src/components/StepUpDialog.vue), with the bulk action that fires many  *)
(* such calls at once (revokeSelected in src/views/SessionsView.vue).      *)
(*                                                                         *)
(* The page has one thread: a step is what runs between two awaits,        *)
(* together with the promise continuations it triggers.  The BFF and the   *)
(* issuer behind it are one server here: a session that may end and an     *)
(* elevation that may lapse (BffSession has the detail).                   *)
(***************************************************************************)
EXTENDS Integers, FiniteSets

CONSTANTS
  Clicks,       \* runs of revokeSelected (or, with one user, revokeSession)
  Users,        \* users whose tokens can be revoked
  Confirms,     \* runs of the dialog's confirm()
  Promises,     \* identities of step-up promises, used again once settled
  None          \* no promise

ASSUME StepUpAssumptions == None \notin Promises

Calls == Clicks \X Users

Settled  == {"idle", "ok", "failed"}
CallPCs  == Settled \cup {"sent", "answered", "body", "waiting"}
Replies  == {"none", "ok", "unauthenticated", "elevation_required", "error"}
Outcomes == {"none", "ok", "mfa_required", "refused"}

VARIABLES
  pc, reply,           \* per call: where fetchWithAuth stands, the answer on its way
  elevated,            \* per call: this is the retry (fetchWithAuth's parameter)
  promise,             \* per call: the step-up promise it awaits
  targets, report,     \* per click: the users selected, the toast shown
  visible, pending,    \* stepUpStore: the dialog; the open promise
  loading, mfaRequired,            \* the dialog's form
  attempt, withCode, outcome,      \* per confirm: its elevate call
  authenticated, leaving,          \* authStore; a navigation to /bff/login is due
  alive, fresh,        \* server: the session; its elevation
  applied,             \* history, per call: how often the server carried it out
  cancelled            \* history: calls whose dialog the user dismissed

callVars   == <<pc, reply, elevated, promise>>
clickVars  == <<targets, report>>
storeVars  == <<visible, pending>>
formVars   == <<loading, mfaRequired, attempt, withCode, outcome>>
pageVars   == <<authenticated, leaving>>
serverVars == <<alive, fresh>>
vars == <<callVars, clickVars, storeVars, formVars, pageVars, serverVars,
          applied, cancelled>>

\* A page as it is after it was loaded by a signed-in user.
FreshPage ==
  /\ pc' = [c \in Calls |-> "idle"] /\ reply' = [c \in Calls |-> "none"]
  /\ elevated' = [c \in Calls |-> FALSE] /\ promise' = [c \in Calls |-> None]
  /\ targets' = [k \in Clicks |-> {}] /\ report' = [k \in Clicks |-> "none"]
  /\ visible' = FALSE /\ pending' = None
  /\ loading' = FALSE /\ mfaRequired' = FALSE
  /\ attempt' = [e \in Confirms |-> "idle"] /\ withCode' = [e \in Confirms |-> FALSE]
  /\ outcome' = [e \in Confirms |-> "none"]
  /\ authenticated' = TRUE /\ leaving' = FALSE
  /\ applied' = [c \in Calls |-> 0] /\ cancelled' = {}

Init ==
  /\ pc = [c \in Calls |-> "idle"] /\ reply = [c \in Calls |-> "none"]
  /\ elevated = [c \in Calls |-> FALSE] /\ promise = [c \in Calls |-> None]
  /\ targets = [k \in Clicks |-> {}] /\ report = [k \in Clicks |-> "none"]
  /\ visible = FALSE /\ pending = None
  /\ loading = FALSE /\ mfaRequired = FALSE
  /\ attempt = [e \in Confirms |-> "idle"] /\ withCode = [e \in Confirms |-> FALSE]
  /\ outcome = [e \in Confirms |-> "none"]
  /\ authenticated = TRUE /\ leaving = FALSE
  /\ alive = TRUE /\ fresh = FALSE
  /\ applied = [c \in Calls |-> 0] /\ cancelled = {}

-----------------------------------------------------------------------------
(* revokeSelected: Promise.all over one call per user, a toast at the end. *)

\* The toast once the calls stand as in p: at the first failure, or when all
\* succeeded.
Toast(p) ==
  [k \in Clicks |->
     IF report[k] # "running" THEN report[k]
     ELSE IF \E u \in targets[k] : p[<<k, u>>] = "failed" THEN "error"
     ELSE IF \A u \in targets[k] : p[<<k, u>>] = "ok" THEN "success" ELSE "running"]

\* The calls move to where p says, and the toasts follow.
Move(p) == pc' = p /\ report' = Toast(p)

\* The dialog is modal, so nothing else is clicked while it is open.
revokeSelected(k, us) ==
  /\ ~visible /\ us # {} /\ \A u \in Users : pc[<<k, u>>] \in Settled
  /\ targets' = [targets EXCEPT ![k] = us]
  /\ report' = [report EXCEPT ![k] = "running"]
  /\ pc' = [c \in Calls |-> IF c[1] # k THEN pc[c]
                            ELSE IF c[2] \in us THEN "sent" ELSE "idle"]
  /\ elevated' = [c \in Calls |-> IF c[1] = k THEN FALSE ELSE elevated[c]]
  /\ applied' = [c \in Calls |-> IF c[1] = k THEN 0 ELSE applied[c]]
  /\ cancelled' = {c \in cancelled : c[1] # k}
  /\ UNCHANGED <<reply, promise, storeVars, formVars, pageVars, serverVars>>

-----------------------------------------------------------------------------
(* fetchWithAuth.                                                          *)

\* The server takes the request.  It may fail before or after it acted.
Serve(c) ==
  /\ pc[c] = "sent"
  /\ pc' = [pc EXCEPT ![c] = "answered"]
  /\ \/ /\ ~alive
        /\ reply' = [reply EXCEPT ![c] = "unauthenticated"] /\ UNCHANGED applied
     \/ /\ alive /\ ~fresh
        /\ reply' = [reply EXCEPT ![c] = "elevation_required"] /\ UNCHANGED applied
     \/ /\ alive /\ fresh
        /\ reply' = [reply EXCEPT ![c] = "ok"]
        /\ applied' = [applied EXCEPT ![c] = @ + 1]
     \/ /\ reply' = [reply EXCEPT ![c] = "error"]
        /\ \/ UNCHANGED applied
           \/ alive /\ fresh /\ applied' = [applied EXCEPT ![c] = @ + 1]
  /\ UNCHANGED <<elevated, promise, clickVars, storeVars, formVars, pageVars, serverVars,
                 cancelled>>

\* 401: forget the identity, navigate to the login, throw.
Unauthenticated(c) ==
  /\ pc[c] = "answered" /\ reply[c] = "unauthenticated"
  /\ authenticated' = FALSE /\ leaving' = TRUE
  /\ Move([pc EXCEPT ![c] = "failed"])
  /\ reply' = [reply EXCEPT ![c] = "none"]
  /\ UNCHANGED <<elevated, promise, targets, storeVars, formVars, serverVars,
                 applied, cancelled>>

\* 403 on the first try: read the body before deciding.
Forbidden(c) ==
  /\ pc[c] = "answered" /\ reply[c] = "elevation_required" /\ ~elevated[c]
  /\ pc' = [pc EXCEPT ![c] = "body"]
  /\ reply' = [reply EXCEPT ![c] = "none"]
  /\ UNCHANGED <<elevated, promise, clickVars, storeVars, formVars, pageVars, serverVars,
                 applied, cancelled>>

\* Mutants: revokeUserTokens does not look at response.ok; any failure is
\* worth a second try.
ReturnUnchecked(c) ==
  /\ pc[c] = "answered" /\ reply[c] # "unauthenticated"
  /\ reply[c] = "elevation_required" => elevated[c]
  /\ Move([pc EXCEPT ![c] = "ok"])
  /\ reply' = [reply EXCEPT ![c] = "none"]
  /\ UNCHANGED <<elevated, promise, targets, storeVars, formVars, pageVars, serverVars,
                 applied, cancelled>>

ReturnRetrying(c) ==
  /\ pc[c] = "answered" /\ reply[c] # "unauthenticated"
  /\ reply[c] = "elevation_required" => elevated[c]
  /\ Move([pc EXCEPT ![c] = IF reply[c] = "ok" THEN "ok" ELSE "sent"])
  /\ reply' = [reply EXCEPT ![c] = "none"]
  /\ UNCHANGED <<elevated, promise, targets, storeVars, formVars, pageVars, serverVars,
                 applied, cancelled>>

\* Any other answer, or a second 403, goes to the caller, which throws
\* unless it is ok.
Return(c) ==
  /\ pc[c] = "answered" /\ reply[c] # "unauthenticated"
  /\ reply[c] = "elevation_required" => elevated[c]
  /\ Move([pc EXCEPT ![c] = IF reply[c] = "ok" THEN "ok" ELSE "failed"])
  /\ reply' = [reply EXCEPT ![c] = "none"]
  /\ UNCHANGED <<elevated, promise, targets, storeVars, formVars, pageVars, serverVars,
                 applied, cancelled>>

\* A promise no call is awaiting.
NewPromises == {p \in Promises : \A c \in Calls : pc[c] = "waiting" => promise[c] # p}

\* Mutant: every refused call makes a promise of its own.
RequestAnew(c) ==
  /\ pc[c] = "body"
  /\ visible' = TRUE
  /\ NewPromises # {} /\ pending' = CHOOSE p \in NewPromises : TRUE
  /\ promise' = [promise EXCEPT ![c] = pending']
  /\ pc' = [pc EXCEPT ![c] = "waiting"]
  /\ UNCHANGED <<reply, elevated, clickVars, formVars, pageVars, serverVars,
                 applied, cancelled>>

\* stepUpStore.request: join the open promise, or make one, open the dialog
\* and (its watcher) reset the form.
Request(c) ==
  /\ pc[c] = "body"
  /\ \/ /\ pending # None
        /\ promise' = [promise EXCEPT ![c] = pending]
        /\ UNCHANGED <<storeVars, loading, mfaRequired>>
     \/ /\ pending = None
        /\ visible' = TRUE /\ loading' = FALSE /\ mfaRequired' = FALSE
        /\ NewPromises # {} /\ pending' = CHOOSE p \in NewPromises : TRUE
        /\ promise' = [promise EXCEPT ![c] = pending']
  /\ pc' = [pc EXCEPT ![c] = "waiting"]
  /\ UNCHANGED <<reply, elevated, clickVars, attempt, withCode, outcome, pageVars, serverVars,
                 applied, cancelled>>

Awaiting == {c \in Calls : pc[c] = "waiting" /\ pending # None /\ promise[c] = pending}

-----------------------------------------------------------------------------
(* StepUpDialog.                                                           *)

\* confirm() with a password.  The button is disabled while loading; the
\* enter key is not.
Confirm(e) ==
  /\ visible /\ attempt[e] = "idle"
  /\ attempt' = [attempt EXCEPT ![e] = "sent"]
  /\ withCode' = [withCode EXCEPT ![e] = mfaRequired]
  /\ loading' = TRUE
  /\ UNCHANGED <<callVars, clickVars, storeVars, mfaRequired, outcome, pageVars, serverVars,
                 applied, cancelled>>

\* The server's answer to /bff/elevate: accepted, a code is wanted, or any
\* refusal (wrong password, no session, over the limit, upstream down).
ServeElevate(e) ==
  /\ attempt[e] = "sent"
  /\ attempt' = [attempt EXCEPT ![e] = "answered"]
  /\ \/ alive /\ outcome' = [outcome EXCEPT ![e] = "ok"] /\ fresh' = TRUE
     \/ /\ alive /\ ~withCode[e]
        /\ outcome' = [outcome EXCEPT ![e] = "mfa_required"] /\ UNCHANGED fresh
     \/ outcome' = [outcome EXCEPT ![e] = "refused"] /\ UNCHANGED fresh
  /\ UNCHANGED <<callVars, clickVars, storeVars, loading, mfaRequired, withCode, pageVars, alive,
                 applied, cancelled>>

\* confirm() is over.
Over(e) ==
  /\ attempt' = [attempt EXCEPT ![e] = "idle"]
  /\ withCode' = [withCode EXCEPT ![e] = FALSE]
  /\ outcome' = [outcome EXCEPT ![e] = "none"]

\* It succeeds: complete() closes the dialog and resolves the promise, and
\* every call that awaits it is sent again, once, as elevated.
Complete(e) ==
  /\ attempt[e] = "answered" /\ outcome[e] = "ok"
  /\ Over(e)
  /\ loading' = FALSE
  /\ visible' = FALSE /\ pending' = None
  /\ pc' = [c \in Calls |-> IF c \in Awaiting THEN "sent" ELSE pc[c]]
  /\ promise' = [c \in Calls |-> IF c \in Awaiting THEN None ELSE promise[c]]
  /\ elevated' = [c \in Calls |-> IF c \in Awaiting THEN TRUE ELSE elevated[c]]
  /\ UNCHANGED <<reply, clickVars, mfaRequired, pageVars,
                 serverVars, applied, cancelled>>

\* Mutant: loading is reset on success only.
FailedStillLoading(e) ==
  /\ attempt[e] = "answered" /\ outcome[e] # "ok"
  /\ Over(e)
  /\ mfaRequired' = IF outcome[e] = "mfa_required" THEN TRUE ELSE mfaRequired
  /\ UNCHANGED <<callVars, clickVars, storeVars, loading, pageVars, serverVars,
                 applied, cancelled>>

\* It fails: the dialog stays, perhaps with a field for the code.
Failed(e) ==
  /\ attempt[e] = "answered" /\ outcome[e] # "ok"
  /\ Over(e)
  /\ loading' = FALSE
  /\ mfaRequired' = IF outcome[e] = "mfa_required" THEN TRUE ELSE mfaRequired
  /\ UNCHANGED <<callVars, clickVars, storeVars, pageVars, serverVars,
                 applied, cancelled>>

\* The user dismisses the dialog: every call that awaits it throws.
Cancel ==
  /\ visible /\ ~loading
  /\ visible' = FALSE /\ pending' = None
  /\ Move([c \in Calls |-> IF c \in Awaiting THEN "failed" ELSE pc[c]])
  /\ promise' = [c \in Calls |-> IF c \in Awaiting THEN None ELSE promise[c]]
  /\ cancelled' = cancelled \cup Awaiting
  /\ UNCHANGED <<reply, elevated, targets, formVars, pageVars, serverVars,
                 applied>>

-----------------------------------------------------------------------------
(* The browser follows the navigation to the login and comes back to a new *)
(* page; the server's session ends or its elevation lapses (external).     *)

Unload ==
  /\ leaving
  /\ FreshPage
  /\ alive' = TRUE /\ fresh' = FALSE

SessionEnds ==
  /\ alive
  /\ alive' = FALSE /\ fresh' = FALSE
  /\ UNCHANGED <<callVars, clickVars, storeVars, formVars, pageVars,
                 applied, cancelled>>

ElevationLapses ==
  /\ fresh
  /\ fresh' = FALSE
  /\ UNCHANGED <<callVars, clickVars, storeVars, formVars, pageVars, alive,
                 applied, cancelled>>

CallStep(c) ==
  Serve(c) \/ Unauthenticated(c) \/ Forbidden(c) \/ Return(c) \/ Request(c)

ConfirmStep(e) == ServeElevate(e) \/ Complete(e) \/ Failed(e)

Next ==
  \/ \E k \in Clicks, us \in SUBSET Users : revokeSelected(k, us)
  \/ \E c \in Calls : CallStep(c)
  \/ \E e \in Confirms : Confirm(e) \/ ConfirmStep(e)
  \/ Cancel \/ Unload \/ SessionEnds \/ ElevationLapses

Spec == Init /\ [][Next]_vars

\* The server answers and the page's thread runs; nothing obliges the user.
Fairness ==
  /\ \A c \in Calls : WF_vars(CallStep(c))
  /\ \A e \in Confirms : WF_vars(ConfirmStep(e))

FairSpec == Spec /\ Fairness

-----------------------------------------------------------------------------
(* Properties.                                                             *)

TypeOK ==
  /\ pc \in [Calls -> CallPCs] /\ reply \in [Calls -> Replies]
  /\ elevated \in [Calls -> BOOLEAN] /\ promise \in [Calls -> Promises \cup {None}]
  /\ targets \in [Clicks -> SUBSET Users]
  /\ report \in [Clicks -> {"none", "running", "success", "error"}]
  /\ visible \in BOOLEAN /\ pending \in Promises \cup {None}
  /\ loading \in BOOLEAN /\ mfaRequired \in BOOLEAN
  /\ attempt \in [Confirms -> {"idle", "sent", "answered"}]
  /\ withCode \in [Confirms -> BOOLEAN] /\ outcome \in [Confirms -> Outcomes]
  /\ authenticated \in BOOLEAN /\ leaving \in BOOLEAN
  /\ alive \in BOOLEAN /\ fresh \in BOOLEAN
  /\ applied \in [Calls -> Nat] /\ cancelled \subseteq Calls

\* No call is left awaiting a promise that nobody can settle any more, and
\* no dialog asks for a password no call needs.
DialogServesWaiters ==
  /\ \A c \in Calls : pc[c] = "waiting" => visible /\ promise[c] = pending
  /\ visible => \E c \in Calls : pc[c] = "waiting"

\* The dialog's Cancel is disabled only while an elevate call is out, so the
\* user can always get out of it.
CancelNotStuck == visible /\ loading => \E e \in Confirms : attempt[e] # "idle"

\* An action the user backed out of is not carried out.
CancelledNotApplied == \A c \in cancelled : applied[c] = 0

\* The retry never repeats an action: whatever the server answered, each
\* call is carried out at most once.
AppliedAtMostOnce == \A c \in Calls : applied[c] <= 1

\* Asking for a step-up and retrying costs the user nothing: no action runs
\* twice, and none runs that was backed out of.
RetrySafe == AppliedAtMostOnce /\ CancelledNotApplied

\* The success toast means every selected user's tokens were revoked.
SuccessMeansApplied ==
  \A k \in Clicks : report[k] = "success" => \A u \in targets[k] : applied[<<k, u>>] = 1

\* Every call settles, or leaves the user with a dialog that can be answered,
\* or the page is on its way to the login.
CallSettlesOrAsks ==
  \A c \in Calls : pc[c] = "sent" ~> (pc[c] \in Settled \/ (visible /\ ~loading))
=============================================================================
