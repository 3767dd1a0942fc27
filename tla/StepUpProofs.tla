---------------------------- MODULE StepUpProofs ----------------------------
(***************************************************************************)
(* Proofs about StepUp, for any number of clicks, users, confirms and      *)
(* promises.                                                               *)
(***************************************************************************)
EXTENDS StepUp, TLAPS

USE StepUpAssumptions

\* The dialog is open exactly while stepUpStore has an open promise, and a
\* call that waits awaits that one.
PromiseOpen ==
  /\ visible <=> pending # None
  /\ \A c \in Calls : pc[c] = "waiting" => pending # None /\ promise[c] = pending
  /\ visible => \E c \in Calls : pc[c] = "waiting"

\* A form that is loading belongs to a confirm() that is out.
LoadingIsOut == loading => \E e \in Confirms : attempt[e] # "idle"

\* What the server did for a call, by where the call stands: nothing while it
\* is out for the first time, refused or waiting; once when it is ok.
AppliedByPC ==
  \A c \in Calls :
    /\ applied[c] <= 1
    /\ pc[c] \in {"sent", "body", "waiting"} => applied[c] = 0
    /\ pc[c] = "answered" /\ reply[c] \in {"elevation_required", "unauthenticated"} => applied[c] = 0
    /\ pc[c] = "answered" /\ reply[c] = "ok" => applied[c] = 1
    /\ pc[c] = "ok" => applied[c] = 1
    /\ c \in cancelled => pc[c] = "failed" /\ applied[c] = 0

\* The success toast stays up only while the calls it speaks of are ok.
SuccessIsOk ==
  \A k \in Clicks : report[k] = "success" => \A u \in targets[k] : pc[<<k, u>>] = "ok"

StepUpInv == TypeOK /\ PromiseOpen /\ LoadingIsOut /\ AppliedByPC /\ SuccessIsOk

\* It holds on a page just loaded.
LEMMA StepUpInvInit == Init => StepUpInv
<1> SUFFICES ASSUME Init PROVE StepUpInv
  OBVIOUS
<1>1. TypeOK
  BY DEF Init, TypeOK, CallPCs, Settled, Replies, Outcomes
<1>2. PromiseOpen /\ LoadingIsOut
  BY DEF Init, PromiseOpen, LoadingIsOut
<1>3. AppliedByPC
  BY DEF Init, AppliedByPC
<1>4. SuccessIsOk
  BY DEF Init, SuccessIsOk
<1> QED
  BY <1>1, <1>2, <1>3, <1>4 DEF StepUpInv

\* A toast has a type, and is a success only when every call it speaks of is
\* ok.
LEMMA ToastIsTrue ==
  ASSUME TypeOK, SuccessIsOk, NEW p \in [Calls -> CallPCs],
         \A c \in Calls : pc[c] = "ok" => p[c] = "ok"
  PROVE  /\ Toast(p) \in [Clicks -> {"none", "running", "success", "error"}]
         /\ \A k \in Clicks : Toast(p)[k] = "success" => \A u \in targets[k] : p[<<k, u>>] = "ok"
<1>1. Toast(p) \in [Clicks -> {"none", "running", "success", "error"}]
  BY DEF Toast, TypeOK
<1>2. ASSUME NEW k \in Clicks, Toast(p)[k] = "success", NEW u \in targets[k]
      PROVE  p[<<k, u>>] = "ok"
  <2>1. <<k, u>> \in Calls
    BY DEF TypeOK, Calls
  <2>2. CASE report[k] = "success"
    BY <1>2, <2>1, <2>2 DEF SuccessIsOk
  <2>3. CASE report[k] # "success"
    BY <1>2, <2>3 DEF Toast
  <2> QED
    BY <2>2, <2>3
<1> QED
  BY <1>1, <1>2

\* What changes when calls settle or move on and the toasts follow.
LEMMA MoveStep ==
  ASSUME TypeOK, SuccessIsOk, NEW p \in [Calls -> CallPCs],
         \A c \in Calls : pc[c] = "ok" => p[c] = "ok",
         Move(p), targets' = targets
  PROVE  /\ pc' \in [Calls -> CallPCs]
         /\ report' \in [Clicks -> {"none", "running", "success", "error"}]
         /\ SuccessIsOk'
BY ToastIsTrue DEF Move, SuccessIsOk

\* Every step of the page, the server and the user keeps it.
LEMMA StepUpInvStep == ASSUME StepUpInv, [Next]_vars PROVE StepUpInv'
<1> USE DEF StepUpInv, callVars, clickVars, storeVars, formVars, pageVars, serverVars
<1>1. ASSUME NEW k \in Clicks, NEW us \in SUBSET Users, revokeSelected(k, us) PROVE StepUpInv'
  <2> USE <1>1 DEF revokeSelected
  <2>0. \A c \in Calls : c[1] \in Clicks /\ c[2] \in Users /\ c = <<c[1], c[2]>>
    BY DEF Calls
  <2>1. TypeOK'
    BY DEF TypeOK, CallPCs, Settled
  <2>2. PromiseOpen' /\ LoadingIsOut'
    BY DEF TypeOK, PromiseOpen, LoadingIsOut
  <2>3. AppliedByPC'
    BY <2>0 DEF TypeOK, AppliedByPC
  <2>4. SuccessIsOk'
    BY DEF TypeOK, SuccessIsOk, Calls
  <2> QED
    BY <2>1, <2>2, <2>3, <2>4
<1>2. ASSUME NEW c \in Calls, Serve(c) PROVE StepUpInv'
  <2> USE <1>2 DEF Serve
  <2>1. TypeOK'
    BY DEF TypeOK, CallPCs, Replies
  <2>2. PromiseOpen' /\ LoadingIsOut'
    BY DEF TypeOK, PromiseOpen, LoadingIsOut
  <2>3. AppliedByPC'
    BY DEF TypeOK, AppliedByPC
  <2>4. SuccessIsOk'
    BY DEF TypeOK, SuccessIsOk, Calls
  <2> QED
    BY <2>1, <2>2, <2>3, <2>4
<1>3. ASSUME NEW c \in Calls, Unauthenticated(c) PROVE StepUpInv'
  <2> USE <1>3 DEF Unauthenticated
  <2>1. /\ pc' \in [Calls -> CallPCs] /\ SuccessIsOk'
        /\ report' \in [Clicks -> {"none", "running", "success", "error"}]
    BY MoveStep DEF TypeOK, CallPCs, Settled
  <2>2. TypeOK'
    BY <2>1 DEF TypeOK, Replies
  <2>3. PromiseOpen' /\ LoadingIsOut'
    BY DEF Move, TypeOK, PromiseOpen, LoadingIsOut
  <2>4. AppliedByPC'
    BY DEF Move, TypeOK, AppliedByPC
  <2> QED
    BY <2>1, <2>2, <2>3, <2>4
<1>4. ASSUME NEW c \in Calls, Forbidden(c) PROVE StepUpInv'
  <2> USE <1>4 DEF Forbidden
  <2>1. TypeOK'
    BY DEF TypeOK, CallPCs, Replies
  <2>2. PromiseOpen' /\ LoadingIsOut'
    BY DEF TypeOK, PromiseOpen, LoadingIsOut
  <2>3. AppliedByPC'
    BY DEF TypeOK, AppliedByPC
  <2>4. SuccessIsOk'
    BY DEF TypeOK, SuccessIsOk, Calls
  <2> QED
    BY <2>1, <2>2, <2>3, <2>4
<1>5. ASSUME NEW c \in Calls, Return(c) PROVE StepUpInv'
  <2> USE <1>5 DEF Return
  <2>1. /\ pc' \in [Calls -> CallPCs] /\ SuccessIsOk'
        /\ report' \in [Clicks -> {"none", "running", "success", "error"}]
    BY MoveStep DEF TypeOK, CallPCs, Settled
  <2>2. TypeOK'
    BY <2>1 DEF TypeOK, Replies
  <2>3. PromiseOpen' /\ LoadingIsOut'
    BY DEF Move, TypeOK, PromiseOpen, LoadingIsOut
  <2>4. AppliedByPC'
    BY DEF Move, TypeOK, AppliedByPC
  <2> QED
    BY <2>1, <2>2, <2>3, <2>4
<1>6. ASSUME NEW c \in Calls, Request(c) PROVE StepUpInv'
  <2> USE <1>6 DEF Request
  <2>1. pending' \in Promises \cup {None} /\ pending' # None
    BY DEF TypeOK, NewPromises
  <2>2. TypeOK'
    BY <2>1 DEF TypeOK, CallPCs
  <2>3. PromiseOpen'
    BY <2>1 DEF TypeOK, PromiseOpen
  <2>4. LoadingIsOut'
    BY DEF TypeOK, LoadingIsOut
  <2>5. AppliedByPC'
    BY DEF TypeOK, AppliedByPC
  <2>6. SuccessIsOk'
    BY DEF TypeOK, SuccessIsOk, Calls
  <2> QED
    BY <2>2, <2>3, <2>4, <2>5, <2>6
<1>7. ASSUME NEW e \in Confirms, Confirm(e) PROVE StepUpInv'
  <2> USE <1>7 DEF Confirm
  <2>1. TypeOK'
    BY DEF TypeOK
  <2>2. PromiseOpen' /\ LoadingIsOut'
    BY DEF TypeOK, PromiseOpen, LoadingIsOut
  <2>3. AppliedByPC' /\ SuccessIsOk'
    BY DEF AppliedByPC, SuccessIsOk
  <2> QED
    BY <2>1, <2>2, <2>3
<1>8. ASSUME NEW e \in Confirms, ServeElevate(e) PROVE StepUpInv'
  <2> USE <1>8 DEF ServeElevate
  <2>1. TypeOK'
    BY DEF TypeOK, Outcomes
  <2>2. PromiseOpen' /\ LoadingIsOut'
    BY DEF TypeOK, PromiseOpen, LoadingIsOut
  <2>3. AppliedByPC' /\ SuccessIsOk'
    BY DEF AppliedByPC, SuccessIsOk
  <2> QED
    BY <2>1, <2>2, <2>3
<1>9. ASSUME NEW e \in Confirms, Complete(e) PROVE StepUpInv'
  <2> USE <1>9 DEF Complete
  <2>1. TypeOK'
    BY DEF Over, TypeOK, CallPCs, Settled, Outcomes
  <2>2. PromiseOpen' /\ LoadingIsOut'
    BY DEF Awaiting, TypeOK, PromiseOpen, LoadingIsOut
  <2>3. AppliedByPC'
    BY DEF Awaiting, TypeOK, AppliedByPC
  <2>4. SuccessIsOk'
    BY DEF Awaiting, TypeOK, SuccessIsOk, Calls
  <2> QED
    BY <2>1, <2>2, <2>3, <2>4
<1>10. ASSUME NEW e \in Confirms, Failed(e) PROVE StepUpInv'
  <2> USE <1>10 DEF Failed
  <2>1. TypeOK'
    BY DEF Over, TypeOK, Outcomes
  <2>2. PromiseOpen' /\ LoadingIsOut'
    BY DEF TypeOK, PromiseOpen, LoadingIsOut
  <2>3. AppliedByPC' /\ SuccessIsOk'
    BY DEF AppliedByPC, SuccessIsOk
  <2> QED
    BY <2>1, <2>2, <2>3
<1>11. CASE Cancel
  <2> USE <1>11 DEF Cancel
  <2>1. /\ pc' \in [Calls -> CallPCs] /\ SuccessIsOk'
        /\ report' \in [Clicks -> {"none", "running", "success", "error"}]
    BY MoveStep DEF Awaiting, TypeOK, CallPCs, Settled
  <2>2. TypeOK'
    BY <2>1 DEF Awaiting, TypeOK
  <2>3. PromiseOpen' /\ LoadingIsOut'
    BY DEF Move, Awaiting, TypeOK, PromiseOpen, LoadingIsOut
  <2>4. AppliedByPC'
    BY DEF Move, Awaiting, TypeOK, AppliedByPC
  <2> QED
    BY <2>1, <2>2, <2>3, <2>4
<1>12. CASE Unload
  <2> USE <1>12 DEF Unload, FreshPage
  <2>1. TypeOK'
    BY DEF TypeOK, CallPCs, Settled, Replies, Outcomes
  <2>2. PromiseOpen' /\ LoadingIsOut'
    BY DEF PromiseOpen, LoadingIsOut
  <2>3. AppliedByPC' /\ SuccessIsOk'
    BY DEF AppliedByPC, SuccessIsOk
  <2> QED
    BY <2>1, <2>2, <2>3
<1>13. CASE SessionEnds \/ ElevationLapses \/ UNCHANGED vars
  <2> USE <1>13 DEF SessionEnds, ElevationLapses, vars
  <2>1. TypeOK'
    BY DEF TypeOK
  <2>2. PromiseOpen' /\ LoadingIsOut'
    BY DEF PromiseOpen, LoadingIsOut
  <2>3. AppliedByPC' /\ SuccessIsOk'
    BY DEF AppliedByPC, SuccessIsOk
  <2> QED
    BY <2>1, <2>2, <2>3
<1> QED
  BY <1>1, <1>2, <1>3, <1>4, <1>5, <1>6, <1>7, <1>8, <1>9, <1>10, <1>11, <1>12, <1>13
     DEF Next, CallStep, ConfirmStep

\* StepUpInv is an invariant of the page.
THEOREM StepUpInvariant == Spec => []StepUpInv
BY StepUpInvInit, StepUpInvStep, PTL DEF Spec

\* However many calls meet a step-up, and at whatever moment, no call of
\* fetchWithAuth waits on a promise the dialog no longer settles.
THEOREM NoOrphanedCall == Spec => []DialogServesWaiters
<1>1. StepUpInv => DialogServesWaiters
  BY DEF StepUpInv, PromiseOpen, DialogServesWaiters
<1> QED
  BY <1>1, StepUpInvariant, PTL

\* The dialog's buttons come back once no elevate call is out.
THEOREM DialogCanBeLeft == Spec => []CancelNotStuck
<1>1. StepUpInv => CancelNotStuck
  BY DEF StepUpInv, LoadingIsOut, CancelNotStuck
<1> QED
  BY <1>1, StepUpInvariant, PTL

\* The retry after a step-up never repeats what the server carried out, and
\* nothing the user backed out of is carried out.
THEOREM RetryIsSafe == Spec => []RetrySafe
<1>1. StepUpInv => RetrySafe
  BY DEF StepUpInv, TypeOK, AppliedByPC, RetrySafe, AppliedAtMostOnce, CancelledNotApplied
<1> QED
  BY <1>1, StepUpInvariant, PTL

\* revokeSelected reports success only when every user's tokens were revoked.
THEOREM SuccessIsTrue == Spec => []SuccessMeansApplied
<1>1. StepUpInv => SuccessMeansApplied
  BY DEF StepUpInv, TypeOK, AppliedByPC, SuccessIsOk, SuccessMeansApplied, Calls
<1> QED
  BY <1>1, StepUpInvariant, PTL
=============================================================================
