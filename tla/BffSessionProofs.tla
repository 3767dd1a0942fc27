-------------------------- MODULE BffSessionProofs --------------------------
(***************************************************************************)
(* Proofs about BffSession, for any set of requests, both stores and every *)
(* bound.                                                                  *)
(***************************************************************************)
EXTENDS BffSession, TLAPS

USE BffSessionAssumptions

-----------------------------------------------------------------------------
(* Types.  First what the shared helpers of the actions return.            *)

\* A store write, failed or not, and a Delete leave the store well typed.
LEMMA StatementType ==
  ASSUME StoreType, StatementFails
  PROVE  StoreType'
BY DEF StoreType, StatementFails

LEMMA WritesType ==
  ASSUME StoreType, NEW v \in TokenSet, StoreWrites(v)
  PROVE  StoreType'
BY DEF StoreType, StoreWrites

LEMMA WriteBackType ==
  ASSUME StoreType, NEW v \in TokenSet, WriteBack(v)
  PROVE  StoreType'
BY StatementType, WritesType DEF WriteBack

LEMMA DeleteType ==
  ASSUME StoreType, HistoryType, StoreDeletes
  PROVE  StoreType' /\ ended' \in BOOLEAN
BY DEF StoreType, HistoryType, StoreDeletes

LEMMA NoTokensType == NoTokens \in TokenSet
BY DEF NoTokens, TokenSet

\* Answering and moving on keep the handlers' state well typed.
LEMMA AnswerType ==
  ASSUME HandlerType, NEW r \in Requests, NEW a \in Answers, Answer(r, a)
  PROVE  HandlerType'
BY DEF HandlerType, Answer, NoTokens, TokenSet, PCs, Idle

LEMMA GotoType ==
  ASSUME HandlerType, NEW r \in Requests, NEW l \in PCs, Goto(r, l)
  PROVE  pc' \in [Requests -> PCs] /\ answer' \in [Requests -> Answers]
BY DEF HandlerType, Goto

\* A handler's session is a token set.
LEMMA SessionType ==
  ASSUME StoreType, HandlerType, NEW r \in Requests
  PROVE  Session(r) \in TokenSet
BY DEF StoreType, HandlerType, Session
\* Parts an action leaves alone keep their types.
LEMMA SameStore == ASSUME StoreType, UNCHANGED store PROVE StoreType'
BY DEF StoreType, store

LEMMA SameRequest == ASSUME RequestType, UNCHANGED request PROVE RequestType'
BY DEF RequestType, request

LEMMA SameHandler == ASSUME HandlerType, UNCHANGED <<pc, answer, held, before>> PROVE HandlerType'
BY DEF HandlerType

LEMMA SameIssuer == ASSUME IssuerType, UNCHANGED <<flight, issuer>> PROVE IssuerType'
BY DEF IssuerType, issuer

LEMMA SameHistory == ASSUME HistoryType, UNCHANGED history PROVE HistoryType'
BY DEF HistoryType, history

\* Every step keeps the variables in their types: the counters within their
\* bounds, the tokens a session holds among those the issuer handed out.
LEMMA TypeStep ==
  ASSUME TypeOK, [Next]_vars
  PROVE  TypeOK'
<1> USE SameStore, SameRequest, SameHandler, SameIssuer, SameHistory DEF TypeOK
<1>1. ASSUME NEW r \in Requests, NEW k \in Kinds, Begin(r, k)
      PROVE  TypeOK'
  BY <1>1 DEF Begin, RequestType, HandlerType, HistoryType, history, PCs, Answers
<1>2. CASE Callback
  <2>0. [rt |-> 1, el |-> FALSE] \in TokenSet
    BY DEF TokenSet
  <2>1. StoreType'
    <3>1. CASE StoreWrites([rt |-> 1, el |-> FALSE])
      BY <2>0, <3>1, WritesType
    <3>2. CASE errs' = errs + 1 /\ errs < MaxErrors /\ row' = "gone" /\ UNCHANGED val
      BY <3>2 DEF StoreType
    <3> QED
      BY <1>2, <3>1, <3>2 DEF Callback
  <2>2. IssuerType'
    BY <1>2 DEF Callback, IssuerType
  <2> QED
    BY <1>2, <2>1, <2>2 DEF Callback
<1>3. ASSUME NEW r \in Requests, RateLimited(r) PROVE TypeOK'
  BY <1>3, AnswerType DEF RateLimited, Reply, Answers
<1>4. ASSUME NEW r \in Requests, Get(r) PROVE TypeOK'
  <2>1. StoreType'
    BY <1>4, StatementType DEF Get
  <2>2. held' \in [Requests -> TokenSet] /\ before' \in [Requests -> 0 .. MaxErrors]
    BY <1>4, NoTokensType DEF Get, HandlerType, StoreType
  <2>3. pc' \in [Requests -> PCs] /\ answer' \in [Requests -> Answers]
    BY <1>4, GotoType DEF Get, PCs, Holding
  <2> QED
    BY <1>4, <2>1, <2>2, <2>3 DEF Get, HandlerType
<1>5. ASSUME NEW r \in Requests, Touch(r) PROVE TypeOK'
  BY <1>5, GotoType, WriteBackType, SessionType DEF Touch, HandlerType, PCs, Holding
<1>6. ASSUME NEW r \in Requests, NoSession(r) PROVE TypeOK'
  BY <1>6, AnswerType DEF NoSession, Reply, Answers
<1>7. ASSUME NEW r \in Requests, RefuseCSRF(r) PROVE TypeOK'
  BY <1>7, AnswerType DEF RefuseCSRF, Reply, Answers
<1>8. ASSUME NEW r \in Requests, AnswerSession(r) PROVE TypeOK'
  BY <1>8, AnswerType DEF AnswerSession, Reply, Answers
<1>9. ASSUME NEW r \in Requests, ReadTokens(r) PROVE TypeOK'
  BY <1>9, GotoType, SessionType DEF ReadTokens, HandlerType, PCs, Holding
<1>10. ASSUME NEW r \in Requests, Revoke(r) PROVE TypeOK'
  <2>1. HandlerType'
    BY <1>10, GotoType DEF Revoke, HandlerType, PCs, Holding
  <2>2. IssuerType'
    BY <1>10 DEF Revoke, IssuerType
  <2> QED
    BY <1>10, <2>1, <2>2 DEF Revoke
<1>11. ASSUME NEW r \in Requests, LoadErrors(r) PROVE TypeOK'
  BY <1>11, GotoType DEF LoadErrors, HandlerType, PCs, Holding, StoreType
<1>12. ASSUME NEW r \in Requests, Delete(r) PROVE TypeOK'
  <2>1. HandlerType'
    BY <1>12, GotoType DEF Delete, HandlerType, PCs, Holding
  <2>2. StoreType' /\ HistoryType'
    BY <1>12, StatementType, DeleteType DEF Delete, HistoryType
  <2> QED
    BY <1>12, <2>1, <2>2 DEF Delete
<1>13. ASSUME NEW r \in Requests, CheckErrors(r) PROVE TypeOK'
  BY <1>13, AnswerType DEF CheckErrors, Reply, Answers
<1>14. ASSUME NEW r \in Requests, StillFresh(r) PROVE TypeOK'
  BY <1>14, GotoType DEF StillFresh, HandlerType, PCs, Holding
<1>15. ASSUME NEW r \in Requests, Refresh(r) PROVE TypeOK'
  <2>1. HandlerType'
    BY <1>15, GotoType DEF Refresh, HandlerType, PCs, Holding
  <2>2. val.rt \in 0 .. MaxTokens /\ Session(r).rt \in 0 .. MaxTokens
    BY SessionType DEF StoreType, TokenSet
  <2>3. IssuerType'
    BY <1>15, <2>2 DEF Refresh, IssuerType, issuer, Phases
  <2> QED
    BY <1>15, <2>1, <2>3 DEF Refresh
<1>16. ASSUME NEW r \in Requests, Kill(r) PROVE TypeOK'
  <2>1. HandlerType'
    BY <1>16, AnswerType DEF Kill, Reply, Answers
  <2>2. StoreType' /\ HistoryType'
    BY <1>16, StatementType, DeleteType DEF Kill, Reply, HistoryType
  <2> QED
    BY <1>16, <2>1, <2>2 DEF Kill, Reply
<1>17. ASSUME NEW r \in Requests, Proxy(r) PROVE TypeOK'
  BY <1>17, AnswerType DEF Proxy, Reply, Answers
<1>18. ASSUME NEW r \in Requests, Elevate(r) PROVE TypeOK'
  <2>1. HandlerType'
    BY <1>18, AnswerType DEF Elevate, Reply, Answers
  <2>2. [Session(r) EXCEPT !.el = TRUE] \in TokenSet
    BY SessionType DEF TokenSet
  <2>3. StoreType'
    BY <1>18, <2>2, WriteBackType DEF Elevate, Reply
  <2> QED
    BY <1>18, <2>1, <2>3 DEF Elevate, Reply
<1>19. CASE IssuerAnswers
  <2>1. IssuerType'
    <3>1. ASSUME NEW p \in Phases, NEW t \in 0 .. MaxTokens
          PROVE  /\ [phase |-> p, rt |-> t] \in [phase : Phases, rt : 0 .. MaxTokens]
                 /\ [flight EXCEPT !.phase = p] \in [phase : Phases, rt : 0 .. MaxTokens]
      BY DEF IssuerType
    <3>2. issued' \in 0 .. MaxTokens /\ good' \in 0 .. MaxTokens
      <4>1. \/ issued < MaxTokens /\ issued' = issued + 1 /\ good' = issued + 1
            \/ issued' = issued /\ (good' = 0 \/ good' = good)
        BY <1>19 DEF IssuerAnswers, issuer
      <4> QED
        BY <4>1 DEF IssuerType
    <3>3. \/ flight' = [phase |-> "ok", rt |-> issued']
          \/ \E p \in {"down", "rejected"} : flight' = [flight EXCEPT !.phase = p]
      BY <1>19 DEF IssuerAnswers
    <3> QED
      BY <3>1, <3>2, <3>3 DEF IssuerType, Phases
  <2>2. HistoryType'
    BY <1>19 DEF IssuerAnswers, HistoryType
  <2> QED
    BY <1>19, <2>1, <2>2 DEF IssuerAnswers
<1>20. CASE RefreshDone
  <2> DEFINE fresh == [rt |-> flight.rt, el |-> FALSE]
  <2>1. fresh \in TokenSet
    BY DEF IssuerType, TokenSet
  <2>2. StoreType'
    BY <1>20, <2>1, WritesType, StatementType DEF RefreshDone
  <2>3. HandlerType'
    BY <1>20, <2>1 DEF RefreshDone, HandlerType, PCs, Holding
  <2>4. IssuerType'
    BY <1>20 DEF RefreshDone, NoFlight, IssuerType, issuer, Phases
  <2>5. HistoryType'
    BY <1>20 DEF RefreshDone, HistoryType
  <2> QED
    BY <1>20, <2>2, <2>3, <2>4, <2>5 DEF RefreshDone
<1>21. CASE RefreshFailed
  <2>1. pc' \in [Requests -> PCs] /\ answer' \in [Requests -> Answers]
    BY <1>21 DEF RefreshFailed, HandlerType, PCs, Idle, Holding, Answers
  <2>2. held' \in [Requests -> TokenSet] /\ before' \in [Requests -> 0 .. MaxErrors]
    BY <1>21 DEF RefreshFailed, HandlerType, NoTokens, TokenSet
  <2>3. IssuerType'
    BY <1>21 DEF RefreshFailed, NoFlight, IssuerType, issuer, Phases
  <2> QED
    BY <1>21, <2>1, <2>2, <2>3 DEF RefreshFailed, HandlerType
<1>22. CASE Lapse
  <2>1. StoreType'
    BY <1>22 DEF Lapse, StoreType
  <2> QED
    BY <1>22, <2>1 DEF Lapse
<1>23. CASE PruneTombstone
  <2>1. StoreType'
    BY <1>23 DEF PruneTombstone, StoreType
  <2> QED
    BY <1>23, <2>1 DEF PruneTombstone
<1>24. CASE OtherStatementFails
  <2>1. StoreType'
    BY <1>24, StatementType DEF OtherStatementFails
  <2> QED
    BY <1>24, <2>1 DEF OtherStatementFails
<1>25. CASE Restart
  <2>1. StoreType'
    BY <1>25 DEF Restart, StoreType
  <2>2. HandlerType'
    BY <1>25 DEF Restart, HandlerType, NoTokens, TokenSet, PCs, Idle, Answers
  <2>3. IssuerType'
    BY <1>25 DEF Restart, NoFlight, IssuerType, issuer, Phases
  <2>4. HistoryType'
    BY <1>25 DEF Restart, HistoryType
  <2> QED
    BY <1>25, <2>1, <2>2, <2>3, <2>4 DEF Restart
<1>26. CASE UNCHANGED vars
  BY <1>26 DEF vars, HandlerType
<1> QED
  BY <1>1, <1>2, <1>3, <1>4, <1>5, <1>6, <1>7, <1>8, <1>9, <1>10, <1>11, <1>12, <1>13, <1>14, <1>15, <1>16, <1>17, <1>18, <1>19, <1>20, <1>21, <1>22, <1>23, <1>24, <1>25, <1>26 DEF Next, HandlerStep, FlightStep

LEMMA TypeInit == Init => TypeOK
<1> SUFFICES ASSUME Init PROVE TypeOK
  OBVIOUS
<1>1. StoreType
  BY NoTokensType DEF Init, StoreType
<1>2. RequestType
  BY DEF Init, RequestType, Kinds
<1>3. HandlerType
  BY NoTokensType DEF Init, HandlerType, PCs, Idle, Answers
<1>4. IssuerType
  BY DEF Init, IssuerType, NoFlight, Phases
<1> QED
  BY <1>1, <1>2, <1>3, <1>4 DEF Init, TypeOK, HistoryType

\* BffSession's type invariant holds of every behaviour, for every choice of
\* store, any set of requests and any bounds.
THEOREM TypeCorrect == Spec => []TypeOK
<1>1. TypeOK /\ [Next]_vars => TypeOK'
  BY TypeStep
<1> QED
  BY TypeInit, <1>1, PTL DEF Spec

-----------------------------------------------------------------------------
(* The row: nothing that is written after a successful Delete revives it.  *)

\* The row and its holders: a Delete is final because whoever may still
\* write holds the session, and while somebody does the tombstone stays.
LEMMA RowStep ==
  ASSUME TypeOK, RowInv, [Next]_vars
  PROVE  RowInv'
<1> USE DEF RowInv, NoResurrection, TombstoneOutlivesHolders, FlightHasWaiter, TombstoneMeansEnded, TypeOK, HandlerType, PCs, Holding, store, history, issuer, request
<1>1. ASSUME NEW r \in Requests, NEW k \in Kinds, Begin(r, k)
      PROVE  RowInv'
  BY <1>1 DEF Begin, Idle
<1>2. CASE Callback
  BY <1>2 DEF Callback, StoreWrites
<1>3. ASSUME NEW r \in Requests, RateLimited(r) PROVE RowInv'
  BY <1>3 DEF RateLimited, Reply, Answer
<1>4. ASSUME NEW r \in Requests, Get(r) PROVE RowInv'
  BY <1>4 DEF Get, Goto, StatementFails, store
<1>5. ASSUME NEW r \in Requests, Touch(r) PROVE RowInv'
  BY <1>5 DEF Touch, Goto, WriteBack, StoreWrites, StatementFails
<1>6. ASSUME NEW r \in Requests, NoSession(r) PROVE RowInv'
  BY <1>6 DEF NoSession, Reply, Answer
<1>7. ASSUME NEW r \in Requests, RefuseCSRF(r) PROVE RowInv'
  BY <1>7 DEF RefuseCSRF, Reply, Answer
<1>8. ASSUME NEW r \in Requests, AnswerSession(r) PROVE RowInv'
  BY <1>8 DEF AnswerSession, Reply, Answer
<1>9. ASSUME NEW r \in Requests, ReadTokens(r) PROVE RowInv'
  BY <1>9 DEF ReadTokens, Goto
<1>10. ASSUME NEW r \in Requests, Revoke(r) PROVE RowInv'
  BY <1>10 DEF Revoke, Goto
<1>11. ASSUME NEW r \in Requests, LoadErrors(r) PROVE RowInv'
  BY <1>11 DEF LoadErrors, Goto
<1>12. ASSUME NEW r \in Requests, Delete(r) PROVE RowInv'
  <2>1. FlightHasWaiter'
    BY <1>12 DEF Delete, Goto
  <2>2. row # "none" /\ (ended => row = "tomb")
    BY <1>12 DEF Delete
  <2>3. CASE StoreDeletes
    BY <2>1, <2>2, <2>3 DEF StoreDeletes
  <2>4. CASE StatementFails /\ UNCHANGED ended
    BY <2>1, <2>2, <2>4 DEF StatementFails
  <2> QED
    BY <1>12, <2>3, <2>4 DEF Delete
<1>13. ASSUME NEW r \in Requests, CheckErrors(r) PROVE RowInv'
  BY <1>13 DEF CheckErrors, Reply, Answer
<1>14. ASSUME NEW r \in Requests, StillFresh(r) PROVE RowInv'
  BY <1>14 DEF StillFresh, NeedsToken, Goto
<1>15. ASSUME NEW r \in Requests, Refresh(r) PROVE RowInv'
  BY <1>15 DEF Refresh, NeedsToken, Goto
<1>16. ASSUME NEW r \in Requests, Kill(r) PROVE RowInv'
  <2>1. FlightHasWaiter'
    BY <1>16 DEF Kill, Reply, Answer
  <2>2. row # "none" /\ (ended => row = "tomb")
    BY <1>16 DEF Kill
  <2>3. CASE StoreDeletes
    BY <2>1, <2>2, <2>3 DEF StoreDeletes
  <2>4. CASE StatementFails /\ UNCHANGED ended
    BY <2>1, <2>2, <2>4 DEF StatementFails
  <2> QED
    BY <1>16, <2>3, <2>4 DEF Kill, Reply
<1>17. ASSUME NEW r \in Requests, Proxy(r) PROVE RowInv'
  BY <1>17 DEF Proxy, Reply, Answer
<1>18. ASSUME NEW r \in Requests, Elevate(r) PROVE RowInv'
  BY <1>18 DEF Elevate, Reply, Answer, WriteBack, StoreWrites, StatementFails
<1>19. CASE IssuerAnswers
  BY <1>19 DEF IssuerAnswers
<1>20. CASE RefreshDone
  BY <1>20 DEF RefreshDone, StoreWrites, StatementFails, NoFlight
<1>21. CASE RefreshFailed
  BY <1>21 DEF RefreshFailed, NoFlight
<1>22. CASE Lapse
  BY <1>22 DEF Lapse, Quiet
<1>23. CASE PruneTombstone
  BY <1>23 DEF PruneTombstone, Quiet
<1>24. CASE OtherStatementFails
  BY <1>24 DEF OtherStatementFails, StatementFails
<1>25. CASE Restart
  BY <1>25 DEF Restart, NoFlight
<1>26. CASE UNCHANGED vars
  BY <1>26 DEF vars
<1> QED
  BY <1>1, <1>2, <1>3, <1>4, <1>5, <1>6, <1>7, <1>8, <1>9, <1>10, <1>11, <1>12, <1>13, <1>14,
     <1>15, <1>16, <1>17, <1>18, <1>19, <1>20, <1>21, <1>22, <1>23, <1>24, <1>25, <1>26 DEF Next, HandlerStep, FlightStep

-----------------------------------------------------------------------------
(* Requests that begin after the end.                                      *)

\* A late request finds no live row, so it never holds the session.
LEMMA LateStep ==
  ASSUME TypeOK, RowInv, LateInv, [Next]_vars
  PROVE  LateInv'
<1> USE DEF LateInv, LateNeverHolds, NothingServedAfterEnd, SignedIn, RowInv, NoResurrection, TypeOK, HandlerType, RequestType, Holding, store, history, issuer, request
<1>1. ASSUME NEW r \in Requests, NEW k \in Kinds, Begin(r, k)
      PROVE  LateInv'
  BY <1>1 DEF Begin
<1>2. CASE Callback
  BY <1>2 DEF Callback, StoreWrites
<1>3. ASSUME NEW r \in Requests, RateLimited(r) PROVE LateInv'
  BY <1>3 DEF RateLimited, Reply, Answer
<1>4. ASSUME NEW r \in Requests, Get(r) PROVE LateInv'
  BY <1>4 DEF Get, Goto, StatementFails, store
<1>5. ASSUME NEW r \in Requests, Touch(r) PROVE LateInv'
  BY <1>5 DEF Touch, Goto, WriteBack, StoreWrites, StatementFails
<1>6. ASSUME NEW r \in Requests, NoSession(r) PROVE LateInv'
  BY <1>6 DEF NoSession, Reply, Answer
<1>7. ASSUME NEW r \in Requests, RefuseCSRF(r) PROVE LateInv'
  BY <1>7 DEF RefuseCSRF, Reply, Answer
<1>8. ASSUME NEW r \in Requests, AnswerSession(r) PROVE LateInv'
  BY <1>8 DEF AnswerSession, Reply, Answer
<1>9. ASSUME NEW r \in Requests, ReadTokens(r) PROVE LateInv'
  BY <1>9 DEF ReadTokens, Goto
<1>10. ASSUME NEW r \in Requests, Revoke(r) PROVE LateInv'
  BY <1>10 DEF Revoke, Goto
<1>11. ASSUME NEW r \in Requests, LoadErrors(r) PROVE LateInv'
  BY <1>11 DEF LoadErrors, Goto
<1>12. ASSUME NEW r \in Requests, Delete(r) PROVE LateInv'
  BY <1>12 DEF Delete, Goto, StoreDeletes, StatementFails
<1>13. ASSUME NEW r \in Requests, CheckErrors(r) PROVE LateInv'
  BY <1>13 DEF CheckErrors, Reply, Answer
<1>14. ASSUME NEW r \in Requests, StillFresh(r) PROVE LateInv'
  BY <1>14 DEF StillFresh, NeedsToken, Goto
<1>15. ASSUME NEW r \in Requests, Refresh(r) PROVE LateInv'
  BY <1>15 DEF Refresh, NeedsToken, Goto
<1>16. ASSUME NEW r \in Requests, Kill(r) PROVE LateInv'
  BY <1>16 DEF Kill, Reply, Answer, StoreDeletes, StatementFails
<1>17. ASSUME NEW r \in Requests, Proxy(r) PROVE LateInv'
  BY <1>17 DEF Proxy, Reply, Answer
<1>18. ASSUME NEW r \in Requests, Elevate(r) PROVE LateInv'
  BY <1>18 DEF Elevate, Reply, Answer, WriteBack, StoreWrites, StatementFails
<1>19. CASE IssuerAnswers
  BY <1>19 DEF IssuerAnswers
<1>20. CASE RefreshDone
  BY <1>20 DEF RefreshDone, StoreWrites, StatementFails, NoFlight
<1>21. CASE RefreshFailed
  BY <1>21 DEF RefreshFailed, NoFlight
<1>22. CASE Lapse
  BY <1>22 DEF Lapse, Quiet
<1>23. CASE PruneTombstone
  BY <1>23 DEF PruneTombstone, Quiet
<1>24. CASE OtherStatementFails
  BY <1>24 DEF OtherStatementFails, StatementFails
<1>25. CASE Restart
  BY <1>25 DEF Restart, NoFlight
<1>26. CASE UNCHANGED vars
  BY <1>26 DEF vars
<1> QED
  BY <1>1, <1>2, <1>3, <1>4, <1>5, <1>6, <1>7, <1>8, <1>9, <1>10, <1>11, <1>12, <1>13, <1>14,
     <1>15, <1>16, <1>17, <1>18, <1>19, <1>20, <1>21, <1>22, <1>23, <1>24, <1>25, <1>26 DEF Next, HandlerStep, FlightStep

-----------------------------------------------------------------------------
(* Logout's report.                                                        *)

\* The counter only grows while a logout runs, so an unchanged counter means
\* that this Delete did not fail.
LEMMA CountStep ==
  ASSUME TypeOK, RowInv, CountInv, [Next]_vars
  PROVE  CountInv'
<1> USE DEF CountInv, CountedDelete, CleanLogoutEnded, RowInv, TombstoneOutlivesHolders, TombstoneMeansEnded, TypeOK, StoreType, HandlerType, Holding, store, history, issuer, request
<1>1. ASSUME NEW r \in Requests, NEW k \in Kinds, Begin(r, k)
      PROVE  CountInv'
  BY <1>1 DEF Begin, Idle
<1>2. CASE Callback
  BY <1>2 DEF Callback, StoreWrites
<1>3. ASSUME NEW r \in Requests, RateLimited(r) PROVE CountInv'
  BY <1>3 DEF RateLimited, Reply, Answer
<1>4. ASSUME NEW r \in Requests, Get(r) PROVE CountInv'
  BY <1>4 DEF Get, Goto, StatementFails, store
<1>5. ASSUME NEW r \in Requests, Touch(r) PROVE CountInv'
  BY <1>5 DEF Touch, Goto, WriteBack, StoreWrites, StatementFails
<1>6. ASSUME NEW r \in Requests, NoSession(r) PROVE CountInv'
  BY <1>6 DEF NoSession, Reply, Answer
<1>7. ASSUME NEW r \in Requests, RefuseCSRF(r) PROVE CountInv'
  BY <1>7 DEF RefuseCSRF, Reply, Answer
<1>8. ASSUME NEW r \in Requests, AnswerSession(r) PROVE CountInv'
  BY <1>8 DEF AnswerSession, Reply, Answer
<1>9. ASSUME NEW r \in Requests, ReadTokens(r) PROVE CountInv'
  BY <1>9 DEF ReadTokens, Goto
<1>10. ASSUME NEW r \in Requests, Revoke(r) PROVE CountInv'
  BY <1>10 DEF Revoke, Goto
<1>11. ASSUME NEW r \in Requests, LoadErrors(r) PROVE CountInv'
  BY <1>11 DEF LoadErrors, Goto
<1>12. ASSUME NEW r \in Requests, Delete(r) PROVE CountInv'
  <2>2. CASE StoreDeletes
    <3>1. ended'
      BY <2>2 DEF StoreDeletes
    <3> QED
      BY <1>12, <2>2, <3>1 DEF Delete, Goto, StoreDeletes
  <2>3. CASE StatementFails /\ UNCHANGED ended
    BY <1>12, <2>3 DEF Delete, Goto, StatementFails
  <2> QED
    BY <1>12, <2>2, <2>3 DEF Delete
<1>13. ASSUME NEW r \in Requests, CheckErrors(r) PROVE CountInv'
  BY <1>13 DEF CheckErrors, Reply, Answer
<1>14. ASSUME NEW r \in Requests, StillFresh(r) PROVE CountInv'
  BY <1>14 DEF StillFresh, NeedsToken, Goto
<1>15. ASSUME NEW r \in Requests, Refresh(r) PROVE CountInv'
  BY <1>15 DEF Refresh, NeedsToken, Goto
<1>16. ASSUME NEW r \in Requests, Kill(r) PROVE CountInv'
  <2>2. CASE StoreDeletes
    <3>1. ended'
      BY <2>2 DEF StoreDeletes
    <3> QED
      BY <1>16, <2>2, <3>1 DEF Kill, Reply, Answer, StoreDeletes
  <2>3. CASE StatementFails /\ UNCHANGED ended
    BY <1>16, <2>3 DEF Kill, Reply, Answer, StatementFails
  <2> QED
    BY <1>16, <2>2, <2>3 DEF Kill, Reply
<1>17. ASSUME NEW r \in Requests, Proxy(r) PROVE CountInv'
  BY <1>17 DEF Proxy, Reply, Answer
<1>18. ASSUME NEW r \in Requests, Elevate(r) PROVE CountInv'
  BY <1>18 DEF Elevate, Reply, Answer, WriteBack, StoreWrites, StatementFails
<1>19. CASE IssuerAnswers
  BY <1>19 DEF IssuerAnswers
<1>20. CASE RefreshDone
  BY <1>20 DEF RefreshDone, StoreWrites, StatementFails, NoFlight
<1>21. CASE RefreshFailed
  BY <1>21 DEF RefreshFailed, NoFlight
<1>22. CASE Lapse
  BY <1>22 DEF Lapse, Quiet
<1>23. CASE PruneTombstone
  BY <1>23 DEF PruneTombstone, Quiet
<1>24. CASE OtherStatementFails
  BY <1>24 DEF OtherStatementFails, StatementFails
<1>25. CASE Restart
  BY <1>25 DEF Restart, NoFlight
<1>26. CASE UNCHANGED vars
  BY <1>26 DEF vars
<1> QED
  BY <1>1, <1>2, <1>3, <1>4, <1>5, <1>6, <1>7, <1>8, <1>9, <1>10, <1>11, <1>12, <1>13, <1>14,
     <1>15, <1>16, <1>17, <1>18, <1>19, <1>20, <1>21, <1>22, <1>23, <1>24, <1>25, <1>26 DEF Next, HandlerStep, FlightStep
-----------------------------------------------------------------------------
(* The theorems.                                                           *)

\* The inductive invariant: it holds initially and every step keeps it.
THEOREM SessionInvariant == Spec => []SessionInv
<1>1. Init => SessionInv
  <2> SUFFICES ASSUME Init PROVE SessionInv
    OBVIOUS
  <2>1. TypeOK
    BY TypeInit
  <2>2. RowInv
    BY DEF Init, RowInv, NoResurrection, TombstoneOutlivesHolders, FlightHasWaiter, TombstoneMeansEnded, NoFlight, Holding
  <2>3. LateInv /\ CountInv
    BY DEF Init, LateInv, LateNeverHolds, NothingServedAfterEnd, SignedIn, CountInv, CountedDelete, CleanLogoutEnded
  <2> QED
    BY <2>1, <2>2, <2>3 DEF SessionInv
<1>2. SessionInv /\ [Next]_vars => SessionInv'
  BY TypeStep, RowStep, LateStep, CountStep DEF SessionInv
<1> QED
  BY <1>1, <1>2, PTL DEF Spec

\* writeBack's promise (P3-29): with either store, no interleaving of
\* requests, failures and restarts brings a deleted session back.
THEOREM NeverResurrected == Spec => []NoResurrection
<1>1. SessionInv => NoResurrection
  BY DEF SessionInv, RowInv
<1> QED
  BY SessionInvariant, <1>1, PTL

\* A request that begins after the session ended is never served with it.
THEOREM EndIsFinal == Spec => []NothingServedAfterEnd
<1>1. SessionInv => NothingServedAfterEnd
  BY DEF SessionInv, LateInv
<1> QED
  BY SessionInvariant, <1>1, PTL

\* deleteSession's promise (P3-28): a failed delete is never reported as a
\* clean logout, whatever else fails at the same time.
THEOREM CleanReportIsTrue == Spec => []CleanLogoutEnded
<1>1. SessionInv => CleanLogoutEnded
  BY DEF SessionInv, CountInv
<1> QED
  BY SessionInvariant, <1>1, PTL

-----------------------------------------------------------------------------
(* Refresh tokens with the memory store.                                   *)

\* Handlers share the object, so no write-back carries an old token.
LEMMA TokenStep ==
  ASSUME ~Durable, TypeOK, RowInv, TokenInv, [Next]_vars
  PROVE  TokenInv'
<1> USE DEF TokenInv, NewestToken, SpentOnlyAfterLoss, TypeOK, StoreType, IssuerType, HistoryType, TokenSet, Phases, store, history, issuer, request
<1>1. ASSUME NEW r \in Requests, NEW k \in Kinds, Begin(r, k)
      PROVE  TokenInv'
  BY <1>1 DEF Begin
<1>2. CASE Callback
  <2>1. flight.phase = "none"
    BY <1>2 DEF Callback, RowInv, TombstoneOutlivesHolders, FlightHasWaiter, Holding
  <2> QED
    BY <1>2, <2>1 DEF Callback, StoreWrites
<1>3. ASSUME NEW r \in Requests, RateLimited(r) PROVE TokenInv'
  BY <1>3 DEF RateLimited, Reply, Answer
<1>4. ASSUME NEW r \in Requests, Get(r) PROVE TokenInv'
  BY <1>4 DEF Get, Goto, StatementFails, store
<1>5. ASSUME NEW r \in Requests, Touch(r) PROVE TokenInv'
  BY <1>5 DEF Touch, Goto, WriteBack, StoreWrites, StatementFails, Session
<1>6. ASSUME NEW r \in Requests, NoSession(r) PROVE TokenInv'
  BY <1>6 DEF NoSession, Reply, Answer
<1>7. ASSUME NEW r \in Requests, RefuseCSRF(r) PROVE TokenInv'
  BY <1>7 DEF RefuseCSRF, Reply, Answer
<1>8. ASSUME NEW r \in Requests, AnswerSession(r) PROVE TokenInv'
  BY <1>8 DEF AnswerSession, Reply, Answer
<1>9. ASSUME NEW r \in Requests, ReadTokens(r) PROVE TokenInv'
  BY <1>9 DEF ReadTokens, Goto
<1>10. ASSUME NEW r \in Requests, Revoke(r) PROVE TokenInv'
  BY <1>10 DEF Revoke, Goto
<1>11. ASSUME NEW r \in Requests, LoadErrors(r) PROVE TokenInv'
  BY <1>11 DEF LoadErrors, Goto
<1>12. ASSUME NEW r \in Requests, Delete(r) PROVE TokenInv'
  BY <1>12 DEF Delete, Goto, StoreDeletes, StatementFails
<1>13. ASSUME NEW r \in Requests, CheckErrors(r) PROVE TokenInv'
  BY <1>13 DEF CheckErrors, Reply, Answer
<1>14. ASSUME NEW r \in Requests, StillFresh(r) PROVE TokenInv'
  BY <1>14 DEF StillFresh, NeedsToken, Goto
<1>15. ASSUME NEW r \in Requests, Refresh(r) PROVE TokenInv'
  BY <1>15 DEF Refresh, NeedsToken, Goto, Session, NoFlight
<1>16. ASSUME NEW r \in Requests, Kill(r) PROVE TokenInv'
  BY <1>16 DEF Kill, Reply, Answer, StoreDeletes, StatementFails
<1>17. ASSUME NEW r \in Requests, Proxy(r) PROVE TokenInv'
  BY <1>17 DEF Proxy, Reply, Answer
<1>18. ASSUME NEW r \in Requests, Elevate(r) PROVE TokenInv'
  BY <1>18 DEF Elevate, Reply, Answer, WriteBack, StoreWrites, StatementFails, Session
<1>19. CASE IssuerAnswers
  <2>1. flight.phase = "sent" /\ (~lost => flight.rt = issued)
    BY <1>19 DEF IssuerAnswers
  <2>2. CASE flight' = [phase |-> "ok", rt |-> issued + 1] /\ issued' = issued + 1
    BY <1>19, <2>1, <2>2 DEF IssuerAnswers
  <2>3. CASE flight' = [flight EXCEPT !.phase = "down"] /\ (lost' \/ UNCHANGED <<issuer, lost>>)
    <3>1. flight'.phase = "down"
      BY <2>3
    <3>2. spent' => lost'
      BY <1>19, <2>1, <2>3 DEF IssuerAnswers
    <3> QED
      BY <1>19, <2>1, <2>3, <3>1, <3>2 DEF IssuerAnswers
  <2>4. CASE flight' = [flight EXCEPT !.phase = "rejected"] /\ UNCHANGED <<issued, lost>>
    <3>1. flight'.phase = "rejected"
      BY <2>4
    <3>2. spent' => lost'
      <4>1. CASE lost
        BY <2>4, <4>1
      <4>2. CASE ~lost
        <5>1. spent' = (IF flight.rt < issued THEN TRUE ELSE spent) \/ UNCHANGED spent
          BY <1>19 DEF IssuerAnswers
        <5>2. ~spent /\ ~(flight.rt < issued)
          BY <2>1, <4>2
        <5> QED
          BY <5>1, <5>2
      <4> QED
        BY <4>1, <4>2
    <3> QED
      BY <1>19, <2>1, <2>4, <3>1, <3>2 DEF IssuerAnswers
  <2> QED
    BY <1>19, <2>2, <2>3, <2>4 DEF IssuerAnswers
<1>20. CASE RefreshDone
  BY <1>20 DEF RefreshDone, StoreWrites, StatementFails, NoFlight
<1>21. CASE RefreshFailed
  BY <1>21 DEF RefreshFailed, NoFlight
<1>22. CASE Lapse
  BY <1>22 DEF Lapse, Quiet
<1>23. CASE PruneTombstone
  BY <1>23 DEF PruneTombstone, Quiet
<1>24. CASE OtherStatementFails
  BY <1>24 DEF OtherStatementFails, StatementFails
<1>25. CASE Restart
  BY <1>25 DEF Restart, NoFlight
<1>26. CASE UNCHANGED vars
  BY <1>26 DEF vars
<1> QED
  BY <1>1, <1>2, <1>3, <1>4, <1>5, <1>6, <1>7, <1>8, <1>9, <1>10, <1>11, <1>12, <1>13, <1>14,
     <1>15, <1>16, <1>17, <1>18, <1>19, <1>20, <1>21, <1>22, <1>23, <1>24, <1>25, <1>26 DEF Next, HandlerStep, FlightStep

\* With the memory store a refresh token is presented a second time only
\* after a rotated one was lost on its way to the session.
THEOREM MemoryStoreKeepsNewestToken ==
  ASSUME ~Durable
  PROVE  Spec => []SpentOnlyAfterLoss
<1>1. Init => TokenInv
  BY DEF Init, TokenInv, NewestToken, SpentOnlyAfterLoss, NoTokens, NoFlight
<1>2. SessionInv /\ TokenInv /\ [Next]_vars => TokenInv'
  BY TokenStep DEF SessionInv
<1>3. TokenInv => SpentOnlyAfterLoss
  BY DEF TokenInv
<1> QED
  BY SessionInvariant, <1>1, <1>2, <1>3, PTL DEF Spec

-----------------------------------------------------------------------------
(* The stored tokens, with either store.                                   *)

\* A copy that is not out of date has the tokens of the row.
LEMMA CopyStep ==
  ASSUME TypeOK, RowInv, CopyInv, [Next]_vars
  PROVE  CopyInv'
<1> USE DEF CopyInv, RowInv, NoResurrection, TombstoneOutlivesHolders, FlightHasWaiter, TombstoneMeansEnded, TypeOK, StoreType, HandlerType, IssuerType, HistoryType, PCs, Holding, Session, store, history, issuer, request, copies
<1>1. ASSUME NEW r \in Requests, NEW k \in Kinds, Begin(r, k) PROVE CopyInv'
  BY <1>1 DEF Begin, Idle
<1>2. CASE Callback
  BY <1>2 DEF Callback, StoreWrites, TokenSet
<1>3. ASSUME NEW r \in Requests, RateLimited(r) PROVE CopyInv'
  BY <1>3 DEF RateLimited, Reply, Answer
<1>4. ASSUME NEW r \in Requests, Get(r) PROVE CopyInv'
  BY <1>4 DEF Get, Goto, StatementFails
<1>5. ASSUME NEW r \in Requests, Touch(r) PROVE CopyInv'
  BY <1>5 DEF Touch, Goto, WriteBack, WroteCopy, Taken, StoreWrites, StatementFails
<1>6. ASSUME NEW r \in Requests, NoSession(r) PROVE CopyInv'
  BY <1>6 DEF NoSession, Reply, Answer
<1>7. ASSUME NEW r \in Requests, RefuseCSRF(r) PROVE CopyInv'
  BY <1>7 DEF RefuseCSRF, Reply, Answer
<1>8. ASSUME NEW r \in Requests, AnswerSession(r) PROVE CopyInv'
  BY <1>8 DEF AnswerSession, Reply, Answer
<1>9. ASSUME NEW r \in Requests, ReadTokens(r) PROVE CopyInv'
  BY <1>9 DEF ReadTokens, Goto
<1>10. ASSUME NEW r \in Requests, Revoke(r) PROVE CopyInv'
  BY <1>10 DEF Revoke, Goto
<1>11. ASSUME NEW r \in Requests, LoadErrors(r) PROVE CopyInv'
  BY <1>11 DEF LoadErrors, Goto
<1>12. ASSUME NEW r \in Requests, Delete(r) PROVE CopyInv'
  BY <1>12 DEF Delete, Goto, StoreDeletes, StatementFails
<1>13. ASSUME NEW r \in Requests, CheckErrors(r) PROVE CopyInv'
  BY <1>13 DEF CheckErrors, Reply, Answer
<1>14. ASSUME NEW r \in Requests, StillFresh(r) PROVE CopyInv'
  BY <1>14 DEF StillFresh, NeedsToken, Goto
<1>15. ASSUME NEW r \in Requests, Refresh(r) PROVE CopyInv'
  BY <1>15 DEF Refresh, NeedsToken, Goto, NoFlight
<1>16. ASSUME NEW r \in Requests, Kill(r) PROVE CopyInv'
  BY <1>16 DEF Kill, Reply, Answer, StoreDeletes, StatementFails
<1>17. ASSUME NEW r \in Requests, Proxy(r) PROVE CopyInv'
  BY <1>17 DEF Proxy, Reply, Answer
<1>18. ASSUME NEW r \in Requests, Elevate(r) PROVE CopyInv'
  <2>1. CASE Reply(r, "challenged") \/ Reply(r, "upstream502")
    BY <1>18, <2>1 DEF Elevate, Reply, Answer
  <2>2. CASE /\ WriteBack([Session(r) EXCEPT !.el = TRUE]) /\ StepUpStored(r) /\ WroteCopy(r)
             /\ Answer(r, "elevated")
    <3>0. /\ UNCHANGED <<flight, issued, ended, lost>> /\ pc[r] = "use"
          /\ pc' = [pc EXCEPT ![r] = "done"] /\ held' = [held EXCEPT ![r] = NoTokens]
      BY <1>18, <2>2 DEF Elevate, Answer
    <3>1. [latest EXCEPT !.el = TRUE] \in TokenSet
      BY DEF TokenSet
    <3>2. CASE ~Taken
      <4>1. latest' = latest /\ stale' = stale \ {r} /\ overwritten' = overwritten
        BY <2>2, <3>2 DEF StepUpStored, WroteCopy
      <4>2. row' = "tomb" \/ UNCHANGED <<row, val>>
        BY <2>2, <3>2 DEF WriteBack, StoreWrites, StatementFails, Taken
      <4>3. row' = "tomb" => ended
        BY <2>2 DEF WriteBack, StoreWrites, StatementFails
      <4> QED
        BY <3>0, <4>1, <4>2, <4>3
    <3>3. CASE Taken
      <4>1. /\ latest' = [latest EXCEPT !.el = TRUE]
            /\ stale' = (stale \cup Others(r)) \ {r}
            /\ overwritten' = (overwritten \/ r \in stale)
        BY <2>2, <3>3 DEF StepUpStored, WroteCopy
      <4>2. val' = [Session(r) EXCEPT !.el = TRUE] /\ (row' # "none" => row # "none")
        BY <2>2, <3>3, <3>0 DEF WriteBack, StoreWrites, StatementFails, Taken
      <4>3. [Session(r) EXCEPT !.el = TRUE] = [latest EXCEPT !.el = TRUE] \/ lost \/ overwritten' \/ ended
        BY <3>0, <4>1
      <4>4. latest'.rt = latest.rt
        BY <4>1 DEF TokenSet
      <4>5. \A q \in Requests : pc'[q] \in Holding /\ q \notin stale' => ~Durable
        BY <3>0, <4>1 DEF Others
      <4>6. stale' \subseteq {q \in Requests : pc'[q] \in Holding}
        BY <3>0, <4>1 DEF Others
      <4>7. ~lost' /\ ~overwritten' /\ ~ended' => val' = latest'
        BY <3>0, <4>1, <4>2, <4>3
      <4>8. ~lost' /\ ~overwritten' /\ ~ended' =>
              \A q \in Requests : pc'[q] \in Holding /\ q \notin stale' => Session(q)' = latest'
        BY <4>5, <4>7
      <4>9. ~lost' /\ ~overwritten' /\ ~ended' => (row' # "none" /\ flight'.phase # "ok" => latest'.rt = issued')
        BY <3>0, <4>1, <4>2, <4>4
      <4> QED
        BY <3>0, <3>1, <4>1, <4>6, <4>7, <4>8, <4>9
    <3> QED
      BY <3>2, <3>3
  <2> QED
    BY <1>18, <2>1, <2>2 DEF Elevate
<1>19. CASE IssuerAnswers
  <2>1. UNCHANGED <<row, val, held, pc, ended, copies>>
    BY <1>19 DEF IssuerAnswers
  <2>2. \/ flight' = [phase |-> "ok", rt |-> issued + 1] /\ issued' = issued + 1 /\ UNCHANGED lost
        \/ flight' = [flight EXCEPT !.phase = "down"] /\ lost'
        \/ flight' = [flight EXCEPT !.phase = "rejected"] /\ UNCHANGED <<issued, lost>>
        \/ flight' = [flight EXCEPT !.phase = "down"] /\ UNCHANGED <<issued, lost>>
    BY <1>19 DEF IssuerAnswers
  <2>3. flight.phase = "sent"
    BY <1>19 DEF IssuerAnswers
  <2>4. flight'.phase = "ok" => flight'.rt = issued'
    BY <2>2
  <2>5. flight'.phase # "ok" /\ ~lost' => UNCHANGED <<issued, lost>>
    BY <2>2
  <2>6. ~lost' => ~lost
    BY <2>2
  <2> QED
    BY <2>1, <2>3, <2>4, <2>5, <2>6
<1>20. CASE RefreshDone
  <2> DEFINE fresh == [rt |-> flight.rt, el |-> FALSE]
  <2>0. fresh \in TokenSet
    BY DEF TokenSet
  <2>1. /\ flight.phase = "ok" /\ flight'.phase = "none" /\ UNCHANGED <<issued, ended>>
        /\ held' = [r \in Requests |-> IF pc[r] = "wait" /\ Durable THEN fresh ELSE held[r]]
        /\ pc' = [r \in Requests |-> IF pc[r] = "wait" THEN "use" ELSE pc[r]]
        /\ stale' = {r \in Requests : Durable /\ pc[r] \in Holding \ {"wait"}}
    BY <1>20 DEF RefreshDone, NoFlight
  <2>2. CASE lost' /\ UNCHANGED <<latest, overwritten>>
    BY <2>1, <2>2
  <2>3. CASE StoreWrites(fresh) /\ latest' = (IF row = "tomb" THEN latest ELSE fresh) /\ overwritten' = FALSE
    <3>1. CASE row = "tomb"
      BY <2>1, <2>3, <3>1
    <3>2. CASE row # "tomb"
      <4>1. latest' = fresh /\ val' = fresh /\ overwritten' = FALSE
        BY <2>3, <3>2 DEF StoreWrites
      <4>2. \A q \in Requests : pc'[q] \in Holding /\ q \notin stale' => Session(q)' = fresh
        BY <2>1, <4>1
      <4>3. stale' \subseteq {q \in Requests : pc'[q] \in Holding}
        BY <2>1
      <4> QED
        BY <2>0, <2>1, <4>1, <4>2, <4>3
    <3> QED
      BY <3>1, <3>2
  <2> HIDE DEF fresh
  <2> QED
    BY <1>20, <2>2, <2>3 DEF RefreshDone, fresh
<1>21. CASE RefreshFailed
  BY <1>21 DEF RefreshFailed, NoFlight
<1>22. CASE Lapse
  BY <1>22 DEF Lapse
<1>23. CASE PruneTombstone
  BY <1>23 DEF PruneTombstone
<1>24. CASE OtherStatementFails
  BY <1>24 DEF OtherStatementFails, StatementFails
<1>25. CASE Restart
  BY <1>25 DEF Restart, NoFlight
<1>26. CASE UNCHANGED vars
  BY <1>26 DEF vars
<1> QED
  BY <1>1, <1>2, <1>3, <1>4, <1>5, <1>6, <1>7, <1>8, <1>9, <1>10, <1>11, <1>12, <1>13, <1>14,
     <1>15, <1>16, <1>17, <1>18, <1>19, <1>20, <1>21, <1>22, <1>23, <1>24, <1>25, <1>26 DEF Next, HandlerStep, FlightStep

\* With either store the row keeps the tokens of the last sign-in, refresh or
\* step-up unless a rotated token was lost or an outdated copy written back.
THEOREM RowKeepsNewestTokens == Spec => []StoredIsLatest
<1>1. Init => CopyInv
  <2> SUFFICES ASSUME Init PROVE CopyInv
    OBVIOUS
  <2>1. stale = {} /\ latest = NoTokens /\ overwritten = FALSE /\ row = "none" /\ flight.phase = "none"
    BY DEF Init, NoFlight
  <2>2. \A r \in Requests : pc[r] \notin Holding
    BY DEF Init, Holding
  <2> QED
    BY <2>1, <2>2, NoTokensType DEF CopyInv
<1>2. SessionInv /\ CopyInv /\ [Next]_vars => CopyInv'
  BY CopyStep DEF SessionInv
<1>3. SessionInv /\ CopyInv => StoredIsLatest
  BY DEF SessionInv, RowInv, NoResurrection, CopyInv, StoredIsLatest
<1> QED
  BY SessionInvariant, <1>1, <1>2, <1>3, PTL DEF Spec

-----------------------------------------------------------------------------
(* Refinement: every step is a step of SessionLife, or changes nothing a   *)
(* caller sees.                                                            *)

\* The abstract state after a step, from the parts of the state it reads.
LEMMA SameLife ==
  ASSUME UNCHANGED <<row, ended>>
  PROVE  lifeBar' = lifeBar
BY DEF lifeBar

LEMMA SameView ==
  ASSUME UNCHANGED <<pc, answer>>
  PROVE  viewBar' = viewBar
BY DEF viewBar

LEMMA MoveView ==
  ASSUME HandlerType, NEW r \in Requests, NEW l, NEW a,
         pc' = [pc EXCEPT ![r] = l], answer' = [answer EXCEPT ![r] = a]
  PROVE  viewBar' = [viewBar EXCEPT ![r] = ViewOf(l, a)]
BY DEF HandlerType, viewBar

LEMMA AnswerView ==
  ASSUME HandlerType, NEW r \in Requests, NEW a, Answer(r, a)
  PROVE  /\ a \in SignedIn => viewBar' = [viewBar EXCEPT ![r] = "served"]
         /\ a \notin SignedIn => viewBar' = [viewBar EXCEPT ![r] = "out"]
<1>1. viewBar' = [viewBar EXCEPT ![r] = ViewOf("done", a)]
  BY MoveView DEF Answer
<1>2. viewBar[r] = ViewOf(pc[r], answer[r])
  BY DEF viewBar
<1>3. viewBar = [viewBar EXCEPT ![r] = viewBar[r]]
  BY DEF viewBar
<1> QED
  BY <1>1, <1>2, <1>3 DEF ViewOf, Holding

LEMMA GotoView ==
  ASSUME HandlerType, NEW r \in Requests, NEW l, Goto(r, l)
  PROVE  /\ pc[r] \in Holding /\ l \in Holding => viewBar' = viewBar
         /\ pc[r] = "get" /\ l \in Holding => viewBar' = [viewBar EXCEPT ![r] = "granted"]
         /\ l = "nosess" => viewBar' = [viewBar EXCEPT ![r] = "out"]
<1>1. viewBar' = [viewBar EXCEPT ![r] = ViewOf(l, answer[r])]
  <2>1. pc' = [pc EXCEPT ![r] = l] /\ answer' = answer
    BY DEF Goto
  <2>2. answer' = [answer EXCEPT ![r] = answer[r]]
    BY <2>1 DEF HandlerType
  <2> QED
    BY <2>1, <2>2, MoveView
<1>2. viewBar[r] = ViewOf(pc[r], answer[r])
  BY DEF viewBar
<1>3. viewBar = [viewBar EXCEPT ![r] = viewBar[r]]
  BY DEF viewBar
<1> QED
  BY <1>1, <1>2, <1>3 DEF ViewOf, Holding

\* One caller leaves.
LEMMA OneLeaves ==
  ASSUME NEW r \in Requests, viewBar' = [viewBar EXCEPT ![r] = "out"], lifeBar' = lifeBar
  PROVE  Life!Next
<1>1. viewBar' = [c \in Requests |-> IF c \in {r} THEN "out" ELSE viewBar[c]]
  BY DEF viewBar
<1>2. {r} \in SUBSET Requests
  OBVIOUS
<1> QED
  BY <1>1, <1>2 DEF Life!Next, Life!Leave

\* What a handler at work means to the abstract state.
LEMMA HolderView ==
  ASSUME SessionInv, NEW r \in Requests, pc[r] \in Holding
  PROVE  /\ row \in {"live", "tomb", "gone"}
         /\ ended <=> row = "tomb"
         /\ viewBar[r] = "granted"
BY DEF SessionInv, RowInv, TombstoneOutlivesHolders, NoResurrection, TombstoneMeansEnded, TypeOK,
       StoreType, HistoryType, viewBar, ViewOf

\* Its writes change nothing a caller sees, or renew a session that lapsed;
LEMMA WriteRenewsLife ==
  ASSUME NEW v, row \in {"live", "tomb", "gone"}, ended <=> row = "tomb",
         WriteBack(v), UNCHANGED ended
  PROVE  lifeBar' = lifeBar \/ (lifeBar = "lapsed" /\ lifeBar' = "live")
<1>1. CASE StoreWrites(v)
  BY <1>1 DEF StoreWrites, lifeBar
<1>2. CASE StatementFails
  BY <1>2, SameLife DEF StatementFails
<1> QED
  BY <1>1, <1>2 DEF WriteBack

\* its Delete ends one that is not ended yet.
LEMMA DeleteEndsLife ==
  ASSUME row \in {"live", "tomb", "gone"}, ended <=> row = "tomb", ended \in BOOLEAN,
         StoreDeletes \/ (StatementFails /\ UNCHANGED ended)
  PROVE  lifeBar' = lifeBar \/ (lifeBar \in {"live", "lapsed"} /\ lifeBar' = "ended")
<1>1. CASE StoreDeletes
  BY <1>1 DEF StoreDeletes, lifeBar
<1>2. CASE StatementFails /\ UNCHANGED ended
  BY <1>2, SameLife DEF StatementFails
<1> QED
  BY <1>1, <1>2

\* The abstract steps of a caller at work: it is served, renews, or ends.
LEMMA HolderWorks ==
  ASSUME NEW r \in Requests, viewBar[r] = "granted",
         viewBar' = viewBar \/ viewBar' = [viewBar EXCEPT ![r] = "served"],
         lifeBar' = lifeBar \/ (lifeBar = "lapsed" /\ lifeBar' = "live")
  PROVE  [Life!Next]_<<lifeBar, viewBar>>
BY DEF Life!Next, Life!Serve, Life!Renew

LEMMA HolderEnds ==
  ASSUME NEW r \in Requests, viewBar[r] = "granted",
         viewBar' = viewBar \/ viewBar' = [viewBar EXCEPT ![r] = "out"],
         lifeBar' = lifeBar \/ (lifeBar \in {"live", "lapsed"} /\ lifeBar' = "ended")
  PROVE  [Life!Next]_<<lifeBar, viewBar>>
<1>1. CASE lifeBar' = lifeBar
  BY <1>1, OneLeaves
<1>2. CASE lifeBar \in {"live", "lapsed"} /\ lifeBar' = "ended"
  BY <1>2 DEF Life!Next, Life!End
<1> QED
  BY <1>1, <1>2

LEMMA RefineStep ==
  ASSUME SessionInv, [Next]_vars
  PROVE  [Life!Next]_<<lifeBar, viewBar>>
<1> DEFINE Abs == [Life!Next]_<<lifeBar, viewBar>>
<1> USE DEF store, history, issuer, request
<1>0. HandlerType /\ HistoryType
  BY DEF SessionInv, TypeOK
<1>1. ASSUME NEW r \in Requests, NEW k \in Kinds, Begin(r, k)
      PROVE  Abs
  <2>1. viewBar' = [viewBar EXCEPT ![r] = ViewOf("get", "none")] /\ lifeBar' = lifeBar
    BY <1>1, <1>0, MoveView, SameLife DEF Begin
  <2>2. lifeBar # "unborn"
    BY <1>1 DEF Begin, lifeBar
  <2> QED
    BY <2>1, <2>2 DEF ViewOf, Holding, Life!Next, Life!Ask
<1>2. CASE Callback
  <2>1. viewBar' = viewBar /\ lifeBar = "unborn"
    BY <1>2, SameView DEF Callback, lifeBar
  <2>2. ~ended
    BY <1>2 DEF Callback, SessionInv, RowInv, NoResurrection
  <2>3. lifeBar' \in {"live", "lapsed"}
    BY <1>2, <2>2 DEF Callback, StoreWrites, lifeBar
  <2> QED
    BY <2>1, <2>3 DEF Life!Next, Life!Create
<1>3. ASSUME NEW r \in Requests, RateLimited(r) PROVE Abs
  <2>1. viewBar' = [viewBar EXCEPT ![r] = "out"] /\ lifeBar' = lifeBar
    BY <1>3, <1>0, AnswerView, SameLife DEF RateLimited, Reply, SignedIn
  <2> QED
    BY <2>1, OneLeaves
<1>4. ASSUME NEW r \in Requests, Get(r) PROVE Abs
  <2>1. lifeBar' = lifeBar
    BY <1>4, SameLife DEF Get, StatementFails
  <2>2. CASE row = "live" /\ Goto(r, "put")
    <3>1. viewBar' = [viewBar EXCEPT ![r] = "granted"]
      BY <1>4, <1>0, <2>2, GotoView DEF Get, Holding
    <3>2. viewBar[r] = "asking" /\ lifeBar = "live"
      BY <1>4, <2>2 DEF Get, viewBar, ViewOf, Holding, lifeBar, SessionInv, RowInv, NoResurrection
    <3> QED
      BY <2>1, <3>1, <3>2 DEF Life!Next, Life!Grant
  <2>3. CASE Goto(r, "nosess")
    BY <1>0, <2>1, <2>3, GotoView, OneLeaves
  <2> QED
    BY <1>4, <2>2, <2>3 DEF Get
<1>5. ASSUME NEW r \in Requests, Touch(r) PROVE Abs
  <2>1. lifeBar' = lifeBar \/ (lifeBar = "lapsed" /\ lifeBar' = "live")
    BY <1>5, HolderView, WriteRenewsLife DEF Touch, Holding
  <2>2. viewBar[r] = "granted" /\ viewBar' = viewBar
    BY <1>5, <1>0, HolderView, GotoView DEF Touch, Holding
  <2> QED
    BY <2>1, <2>2, HolderWorks
<1>6. ASSUME NEW r \in Requests, NoSession(r) PROVE Abs
  <2>1. viewBar' = [viewBar EXCEPT ![r] = "out"] /\ lifeBar' = lifeBar
    BY <1>6, <1>0, AnswerView, SameLife DEF NoSession, Reply, SignedIn
  <2> QED
    BY <2>1, OneLeaves
<1>7. ASSUME NEW r \in Requests, RefuseCSRF(r) PROVE Abs
  <2>1. viewBar' = [viewBar EXCEPT ![r] = "out"] /\ lifeBar' = lifeBar
    BY <1>7, <1>0, AnswerView, SameLife DEF RefuseCSRF, Reply, SignedIn
  <2> QED
    BY <2>1, OneLeaves
<1>8. ASSUME NEW r \in Requests, AnswerSession(r) PROVE Abs
  <2>1. viewBar[r] = "granted" /\ viewBar' = [viewBar EXCEPT ![r] = "served"] /\ lifeBar' = lifeBar
    BY <1>8, <1>0, HolderView, AnswerView, SameLife DEF AnswerSession, Reply, SignedIn, Holding
  <2> QED
    BY <2>1, HolderWorks
<1>9. ASSUME NEW r \in Requests, ReadTokens(r) PROVE Abs
  BY <1>9, <1>0, GotoView, SameLife DEF ReadTokens, Holding
<1>10. ASSUME NEW r \in Requests, Revoke(r) PROVE Abs
  BY <1>10, <1>0, GotoView, SameLife DEF Revoke, Holding
<1>11. ASSUME NEW r \in Requests, LoadErrors(r) PROVE Abs
  BY <1>11, <1>0, GotoView, SameLife DEF LoadErrors, Holding
<1>12. ASSUME NEW r \in Requests, Delete(r) PROVE Abs
  <2>1. viewBar[r] = "granted" /\ viewBar' = viewBar
    BY <1>12, <1>0, HolderView, GotoView DEF Delete, Holding
  <2>2. lifeBar' = lifeBar \/ (lifeBar \in {"live", "lapsed"} /\ lifeBar' = "ended")
    BY <1>12, <1>0, HolderView, DeleteEndsLife DEF Delete, Holding, HistoryType
  <2> QED
    BY <2>1, <2>2, HolderEnds
<1>13. ASSUME NEW r \in Requests, CheckErrors(r) PROVE Abs
  <2>1. viewBar' = [viewBar EXCEPT ![r] = "out"] /\ lifeBar' = lifeBar
    BY <1>13, <1>0, AnswerView, SameLife DEF CheckErrors, Reply, SignedIn
  <2> QED
    BY <2>1, OneLeaves
<1>14. ASSUME NEW r \in Requests, StillFresh(r) PROVE Abs
  BY <1>14, <1>0, GotoView, SameLife DEF StillFresh, NeedsToken, Holding
<1>15. ASSUME NEW r \in Requests, Refresh(r) PROVE Abs
  BY <1>15, <1>0, GotoView, SameLife DEF Refresh, NeedsToken, Holding
<1>16. ASSUME NEW r \in Requests, Kill(r) PROVE Abs
  <2>1. viewBar[r] = "granted" /\ viewBar' = [viewBar EXCEPT ![r] = "out"]
    BY <1>16, <1>0, HolderView, AnswerView DEF Kill, Reply, SignedIn, Holding
  <2>2. lifeBar' = lifeBar \/ (lifeBar \in {"live", "lapsed"} /\ lifeBar' = "ended")
    BY <1>16, <1>0, HolderView, DeleteEndsLife DEF Kill, Holding, HistoryType
  <2> QED
    BY <2>1, <2>2, HolderEnds
<1>17. ASSUME NEW r \in Requests, Proxy(r) PROVE Abs
  <2>1. viewBar[r] = "granted" /\ viewBar' = [viewBar EXCEPT ![r] = "served"] /\ lifeBar' = lifeBar
    BY <1>17, <1>0, HolderView, AnswerView, SameLife DEF Proxy, Reply, SignedIn, Holding
  <2> QED
    BY <2>1, HolderWorks
<1>18. ASSUME NEW r \in Requests, Elevate(r) PROVE Abs
  <2>1. CASE WriteBack([Session(r) EXCEPT !.el = TRUE]) /\ Answer(r, "elevated")
    <3>1. lifeBar' = lifeBar \/ (lifeBar = "lapsed" /\ lifeBar' = "live")
      BY <1>18, <2>1, HolderView, WriteRenewsLife DEF Elevate, Holding
    <3>2. viewBar[r] = "granted" /\ viewBar' = [viewBar EXCEPT ![r] = "served"]
      BY <1>18, <1>0, <2>1, HolderView, AnswerView DEF Elevate, SignedIn, Holding
    <3> QED
      BY <3>1, <3>2, HolderWorks
  <2>2. CASE (\E a \in {"challenged", "upstream502"} : Reply(r, a)) /\ UNCHANGED store
    <3>1. viewBar' = [viewBar EXCEPT ![r] = "out"] /\ lifeBar' = lifeBar
      BY <1>18, <1>0, <2>2, AnswerView, SameLife DEF Elevate, Reply, SignedIn
    <3> QED
      BY <3>1, OneLeaves
  <2> QED
    BY <1>18, <2>1, <2>2 DEF Elevate
<1>19. CASE IssuerAnswers
  BY <1>19, SameView, SameLife DEF IssuerAnswers
<1>20. CASE RefreshDone
  <2>1. viewBar' = viewBar
    BY <1>20, <1>0 DEF RefreshDone, HandlerType, viewBar, ViewOf, Holding
  <2>2. PICK r \in Requests : pc[r] = "wait"
    BY <1>20 DEF RefreshDone, SessionInv, RowInv, FlightHasWaiter
  <2>3. WriteBack([rt |-> flight.rt, el |-> FALSE]) /\ UNCHANGED ended
    BY <1>20 DEF RefreshDone, WriteBack
  <2>4. lifeBar' = lifeBar \/ (lifeBar = "lapsed" /\ lifeBar' = "live")
    BY <2>2, <2>3, HolderView, WriteRenewsLife DEF Holding
  <2> QED
    BY <2>1, <2>2, <2>4, HolderView, HolderWorks DEF Holding
<1>21. CASE RefreshFailed
  <2> DEFINE gone == {r \in Requests : pc[r] = "wait" /\ flight.phase # "rejected"}
  <2>1. viewBar' = [c \in Requests |-> IF c \in gone THEN "out" ELSE viewBar[c]]
    BY <1>21, <1>0 DEF RefreshFailed, HandlerType, viewBar, ViewOf, Holding, SignedIn
  <2>2. lifeBar' = lifeBar
    BY <1>21, SameLife DEF RefreshFailed
  <2>3. gone \in SUBSET Requests
    OBVIOUS
  <2> HIDE DEF gone
  <2> QED
    BY <2>1, <2>2, <2>3 DEF Life!Next, Life!Leave
<1>22. CASE Lapse
  <2>1. viewBar' = viewBar /\ lifeBar = "live" /\ lifeBar' = "lapsed"
    BY <1>22, SameView DEF Lapse, lifeBar, SessionInv, RowInv, NoResurrection
  <2>2. viewBar' = [c \in Requests |-> IF c \in {} THEN "out" ELSE viewBar[c]]
    BY <2>1 DEF viewBar
  <2>3. {} \in SUBSET Requests
    OBVIOUS
  <2> QED
    BY <2>1, <2>2, <2>3 DEF Life!Next, Life!Leave
<1>23. CASE PruneTombstone
  BY <1>23, SameView DEF PruneTombstone, lifeBar, SessionInv, RowInv, TombstoneMeansEnded
<1>24. CASE OtherStatementFails
  BY <1>24, SameView, SameLife DEF OtherStatementFails, StatementFails
<1>25. CASE Restart
  <2>1. viewBar' = [c \in Requests |-> IF c \in Requests THEN "out" ELSE viewBar[c]]
    BY <1>25 DEF Restart, viewBar, ViewOf, Holding
  <2>2. lifeBar' = lifeBar \/ (lifeBar = "live" /\ lifeBar' = "lapsed")
    BY <1>25 DEF Restart, lifeBar, SessionInv, TypeOK, StoreType
  <2>3. Requests \in SUBSET Requests
    OBVIOUS
  <2> QED
    BY <2>1, <2>2, <2>3 DEF Life!Next, Life!Leave
<1>26. CASE UNCHANGED vars
  BY <1>26, SameView, SameLife DEF vars
<1> QED
  BY <1>1, <1>2, <1>3, <1>4, <1>5, <1>6, <1>7, <1>8, <1>9, <1>10, <1>11, <1>12, <1>13, <1>14,
     <1>15, <1>16, <1>17, <1>18, <1>19, <1>20, <1>21, <1>22, <1>23, <1>24, <1>25, <1>26 DEF Next, HandlerStep, FlightStep

\* The backend-for-frontend implements SessionLife, for both stores and any
\* number of concurrent requests.
THEOREM Refinement == Spec => ImplementsSessionLife
<1>1. Init => Life!Init
  BY DEF Init, Life!Init, lifeBar, viewBar, ViewOf, Holding
<1>2. SessionInv /\ [Next]_vars => [Life!Next]_Life!lifeVars
  BY RefineStep DEF Life!lifeVars
<1> QED
  BY SessionInvariant, <1>1, <1>2, PTL DEF Spec, ImplementsSessionLife, Life!Spec
=============================================================================
