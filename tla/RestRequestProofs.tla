------------------------- MODULE RestRequestProofs -------------------------
(***************************************************************************)
(* Proofs about the request loop for any number of retries: its safety     *)
(* properties, and that it implements RequestContract.                     *)
(***************************************************************************)
EXTENDS RestRequest, TLAPS

USE DEF vars, clientVars, serviceVars

(* The limit of every request is a natural number.                         *)
LEMMA MaxRetriesNat == MaxRetries \in Nat
BY LimitAssumption DEF MaxRetries

(* A step is one of these.                                                 *)
LEMMA NextCases ==
    ASSUME [Next]_vars, NEW P,
           ASSUME NEW m \in Methods, Start(m) PROVE P,
           BadRequest => P,
           Answered => P,
           ASSUME NEW r \in {"transient", "transportError"}, ReplyLost(r) PROVE P,
           ASSUME NEW r \in {"transient", "transportError"}, NotExecuted(r) PROVE P,
           OtherClient => P,
           Retry => P,
           Backoff => P,
           Return => P,
           SetUpDone => P,
           UNCHANGED vars => P
    PROVE  P
BY DEF Next, Do

(***************************************************************************)
(* The induction.  tries follows the loop variable, and what the service   *)
(* has executed is bounded by the replies that were lost, plus one while   *)
(* the last reply is a definitive one.                                     *)
(***************************************************************************)
LEMMA InitIInv == Init => IInv
<1> SUFFICES ASSUME Init PROVE IInv
    OBVIOUS
<1> USE DEF Init
<1>1. TypeOK
    BY DEF TypeOK, Methods, Replies
<1>2. TriesCountAttempts /\ ReplyFitsState
    BY DEF TriesCountAttempts, ReplyFitsState
<1>3. ExecutionsCounted /\ GivesUpOnlyWhenExhausted
    BY MaxRetriesNat DEF ExecutionsCounted, GivesUpOnlyWhenExhausted
<1> QED
    BY <1>1, <1>2, <1>3 DEF IInv

(* IInv is inductive.                                                      *)
LEMMA IInvPreserved == IInv /\ [Next]_vars => IInv'
<1> SUFFICES ASSUME IInv, [Next]_vars PROVE IInv'
    OBVIOUS
<1> USE MaxRetriesNat
        DEF IInv, TypeOK, TriesCountAttempts, ReplyFitsState, ExecutionsCounted,
            GivesUpOnlyWhenExhausted, Transient, Retryable, MayRetry,
            CheckStatus, Methods, Replies
<1>1. ASSUME NEW m \in Methods, Start(m) PROVE IInv'
    BY <1>1 DEF Start
<1>11. ASSUME BadRequest PROVE IInv'
    BY <1>11 DEF BadRequest
<1>2. ASSUME Answered PROVE IInv'
    BY <1>2 DEF Answered, Exchange, Execute, StatusOf, Effective
<1>3. ASSUME NEW r \in {"transient", "transportError"}, ReplyLost(r) PROVE IInv'
    BY <1>3 DEF ReplyLost, Exchange, Execute, Effective
<1>4. ASSUME NEW r \in {"transient", "transportError"}, NotExecuted(r) PROVE IInv'
    BY <1>4 DEF NotExecuted, Exchange
<1>5. ASSUME OtherClient PROVE IInv'
    BY <1>5 DEF OtherClient
<1>6. ASSUME Retry PROVE IInv'
    BY <1>6 DEF Retry
<1>7. ASSUME Backoff PROVE IInv'
    BY <1>7 DEF Backoff
<1>8. ASSUME Return PROVE IInv'
    BY <1>8 DEF Return
<1>9. ASSUME SetUpDone PROVE IInv'
    BY <1>9 DEF SetUpDone
<1>10. ASSUME UNCHANGED vars PROVE IInv'
    BY <1>10
<1> QED
    BY <1>1, <1>2, <1>3, <1>4, <1>5, <1>6, <1>7, <1>8, <1>9, <1>10, <1>11, NextCases

(* The inductive invariant holds in every reachable state.                 *)
THEOREM RequestInvariant == Spec => []IInv
BY InitIInv, IInvPreserved, PTL DEF Spec

(* The loop's variables keep their types: its counters are never negative  *)
(* and a reply is one that an exchange can end with.                       *)
THEOREM TypeCorrect == Spec => []TypeOK
<1>1. IInv => TypeOK
    BY DEF IInv
<1> QED
    BY <1>1, RequestInvariant, PTL

(* A definitive reply ends the loop: between it and the return to the      *)
(* caller nothing is sent and no other reply takes its place.  Only Retry, *)
(* which needs a reply that may be retried, leaves "replied" for another   *)
(* exchange, and only an exchange changes reply and tries.                 *)
THEOREM DefinitiveReplyEndsLoop == Spec => NothingAfterDefinitiveReply
<1>1. ASSUME IInv, [Next]_vars, reply \in {"accepted", "refused"}, pc # "idle"
      PROVE  reply' = reply /\ tries' = tries
  <2>1. pc = "replied"
      BY <1>1 DEF IInv, TypeOK, ReplyFitsState, Transient
  <2>2. CASE Return
      BY <2>2 DEF Return
  <2>3. CASE OtherClient \/ UNCHANGED vars
      BY <2>3 DEF OtherClient
  <2> QED
      BY <1>1, <2>1, <2>2, <2>3
         DEF Next, Start, BadRequest, Do, Answered, ReplyLost, NotExecuted, Exchange, Retry,
             Retryable, Backoff, SetUpDone
<1> QED
    BY <1>1, RequestInvariant, PTL DEF Spec, NothingAfterDefinitiveReply

(* The two invariants about repeated execution follow from IInv.           *)
THEOREM GivesUpLate == Spec => []GivesUpOnlyWhenExhausted
<1>1. IInv => GivesUpOnlyWhenExhausted
    BY DEF IInv
<1> QED
    BY <1>1, RequestInvariant, PTL

(* A request is sent again only while no reply to it has arrived that      *)
(* settles it: it is executed again only after a loss.                     *)
THEOREM NoReexecutionAfterReply == Spec => []ReexecutedOnlyAfterLoss
<1>1. IInv => ReexecutedOnlyAfterLoss
    BY DEF IInv, TypeOK, ExecutionsCounted, ReexecutedOnlyAfterLoss
<1> QED
    BY <1>1, RequestInvariant, PTL

(* The outcome is that of the last reply, so an error after an effect      *)
(* means that the reply to the execution with the effect was lost.         *)
THEOREM ErrorsHideOnlyLostReplies == Spec => []OutcomeMatchesEffect
<1>1. IInv => OutcomeMatchesEffect
  <2> SUFFICES ASSUME IInv, pc = "idle", outcome # "none"
               PROVE  /\ outcome \in {"httpError", "netError"} /\ changed > 0
                             => lost > 0
                      /\ outcome = "ok" => executed > 0
                      /\ outcome = "badRequest" => executed = 0
      BY DEF OutcomeMatchesEffect
  <2>1. CASE outcome = "badRequest"
      BY <2>1 DEF IInv, ReplyFitsState
  <2>2. CASE outcome # "badRequest" /\ reply = "accepted"
      BY <2>2 DEF CheckStatus, IInv, ReplyFitsState, ExecutionsCounted
  <2>3. CASE outcome # "badRequest" /\ reply # "accepted"
    <3>1. outcome = CheckStatus
        BY <2>3 DEF IInv, ReplyFitsState
    <3>2. outcome # "ok"
        BY <2>3, <3>1 DEF CheckStatus
    <3>3. changed <= lost
        BY <2>3 DEF IInv, TypeOK, ExecutionsCounted
    <3> QED
        BY <2>3, <3>2, <3>3 DEF IInv, TypeOK
  <2> QED
      BY <2>1, <2>2, <2>3
<1> QED
    BY <1>1, RequestInvariant, PTL

-----------------------------------------------------------------------------
(***************************************************************************)
(* The request loop implements RequestContract: Start starts a call, an    *)
(* exchange that reaches the service executes it, Return returns, and      *)
(* every other step leaves the contract's variables alone.                 *)
(***************************************************************************)
LEMMA InitRefines == Init => Contract!Init
BY DEF Init, Contract!Init

(* An exchange under way leaves room for one more execution.               *)
LEMMA ExecuteFits == IInv /\ pc = "sending" => executed < MaxRetries + 1
BY MaxRetriesNat DEF IInv, TypeOK, TriesCountAttempts, ExecutionsCounted

(* Every step of the loop is a step of the contract, or none.              *)
LEMMA StepRefines ==
    ASSUME IInv, [Next]_vars
    PROVE  [Contract!Next]_(Contract!contractVars)
<1> USE DEF Contract!Next, Contract!contractVars
<1>1. ASSUME NEW m \in Methods, Start(m)
      PROVE  [Contract!Next]_(Contract!contractVars)
    BY <1>1 DEF Start, Contract!Start
<1>11. ASSUME BadRequest PROVE [Contract!Next]_(Contract!contractVars)
  <2>1. executed = 0
      BY <1>11 DEF BadRequest, IInv, TypeOK, TriesCountAttempts, ExecutionsCounted
  <2>2. Contract!Return("badRequest")
      BY <1>11, <2>1 DEF BadRequest, Contract!Return
  <2> QED
      BY <2>2 DEF Contract!Results
<1>2. ASSUME Answered PROVE [Contract!Next]_(Contract!contractVars)
    BY <1>2, ExecuteFits DEF Answered, Exchange, Execute, Contract!Execute
<1>3. ASSUME NEW r \in {"transient", "transportError"}, ReplyLost(r)
      PROVE  [Contract!Next]_(Contract!contractVars)
    BY <1>3, ExecuteFits DEF ReplyLost, Exchange, Execute, Contract!Execute
<1>4. ASSUME NEW r \in {"transient", "transportError"}, NotExecuted(r)
      PROVE  [Contract!Next]_(Contract!contractVars)
    BY <1>4 DEF NotExecuted, Exchange
<1>5. ASSUME OtherClient PROVE [Contract!Next]_(Contract!contractVars)
    BY <1>5 DEF OtherClient
<1>6. ASSUME Retry PROVE [Contract!Next]_(Contract!contractVars)
    BY <1>6 DEF Retry
<1>7. ASSUME Backoff PROVE [Contract!Next]_(Contract!contractVars)
    BY <1>7 DEF Backoff
<1>8. ASSUME Return PROVE [Contract!Next]_(Contract!contractVars)
  <2>1. CheckStatus \in {"ok", "httpError", "netError"}
      BY DEF CheckStatus
  <2>2. CheckStatus = "ok" => executed > 0
      BY <1>8 DEF Return, CheckStatus, IInv, TypeOK, ReplyFitsState,
                  ExecutionsCounted, Replies
  <2>4. CheckStatus # "badRequest"
      BY DEF CheckStatus
  <2>3. Contract!Return(CheckStatus)
      BY <1>8, <2>2, <2>4 DEF Return, Contract!Return
  <2> QED
      BY <2>1, <2>3 DEF Contract!Results
<1>9. ASSUME SetUpDone PROVE [Contract!Next]_(Contract!contractVars)
    BY <1>9 DEF SetUpDone
<1>10. ASSUME UNCHANGED vars PROVE [Contract!Next]_(Contract!contractVars)
    BY <1>10
<1> QED
    BY <1>1, <1>2, <1>3, <1>4, <1>5, <1>6, <1>7, <1>8, <1>9, <1>10, <1>11, NextCases

(* Every behaviour of the loop is one that the contract allows.            *)
THEOREM RequestImplementsContract == Spec => ImplementsContract
BY InitRefines, StepRefines, RequestInvariant, PTL
   DEF Spec, ImplementsContract, Contract!Spec
=============================================================================
