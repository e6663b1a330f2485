---------------------------- MODULE RestRequest ----------------------------
(***************************************************************************)
(* The REST client's request loop (client/restv2helper.go: request,        *)
(* sleepBackoff, checkStatus) against a Batfish service that may fail to   *)
(* answer.  Every method is retried, POST, PUT and DELETE too, so that the *)
(* service can execute one call of the client several times.               *)
(***************************************************************************)
EXTENDS Naturals

CONSTANTS
    MaxInitialTriesToConnect,   \* retries of a session that configures none
    MaxRetriesToConnect,        \* options.go: "retries after session setup"
    ConfiguredRetries,          \* SessionConfig.MaxRetries, or Unset
    Unset

ASSUME LimitAssumption ==
    /\ MaxInitialTriesToConnect \in Nat
    /\ MaxRetriesToConnect \in Nat
    /\ ConfiguredRetries \in Nat \cup {Unset}

(* What a request does to the resource that it names: GET, POST, PUT (which *)
(* creates or replaces) and DELETE.                                         *)
Methods == {"get", "create", "put", "remove"}

(* How one HTTP exchange looks to the client: a 2xx status, a status that   *)
(* is not in retryStatuses (404, 409, ...), one that is, or no response.    *)
Replies == {"accepted", "refused", "transient", "transportError"}

VARIABLES
    setUp,      \* the session has been set up (its questions are loaded)
    resource,   \* the service has the resource
    pc,         \* of the goroutine in request
    method,     \* the request's method
    attempt,    \* the loop variable
    reply,      \* outcome of the current exchange
    outcome,    \* what the last call returned to its caller
    tries,      \* calls of httpClient.Do for this request
    executed,   \* how often the service executed this request
    changed,    \* how often that changed the resource
    lost        \* executions whose reply did not reach the client

clientVars == <<setUp, pc, method, attempt, reply, outcome, tries>>
serviceVars == <<resource, executed, changed, lost>>
vars == <<clientVars, serviceVars>>

TypeOK ==
    /\ setUp \in BOOLEAN
    /\ resource \in BOOLEAN
    /\ pc \in {"idle", "sending", "replied", "backoff"}
    /\ method \in Methods
    /\ attempt \in Nat
    /\ reply \in Replies \cup {"none"}
    /\ outcome \in {"none", "ok", "httpError", "netError", "badRequest"}
    /\ tries \in Nat
    /\ executed \in Nat
    /\ changed \in Nat
    /\ lost \in Nat

Init ==
    /\ setUp = FALSE
    /\ resource \in BOOLEAN
    /\ pc = "idle"
    /\ method = "get"
    /\ attempt = 0
    /\ reply = "none"
    /\ outcome = "none"
    /\ tries = 0 /\ executed = 0 /\ changed = 0 /\ lost = 0

MaxRetries ==
    IF ConfiguredRetries = Unset THEN MaxInitialTriesToConnect ELSE ConfiguredRetries

Start(m) ==
    /\ pc = "idle"
    /\ pc' = "sending"
    /\ method' = m
    /\ attempt' = 0
    /\ reply' = "none"
    /\ outcome' = "none"
    /\ tries' = 0 /\ executed' = 0 /\ changed' = 0 /\ lost' = 0
    /\ UNCHANGED <<setUp, resource>>

(* http.NewRequestWithContext cannot make a request of the URL (the host of *)
(* the session or a name in the path is not fit for one): with the same URL *)
(* at every attempt, that is the first one.                                 *)
BadRequest ==
    /\ pc = "sending" /\ attempt = 0
    /\ pc' = "idle"
    /\ outcome' = "badRequest"
    /\ UNCHANGED <<setUp, method, attempt, reply, tries, serviceVars>>

-----------------------------------------------------------------------------
(* The exchange: httpClient.Do, and what the service makes of it.           *)

(* The service creates what is not there and removes what is.               *)
Effective == IF resource THEN method = "remove" ELSE method \in {"create", "put"}

StatusOf ==
    IF Effective \/ (resource /\ method \in {"get", "put"}) THEN "accepted" ELSE "refused"

Execute ==
    /\ resource' = (resource # Effective)
    /\ executed' = executed + 1
    /\ changed' = IF Effective THEN changed + 1 ELSE changed

Exchange(r) ==
    /\ pc = "sending"
    /\ pc' = "replied"
    /\ tries' = tries + 1
    /\ reply' = r
    /\ UNCHANGED <<setUp, method, attempt, outcome>>

Answered ==
    /\ Exchange(StatusOf)
    /\ Execute
    /\ UNCHANGED lost

(* The reply is lost on the way back, or replaced by a gateway's 502/504.   *)
ReplyLost(r) ==
    /\ Exchange(r)
    /\ Execute
    /\ lost' = lost + 1

(* The request never reaches the handler, or the context is cancelled.      *)
NotExecuted(r) ==
    /\ Exchange(r)
    /\ UNCHANGED serviceVars

(* Another client of the service creates or removes the same resource.      *)
OtherClient ==
    /\ resource' = ~resource
    /\ UNCHANGED <<clientVars, executed, changed, lost>>

-----------------------------------------------------------------------------
(* The loop's decision once Do has returned.                                *)

(* if attempt < maxRetries *)
MayRetryOneFewer == attempt + 1 < MaxRetries
MayRetry == attempt < MaxRetries

(* What the loop tries again: transport errors and retryStatuses.           *)
RetryableAnyFailure == {"transportError", "transient", "refused"}
Retryable == {"transportError", "transient"}

Retry ==
    /\ pc = "replied"
    /\ reply \in Retryable /\ MayRetry
    /\ pc' = "backoff"
    /\ UNCHANGED <<setUp, method, attempt, reply, outcome, tries, serviceVars>>

BackoffWithoutTimer ==
    /\ pc = "backoff"
    /\ UNCHANGED vars

(* sleepBackoff ends with its timer or with the context; the loop goes on.  *)
Backoff ==
    /\ pc = "backoff"
    /\ pc' = "sending"
    /\ attempt' = attempt + 1
    /\ UNCHANGED <<setUp, method, reply, outcome, tries, serviceVars>>

CheckStatusRaw == reply

CheckStatusIgnored ==
    IF reply = "transportError" THEN "netError" ELSE "ok"

(* The response, or the error, goes to the caller through checkStatus.      *)
CheckStatus ==
    CASE reply = "accepted" -> "ok"
      [] reply = "transportError" -> "netError"
      [] OTHER -> "httpError"

Return ==
    /\ pc = "replied"
    /\ ~(reply \in Retryable /\ MayRetry)
    /\ pc' = "idle"
    /\ outcome' = CheckStatus
    /\ UNCHANGED <<setUp, method, attempt, reply, tries, serviceVars>>

(* Session setup is over once the questions have been loaded.               *)
SetUpDone ==
    /\ pc = "idle" /\ ~setUp
    /\ outcome = "ok" /\ method = "get"
    /\ setUp' = TRUE
    /\ UNCHANGED <<pc, method, attempt, reply, outcome, tries, serviceVars>>

Do == Answered \/ \E r \in {"transient", "transportError"} : ReplyLost(r) \/ NotExecuted(r)

Next ==
    \/ \E m \in Methods : Start(m)
    \/ BadRequest
    \/ Do
    \/ OtherClient
    \/ Retry
    \/ Backoff
    \/ Return
    \/ SetUpDone

Spec == Init /\ [][Next]_vars

(* Do returns: http.Client.Timeout bounds every exchange (30 s unless it is *)
(* disabled); the backoff timer fires; the goroutine keeps running.         *)
Fairness == WF_vars(Do) /\ WF_vars(Retry) /\ WF_vars(Backoff) /\ WF_vars(Return)

FairSpec == Spec /\ Fairness

-----------------------------------------------------------------------------
(* Properties.                                                              *)

Transient == reply \in {"transportError", "transient"}

(* A call gives up on a transient failure only after it has used every     *)
(* retry it is configured with, whichever mix of lost connections and      *)
(* retryable statuses it met; and it never sends more than that.  A limit  *)
(* of n retries means n + 1 tries (TriesAsDocumented is about that).       *)
GivesUpOnlyWhenExhausted ==
    /\ tries <= MaxRetries + 1
    /\ pc = "idle" /\ outcome # "none" /\ Transient => tries = MaxRetries + 1

(* Retrying cannot duplicate an execution whose reply the client received: *)
(* each execution but the last is one whose reply was lost.                *)
ReexecutedOnlyAfterLoss == executed <= lost + 1

(* The loop ends at the first definitive reply: nothing is sent after it.  *)
NothingAfterDefinitiveReply ==
    [][(reply \in {"accepted", "refused"} /\ pc # "idle")
           => (reply' = reply /\ tries' = tries)]_vars

(* When a call reports an error although it changed the service's state (a *)
(* DELETE that is answered 404 because the first try had already deleted), *)
(* a reply was lost on the way; and a call that reports success was        *)
(* executed by the service.                                                *)
OutcomeMatchesEffect ==
    pc = "idle" =>
        /\ outcome \in {"httpError", "netError"} /\ changed > 0 => lost > 0
        /\ outcome = "ok" => executed > 0
        /\ outcome = "badRequest" => executed = 0

(* Every call returns, whatever the service and the network do.            *)
EveryRequestReturns == pc # "idle" ~> pc = "idle"

(* The loop implements the contract that the rest of the client relies on. *)
Contract == INSTANCE RequestContract WITH
    MaxTries <- MaxRetries + 1,
    busy <- pc # "idle",
    result <- outcome

ImplementsContract == Contract!Spec

(* What the comment on MaxRetriesToConnect says (options.go:29): after     *)
(* session setup a request is retried that many times.                     *)
RetriesAfterSetup ==
    setUp /\ pc = "idle" /\ outcome # "none" /\ Transient
        => tries = MaxRetriesToConnect + 1

(* What the comment on MaxInitialTriesToConnect says (options.go:27), that  *)
(* it is the number of initial tries: until the session is set up, a        *)
(* request is tried at most that many times.                                *)
TriesAsDocumented == ~setUp => tries <= MaxInitialTriesToConnect

(* Of the two comments, one at least is true of all requests: a behaviour   *)
(* without that refutes both.                                               *)
TriesFollowOptions == []TriesAsDocumented \/ []RetriesAfterSetup

(* The inductive strengthening used in RestRequestProofs.                   *)
TriesCountAttempts ==
    /\ pc = "sending" => tries = attempt
    /\ pc \in {"replied", "backoff"} => tries = attempt + 1
    /\ pc # "idle" => attempt <= MaxRetries /\ outcome = "none"
    /\ pc = "backoff" => MayRetry

ReplyFitsState ==
    /\ pc = "sending" => reply \in {"none", "transient", "transportError"}
    /\ pc = "sending" /\ attempt = 0 => reply = "none"
    /\ pc = "replied" => reply # "none"
    /\ pc = "backoff" => Transient
    /\ pc = "idle" /\ outcome \notin {"none", "badRequest"} => outcome = CheckStatus
    /\ outcome = "badRequest" => pc = "idle" /\ reply = "none" /\ executed = 0

ExecutionsCounted ==
    /\ executed <= tries
    /\ executed <= lost + (IF reply \in {"accepted", "refused"} THEN 1 ELSE 0)
    /\ changed <= lost + (IF reply = "accepted" THEN 1 ELSE 0)
    /\ reply = "accepted" => executed > 0

IInv ==
    /\ TypeOK
    /\ TriesCountAttempts
    /\ ReplyFitsState
    /\ ExecutionsCounted
    /\ GivesUpOnlyWhenExhausted
=============================================================================
