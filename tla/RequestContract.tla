-------------------------- MODULE RequestContract --------------------------
(***************************************************************************)
(* What one call of the REST client promises to the code above it: Batfish *)
(* executes the request some number of times, at most MaxTries; the call   *)
(* reports success only if Batfish executed it at least once; and once the *)
(* call has returned, the request is not executed any more.  Nothing says  *)
(* that a request is executed once, or that a failed one was not executed, *)
(* unless no request could be made of it in the first place.               *)
(***************************************************************************)
EXTENDS Naturals

CONSTANT MaxTries

Results == {"ok", "httpError", "netError", "badRequest"}

VARIABLES
    busy,       \* a call is in progress
    executed,   \* how often Batfish has executed the current request
    result      \* what the last call returned

contractVars == <<busy, executed, result>>

Init ==
    /\ busy = FALSE
    /\ executed = 0
    /\ result = "none"

Start ==
    /\ ~busy
    /\ busy' = TRUE
    /\ executed' = 0
    /\ result' = "none"

Execute ==
    /\ busy
    /\ executed < MaxTries
    /\ executed' = executed + 1
    /\ UNCHANGED <<busy, result>>

Return(r) ==
    /\ busy
    /\ r = "ok" => executed > 0
    /\ r = "badRequest" => executed = 0
    /\ busy' = FALSE
    /\ result' = r
    /\ UNCHANGED executed

Next == Start \/ Execute \/ \E r \in Results : Return(r)

Spec == Init /\ [][Next]_contractVars
=============================================================================
