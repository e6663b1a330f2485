--------------------------- MODULE ServerProcess ---------------------------
(***************************************************************************)
(* The life cycle of the batfish-mcp process (cmd/batfish-mcp/main.go):    *)
(* the transports, the signal context, the goroutines that serve and shut  *)
(* down HTTP, and the deferred calls that end it.  The protocol sessions,  *)
(* net/http and the signals are external; a tool call is followed from the *)
(* connection that brings it to its answer, through the factory call that  *)
(* it may make with the registry's mutex held.  Each call may be for a     *)
(* session name of its own; what calls of one name do to each other, and   *)
(* sessions that leave the cache unclosed, are SessionRegistry's subject.  *)
(***************************************************************************)
EXTENDS Naturals

CONSTANTS
    Requests,       \* tool calls that may arrive
    MaxSignals      \* bound: signals sent to the process

ASSUME BoundAssumption == MaxSignals \in Nat

VARIABLES
    transport, token,   \* the flags -transport and -auth-token (or not)
    main,               \* where run is
    result,             \* the error that run returns, once it has one
    server,             \* the Server, with its sessions
    exit,               \* how the process ended
    handled,            \* signals cancel the context instead of killing
    cancelled,          \* the context is done
    signals,            \* signals sent so far
    stdio,              \* Server.RunStdio: its client's connection
    http,               \* the http.Server
    shutdown,           \* the goroutine that waits to shut it down
    errCh,              \* the channel of "both": its one value, if sent and not read
    request,            \* the tool calls, of both transports
    cached,             \* the calls whose session is in the registry's cache
    late                \* history: the calls that took the mutex after Close

flags == <<transport, token>>
runVars == <<main, result, server, exit>>
signalVars == <<handled, cancelled, signals>>
httpVars == <<http, shutdown, errCh>>
sessionVars == <<cached, late>>
vars == <<flags, runVars, signalVars, stdio, httpVars, request, sessionVars>>

Results == {"none", "nil", "error"}

TypeOK ==
    /\ transport \in {"stdio", "http", "both", "other"}
    /\ token \in BOOLEAN
    /\ main \in {"new", "dispatch", "serve", "collect", "stop", "close", "return", "exited"}
    /\ result \in Results
    /\ server \in {"none", "failed", "open", "closed"}
    /\ exit \in {"running", "success", "failure", "killed"}
    /\ handled \in BOOLEAN
    /\ cancelled \in BOOLEAN
    /\ signals \in 0..MaxSignals
    /\ stdio \in {"off", "open", "disconnected", "returned", "broken"}
    /\ http \in {"off", "starting", "listening", "closed", "failed"}
    /\ shutdown \in {"off", "waiting", "draining", "done"}
    /\ errCh \in {"empty", "nil", "error", "read"}
    /\ request \in [Requests -> {"none", "accepted", "unauthorized", "active",
                               "factory", "ready", "done", "cut"}]
    /\ cached \subseteq Requests
    /\ late \subseteq Requests

Init ==
    /\ transport \in {"stdio", "http", "both", "other"}
    /\ token \in BOOLEAN
    /\ main = "new" /\ result = "none" /\ server = "none" /\ exit = "running"
    /\ handled = FALSE /\ cancelled = FALSE /\ signals = 0
    /\ stdio = "off" /\ http = "off" /\ shutdown = "off" /\ errCh = "empty"
    /\ request = [r \in Requests |-> "none"]
    /\ cached = {} /\ late = {}

Running == exit = "running"
Goes(from, to) == Running /\ main = from /\ main' = to

(* The process ends: whatever is not answered never will be.                *)
Ends(how) ==
    /\ exit' = how
    /\ request' = [r \in Requests |->
                      IF request[r] \in {"accepted", "active", "factory", "ready"}
                      THEN "cut" ELSE request[r]]

-----------------------------------------------------------------------------
(* mcp.NewServer: with an error run returns at once, nothing deferred.      *)
NewServer ==
    /\ \/ Goes("new", "dispatch") /\ server' = "open" /\ UNCHANGED result
       \/ Goes("new", "return") /\ server' = "failed" /\ result' = "error"
    /\ UNCHANGED <<flags, exit, signalVars, stdio, httpVars, request, sessionVars>>

(* From signal.NotifyContext to the calls of the switch.                    *)
Dispatch ==
    /\ handled' = TRUE
    /\ \/ /\ transport = "other"
          /\ Goes("dispatch", "stop") /\ result' = "error"
          /\ UNCHANGED <<stdio, http, shutdown>>
       \/ /\ transport # "other"
          /\ Goes("dispatch", "serve") /\ UNCHANGED result
          /\ stdio' = IF transport = "http" THEN "off" ELSE "open"
          /\ http' = IF transport = "stdio" THEN "off" ELSE "starting"
          /\ shutdown' = IF transport = "stdio" THEN "off" ELSE "waiting"
    /\ UNCHANGED <<flags, server, exit, cancelled, signals, errCh, request, sessionVars>>

-----------------------------------------------------------------------------
(* The client of stdio disconnects.                                         *)
StdioDisconnects ==
    /\ Running /\ stdio = "open"
    /\ stdio' = "disconnected"
    /\ UNCHANGED <<flags, runVars, signalVars, httpVars, request, sessionVars>>

(* Mutant: RunStdio is given context.Background().                          *)
StdioReturnsAtEOF ==
    /\ main = "serve"
    /\ stdio = "disconnected"
    /\ \/ stdio' = "broken" /\ result' = "error" /\ Goes("serve", "stop")
       \/ /\ stdio' = "returned"
          /\ \/ transport = "stdio" /\ result' = "nil" /\ Goes("serve", "stop")
             \/ transport = "both" /\ UNCHANGED result /\ Goes("serve", "collect")
    /\ UNCHANGED <<flags, server, exit, signalVars, httpVars, request, sessionVars>>

(* RunStdio returns when its client is gone or the context is done; what it *)
(* returns then is the protocol library's choice, except that it is the     *)
(* context that makes it return if nothing else does.                       *)
StdioReturns ==
    /\ main = "serve"
    /\ \/ stdio = "disconnected"
       \/ stdio = "open" /\ cancelled
    /\ \/ stdio' = "broken" /\ result' = "error" /\ Goes("serve", "stop")
       \/ /\ stdio' = "returned"
          /\ \/ transport = "stdio" /\ result' = "nil" /\ Goes("serve", "stop")
             \/ transport = "both" /\ UNCHANGED result /\ Goes("serve", "collect")
    /\ UNCHANGED <<flags, server, exit, signalVars, httpVars, request, sessionVars>>

(* The select of "both": the listener's result if it is there by now.       *)
Collect ==
    /\ Goes("collect", "stop")
    /\ result' = IF errCh = "empty" THEN "nil" ELSE errCh
    /\ errCh' = IF errCh = "empty" THEN "empty" ELSE "read"
    /\ UNCHANGED <<flags, server, exit, signalVars, stdio, http, shutdown, request, sessionVars>>

-----------------------------------------------------------------------------
(* ListenAndServe binds its address, or fails to, or fails to accept later. *)
Listen ==
    /\ Running
    /\ \/ http = "starting" /\ http' \in {"listening", "failed"}
       \/ http = "listening" /\ http' = "failed"
    /\ UNCHANGED <<flags, runVars, signalVars, stdio, shutdown, errCh, request, sessionVars>>

(* Mutants: http.ErrServerClosed is an error too; it is handed on as it is.  *)
ListenResultAlways == "error"
ListenResultRaw == IF http = "failed" THEN "error" ELSE "ErrServerClosed"

ListenResult == IF http = "failed" THEN "error" ELSE "nil"

(* Mutants: serveHTTP returns when the context is done; run's caller exits   *)
(* with os.Exit, without the deferred calls.                                *)
ServeReturnsOnCancel ==
    /\ http \in {"closed", "failed"} \/ cancelled
    /\ transport = "http"
    /\ Goes("serve", "stop")
    /\ result' = ListenResult
    /\ UNCHANGED <<flags, server, exit, signalVars, stdio, httpVars, request, sessionVars>>

ServeReturnsAndExits ==
    /\ http \in {"closed", "failed"}
    /\ transport = "http"
    /\ Goes("serve", "return")
    /\ result' = ListenResult
    /\ UNCHANGED <<flags, server, exit, signalVars, stdio, httpVars, request, sessionVars>>

(* serveHTTP returns: to run itself, or to the goroutine of "both".         *)
ServeReturns ==
    /\ http \in {"closed", "failed"}
    /\ transport = "http"
    /\ Goes("serve", "stop")
    /\ result' = ListenResult
    /\ UNCHANGED <<flags, server, exit, signalVars, stdio, httpVars, request, sessionVars>>

ServeSends ==
    /\ Running /\ transport = "both"
    /\ http \in {"closed", "failed"} /\ errCh = "empty"
    /\ errCh' = ListenResult
    /\ UNCHANGED <<flags, runVars, signalVars, stdio, http, shutdown, request, sessionVars>>

(* Shutdown closes the listeners first, whereupon ListenAndServe returns;   *)
(* one that has not begun to listen never will.                             *)
Shutdown ==
    /\ Running /\ shutdown = "waiting" /\ cancelled
    /\ shutdown' = "draining"
    /\ http' = IF http \in {"starting", "listening"} THEN "closed" ELSE http
    /\ UNCHANGED <<flags, runVars, signalVars, stdio, errCh, request, sessionVars>>

(* All requests are answered, or five seconds have passed.                  *)
Drained ==
    /\ Running /\ shutdown = "draining"
    /\ shutdown' = "done"
    /\ UNCHANGED <<flags, runVars, signalVars, stdio, http, errCh, request, sessionVars>>

-----------------------------------------------------------------------------
(* bearerAuth, and the handler it guards.                                   *)
Authorized(bearer) == token => bearer

(* A call over stdio.                                                       *)
Arrive(r) ==
    /\ Running /\ request[r] = "none" /\ stdio = "open"
    /\ request' = [request EXCEPT ![r] = "active"]
    /\ UNCHANGED <<flags, runVars, signalVars, stdio, httpVars, sessionVars>>

(* A connection is accepted that may bring a call (one that brings more is  *)
(* taken for several).                                                      *)
Accept(r) ==
    /\ Running /\ request[r] = "none" /\ http = "listening"
    /\ request' = [request EXCEPT ![r] = "accepted"]
    /\ UNCHANGED <<flags, runVars, signalVars, stdio, httpVars, sessionVars>>

(* Its request reaches the handler, or it is closed first: by its client,   *)
(* or idle in a shutdown.  Neither the end of ListenAndServe nor Close      *)
(* keeps an accepted connection from bringing a call.                       *)
Deliver(r) ==
    /\ Running /\ request[r] = "accepted"
    /\ \/ \E bearer \in BOOLEAN :
             request' = [request EXCEPT ![r] =
                            IF Authorized(bearer) THEN "active" ELSE "unauthorized"]
       \/ request' = [request EXCEPT ![r] = "cut"]
    /\ UNCHANGED <<flags, runVars, signalVars, stdio, httpVars, sessionVars>>

MutexFree == \A r \in Requests : request[r] # "factory"

(* A tool call that finds no cached session makes one, mutex held.          *)
EnterFactory(r) ==
    /\ Running /\ request[r] = "active" /\ MutexFree
    /\ request' = [request EXCEPT ![r] = "factory"]
    /\ late' = IF server = "closed" THEN late \cup {r} ELSE late
    /\ UNCHANGED <<flags, runVars, signalVars, stdio, httpVars, cached>>

(* The factory fails, or its session is cached.                             *)
LeaveFactory(r) ==
    /\ Running /\ request[r] = "factory"
    /\ request' = [request EXCEPT ![r] = "ready"]
    /\ cached' \in {cached, cached \cup {r}}
    /\ UNCHANGED <<flags, runVars, signalVars, stdio, httpVars, late>>

Respond(r) ==
    /\ Running /\ request[r] \in {"active", "ready"}
    /\ request' = [request EXCEPT ![r] = "done"]
    /\ UNCHANGED <<flags, runVars, signalVars, stdio, httpVars, sessionVars>>

-----------------------------------------------------------------------------
(* SIGINT or SIGTERM, with and without a handler.                           *)
Signal ==
    /\ Running /\ signals < MaxSignals
    /\ signals' = signals + 1
    /\ \/ handled /\ cancelled' = TRUE /\ UNCHANGED <<main, exit, request>>
       \/ ~handled /\ UNCHANGED cancelled /\ main' = "exited" /\ Ends("killed")
    /\ UNCHANGED <<flags, result, server, handled, stdio, httpVars, sessionVars>>

(* The deferred calls, last one first: stop gives the signals back and      *)
(* cancels the context, which also starts the shutdown of a listener.       *)
Stop ==
    /\ Goes("stop", "close")
    /\ handled' = FALSE /\ cancelled' = TRUE
    /\ UNCHANGED <<flags, result, server, exit, signals, stdio, httpVars, request, sessionVars>>

(* Mutant: Close does not take the registry's mutex.                        *)
CloseUnlocked ==
    /\ Goes("close", "return")
    /\ server' = "closed"
    /\ cached' = {}
    /\ UNCHANGED <<flags, result, exit, signalVars, stdio, httpVars, request, late>>

(* Server.Close waits for the registry's mutex, closes what is in the cache *)
(* and empties it.  It does not end the registry: calls still use it.       *)
Close ==
    /\ Goes("close", "return")
    /\ MutexFree
    /\ server' = "closed"
    /\ cached' = {}
    /\ UNCHANGED <<flags, result, exit, signalVars, stdio, httpVars, request, late>>

(* run has returned to main.                                                *)
Exit ==
    /\ Goes("return", "exited")
    /\ Ends(IF result = "error" THEN "failure" ELSE "success")
    /\ UNCHANGED <<flags, result, server, signalVars, stdio, httpVars, sessionVars>>

-----------------------------------------------------------------------------
RunStep ==
    \/ NewServer \/ Dispatch \/ StdioReturns \/ Collect \/ ServeReturns
    \/ Stop \/ Close \/ Exit
ListenerStep == ServeSends \/ Shutdown \/ Drained
RequestStep == \E r \in Requests : EnterFactory(r) \/ LeaveFactory(r) \/ Respond(r)
Environment ==
    \/ StdioDisconnects \/ Listen \/ Signal
    \/ \E r \in Requests : Arrive(r) \/ Accept(r) \/ Deliver(r)

Next == RunStep \/ ListenerStep \/ RequestStep \/ Environment

(* Goroutines that can go on do; a factory call ends (EveryGetReturns of    *)
(* SessionRegistry, which rests on the bound of RestRequest's retries).     *)
Fairness ==
    /\ WF_vars(RunStep)
    /\ WF_vars(ListenerStep)
    /\ \A r \in Requests : WF_vars(LeaveFactory(r))

Spec == Init /\ [][Next]_vars /\ Fairness

-----------------------------------------------------------------------------
(* When run returns, on whichever of its paths, every session that a call   *)
(* made before the Close has been closed, one that was being made at that   *)
(* moment too.  A call that takes the mutex after Close, while run is on    *)
(* its way out, still makes a session, and that one stays open: nobody      *)
(* closes it any more.  So do all sessions if a signal kills the process.   *)
SessionsClosedAtExit ==
    exit \in {"success", "failure"} => cached \subseteq late

(* The status of the process: failure if and only if the server could not   *)
(* be made, the transport does not exist, stdio broke, or a listener failed *)
(* and run learned of it before it returned.                                *)
ListenerFailed ==
    /\ http = "failed"
    /\ \/ transport = "http"
       \/ transport = "both" /\ stdio = "returned" /\ errCh = "read"

ExitStatusHasCause ==
    exit \in {"success", "failure"} =>
        (exit = "failure" <=> \/ server = "failed" \/ transport = "other"
                              \/ stdio = "broken" \/ ListenerFailed)

(* Once run is past its switch, no new connection is accepted, so that only *)
(* those there already can bring late calls; unless HTTP is served beside   *)
(* stdio: there run goes on to the end without waiting for the listener.    *)
NoConnectionAfterServing ==
    [][\A r \in Requests :
          request[r] = "none" /\ request'[r] = "accepted"
              => main = "serve" \/ transport = "both"]_vars

(* A signal, the end of the stdio client, and in http mode a listener that  *)
(* fails or is shut down, each end the process, also when a tool call is in *)
(* the factory at that moment.                                              *)
Told ==
    \/ cancelled
    \/ stdio = "disconnected"
    \/ transport = "http" /\ http = "failed"

StopsWhenTold == Told ~> ~Running
=============================================================================
