------------------------ MODULE ServerProcessProofs ------------------------
(***************************************************************************)
(* What ServerProcess promises for any set of tool calls and any number of *)
(* signals.  The inductive invariant says, at each place of run, what has  *)
(* become of the server, of the two transports and of the result.  A       *)
(* second one, that rests on it, says whose sessions are in the cache once *)
(* Close has emptied it.                                                   *)
(***************************************************************************)
EXTENDS ServerProcess, TLAPS

USE DEF flags, runVars, signalVars, httpVars, sessionVars, vars, Running, Goes, Results

Places == {"new", "dispatch", "serve", "collect", "stop", "close", "return"}

ServerFollowsMain ==
    /\ Running <=> main \in Places
    /\ main = "new" => server = "none"
    /\ main \in {"dispatch", "serve", "collect", "stop", "close"} => server = "open"
    /\ main = "return" => server \in {"failed", "closed"}

TransportsFollowFlags ==
    /\ main \in {"new", "dispatch"} => stdio = "off" /\ http = "off"
    /\ transport \in {"http", "other"} => stdio = "off"
    /\ transport \in {"stdio", "other"} => http = "off"
    /\ server = "failed" => stdio = "off" /\ http = "off"

(* When run is past its switch only the listener of "both" may be open.     *)
TransportsAreOver ==
    main \in {"collect", "stop", "close", "return"} =>
        /\ stdio # "open"
        /\ transport # "both" => http \notin {"starting", "listening"}

ChannelFollowsListener ==
    /\ errCh # "empty" => transport = "both" /\ http \in {"closed", "failed"}
    /\ errCh = "error" => http = "failed"
    /\ errCh = "nil" => http = "closed"
    /\ errCh = "read" => main \in {"stop", "close", "return", "exited"}

Cause ==
    \/ server = "failed" \/ transport = "other"
    \/ stdio = "broken" \/ ListenerFailed

ResultHasCause ==
    /\ main \in {"new", "dispatch", "serve", "collect"} => stdio # "broken"
    /\ main = "collect" => transport = "both" /\ stdio = "returned"
    /\ main \in {"stop", "close", "return"} => (result = "error" <=> Cause)

Inv ==
    /\ TypeOK
    /\ ServerFollowsMain
    /\ TransportsFollowFlags
    /\ TransportsAreOver
    /\ ChannelFollowsListener
    /\ ResultHasCause
    /\ ExitStatusHasCause
-----------------------------------------------------------------------------
THEOREM ServerInvariant == Spec => []Inv
<1>1. Init => Inv
    <2> SUFFICES ASSUME Init PROVE Inv
        OBVIOUS
    <2>1. TypeOK
        <3>1. signals \in 0..MaxSignals
            BY BoundAssumption DEF Init
        <3>2. handled \in BOOLEAN /\ cancelled \in BOOLEAN /\ token \in BOOLEAN
            BY DEF Init
        <3> QED
            BY <3>1, <3>2 DEF Init, TypeOK
    <2>2. /\ ServerFollowsMain /\ TransportsFollowFlags
          /\ TransportsAreOver /\ ChannelFollowsListener /\ ResultHasCause
          /\ ExitStatusHasCause
        BY DEF Init, ServerFollowsMain, Places,
           TransportsFollowFlags, TransportsAreOver, ChannelFollowsListener,
           ResultHasCause, ExitStatusHasCause
    <2> QED
        BY <2>1, <2>2 DEF Inv
<1>2. Inv /\ [Next]_vars => Inv'
    <2> SUFFICES ASSUME Inv, [Next]_vars PROVE Inv'
        OBVIOUS
    <2>0. \/ RunStep \/ ListenerStep \/ RequestStep \/ UNCHANGED vars
          \/ StdioDisconnects \/ Listen \/ Signal
          \/ \E r \in Requests : Arrive(r) \/ Accept(r) \/ Deliver(r)
        BY DEF Next, Environment
    <2> USE BoundAssumption DEF Inv, ServerFollowsMain, Places,
            TransportsFollowFlags, TransportsAreOver, ChannelFollowsListener,
            ResultHasCause, ExitStatusHasCause, Cause, ListenerFailed, TypeOK
    <2>1. CASE NewServer
        BY <2>1 DEF NewServer
    <2>2. CASE Dispatch
        BY <2>2 DEF Dispatch
    <2>3. CASE StdioReturns
        BY <2>3 DEF StdioReturns
    <2>4. CASE Collect
        BY <2>4 DEF Collect
    <2>5. CASE ServeReturns
        BY <2>5 DEF ServeReturns, ListenResult
    <2>6. CASE Stop
        <3>1. TypeOK'
            BY <2>6, ZenonT(60) DEF Stop
        <3>2. /\ ServerFollowsMain' /\ TransportsFollowFlags'
              /\ TransportsAreOver' /\ ChannelFollowsListener'
            BY <2>6 DEF Stop
        <3>3. ResultHasCause' /\ ExitStatusHasCause'
            BY <2>6 DEF Stop
        <3> HIDE DEF TypeOK
        <3> QED
            BY <3>1, <3>2, <3>3
    <2>7. CASE Close
        BY <2>7 DEF Close
    <2>8. CASE Exit
        BY <2>8 DEF Exit, Ends
    <2>9. CASE ServeSends
        BY <2>9 DEF ServeSends, ListenResult
    <2>10. CASE Shutdown
        BY <2>10 DEF Shutdown
    <2>11. CASE Drained
        BY <2>11 DEF Drained
    <2>12. CASE RequestStep
        BY <2>12 DEF RequestStep, EnterFactory, LeaveFactory, Respond
    <2>13. CASE StdioDisconnects
        BY <2>13 DEF StdioDisconnects
    <2>14. CASE Listen
        BY <2>14 DEF Listen
    <2>15. CASE Signal
        <3>1. TypeOK'
            <4>1. signals' \in 0..MaxSignals
                BY <2>15 DEF Signal
            <4>2. handled' \in BOOLEAN /\ cancelled' \in BOOLEAN /\ token' \in BOOLEAN
                BY <2>15 DEF Signal
            <4>3. request' \in [Requests -> {"none", "accepted", "unauthorized", "active",
                                             "factory", "ready", "done", "cut"}]
                BY <2>15 DEF Signal, Ends
            <4> QED
                BY <2>15, <4>1, <4>2, <4>3 DEF Signal, Ends
        <3>2. /\ ServerFollowsMain' /\ TransportsFollowFlags'
              /\ TransportsAreOver' /\ ChannelFollowsListener'
            BY <2>15 DEF Signal, Ends
        <3>3. ResultHasCause' /\ ExitStatusHasCause'
            BY <2>15 DEF Signal, Ends
        <3> HIDE DEF TypeOK
        <3> QED
            BY <3>1, <3>2, <3>3
    <2>16. ASSUME NEW r \in Requests, Arrive(r) \/ Accept(r) \/ Deliver(r)
           PROVE  Inv'
        BY <2>16 DEF Arrive, Accept, Deliver
    <2>17. CASE UNCHANGED vars
        BY <2>17
    <2> HIDE DEF Inv, ServerFollowsMain, Places,
            TransportsFollowFlags, TransportsAreOver, ChannelFollowsListener,
            ResultHasCause, ExitStatusHasCause, Cause, ListenerFailed, TypeOK, vars
    <2> QED
        BY <2>0, <2>1, <2>2, <2>3, <2>4, <2>5, <2>6, <2>7, <2>8, <2>9,
           <2>10, <2>11, <2>12, <2>13, <2>14, <2>15, <2>16, <2>17
        DEF RunStep, ListenerStep
<1> QED
    BY <1>1, <1>2, PTL DEF Spec

-----------------------------------------------------------------------------
(* What the mutex is for: Close waits for the factory call that has it, so  *)
(* that only calls which take it later leave something in the cache.        *)
CallsFollowTransports ==
    /\ stdio = "off" /\ http = "off" =>
          \A r \in Requests : request[r] \notin {"accepted", "active", "factory", "ready"}
    /\ server \in {"none", "failed"} => cached = {}
    /\ server = "closed" =>
          /\ cached \subseteq late
          /\ \A r \in Requests : request[r] = "factory" => r \in late

CallInv == CallsFollowTransports /\ SessionsClosedAtExit

THEOREM CallInvariant == Spec => []CallInv
<1>1. Init => CallInv
    BY DEF Init, CallInv, CallsFollowTransports, SessionsClosedAtExit
<1>2. Inv /\ CallInv /\ [Next]_vars => CallInv'
    <2> SUFFICES ASSUME Inv, CallInv, [Next]_vars PROVE CallInv'
        OBVIOUS
    <2>0. TypeOK /\ ServerFollowsMain /\ TransportsFollowFlags
        BY DEF Inv
    <2> USE DEF CallInv, CallsFollowTransports, SessionsClosedAtExit
    <2>1. ASSUME UNCHANGED <<exit, server, request, sessionVars>>,
                 stdio = "off" \/ stdio' # "off", http = "off" \/ http' # "off"
          PROVE  CallInv'
        BY <2>1
    <2>2. CASE NewServer
        <3>1. stdio = "off" /\ http = "off" /\ cached = {} /\ exit' = "running"
            BY <2>0, <2>2 DEF NewServer, ServerFollowsMain, TransportsFollowFlags
        <3> QED
            BY <2>2, <3>1 DEF NewServer
    <2>3. CASE Dispatch
        <3>1. /\ stdio = "off" /\ http = "off"
              /\ UNCHANGED <<exit, server, request, sessionVars>>
            BY <2>0, <2>3 DEF Dispatch, TransportsFollowFlags
        <3> QED
            BY <2>1, <3>1
    <2>4. CASE StdioReturns \/ Collect \/ ServeReturns \/ Stop
        BY <2>0, <2>1, <2>4 DEF StdioReturns, Collect, ServeReturns, Stop
    <2>5. CASE Close
        BY <2>5 DEF Close, MutexFree
    <2>6. CASE Exit
        <3>1. server \in {"failed", "closed"}
            BY <2>0, <2>6 DEF Exit, ServerFollowsMain
        <3>2. \A r \in Requests : request'[r] \notin {"accepted", "active", "factory", "ready"}
            BY <2>6 DEF Exit, Ends
        <3> QED
            BY <2>6, <3>1, <3>2 DEF Exit, Ends
    <2>7. CASE ListenerStep
        BY <2>1, <2>7 DEF ListenerStep, ServeSends, Shutdown, Drained
    <2>8. CASE StdioDisconnects \/ Listen
        <3>1. /\ UNCHANGED <<exit, server, request, sessionVars>>
              /\ stdio = "off" \/ stdio' # "off"
              /\ http = "off" \/ http' # "off"
            BY <2>8 DEF StdioDisconnects, Listen
        <3> QED
            BY <3>1
    <2>9. CASE Signal
        <3>1. CASE UNCHANGED <<exit, request>>
            BY <2>1, <2>9, <3>1 DEF Signal
        <3>2. CASE Ends("killed")
            <4>1. \A r \in Requests : request'[r] \notin {"accepted", "active", "factory", "ready"}
                BY <3>2 DEF Ends
            <4> QED
                BY <2>9, <3>2, <4>1 DEF Signal, Ends
        <3> QED
            BY <2>9, <3>1, <3>2 DEF Signal
    <2>10. ASSUME NEW q \in Requests, Arrive(q) \/ Accept(q) \/ Deliver(q) \/ Respond(q)
           PROVE  CallInv'
        <3>1. /\ UNCHANGED <<exit, server, stdio, http, sessionVars>>
              /\ ~(stdio = "off" /\ http = "off")
              /\ \A r \in Requests : request'[r] = "factory" => request[r] = "factory"
            <4>1. stdio # "off" \/ http # "off"
                BY <2>10 DEF Arrive, Accept, Deliver, Respond
            <4> QED
                BY <2>0, <2>10, <4>1 DEF Arrive, Accept, Deliver, Respond, TypeOK
        <3> QED
            BY <3>1
    <2>11. ASSUME NEW q \in Requests, EnterFactory(q) PROVE CallInv'
        BY <2>0, <2>11 DEF EnterFactory, TypeOK
    <2>12. ASSUME NEW q \in Requests, LeaveFactory(q) PROVE CallInv'
        <3>1. ~(stdio = "off" /\ http = "off") /\ exit = "running"
            BY <2>12 DEF LeaveFactory
        <3>2. server \notin {"none", "failed"}
            BY <2>0, <3>1 DEF ServerFollowsMain, TransportsFollowFlags, Places, TypeOK
        <3>3. \A r \in Requests : request'[r] = "factory" => request[r] = "factory"
            BY <2>0, <2>12 DEF LeaveFactory, TypeOK
        <3>4. server = "closed" => q \in late
            BY <2>12 DEF LeaveFactory
        <3> QED
            BY <2>12, <3>1, <3>2, <3>3, <3>4 DEF LeaveFactory
    <2>13. CASE UNCHANGED vars
        BY <2>13
    <2> QED
        BY <2>2, <2>3, <2>4, <2>5, <2>6, <2>7, <2>8, <2>9, <2>10, <2>11, <2>12, <2>13
        DEF Next, Environment, RunStep, RequestStep
<1> QED
    BY <1>1, <1>2, ServerInvariant, PTL DEF Spec

(* The variables keep their types, for any tool calls and signals.          *)
THEOREM TypeCorrect == Spec => []TypeOK
BY ServerInvariant, PTL DEF Inv

(* Whatever is still in the cache when run has returned was put there by a  *)
(* call that took the mutex after Close.                                    *)
THEOREM SessionsClosed == Spec => []SessionsClosedAtExit
BY CallInvariant, PTL DEF CallInv

(* The exit status is failure exactly if one of the causes is there.        *)
THEOREM ExitStatus == Spec => []ExitStatusHasCause
BY ServerInvariant, PTL DEF Inv

(* Past the switch of run no connection is accepted, unless HTTP is served  *)
(* beside stdio.                                                            *)
THEOREM NoNewConnections == Spec => NoConnectionAfterServing
<1>1. Inv /\ [Next]_vars =>
        \A r \in Requests :
            request[r] = "none" /\ request'[r] = "accepted"
                => main = "serve" \/ transport = "both"
    <2> SUFFICES ASSUME Inv, [Next]_vars, NEW r \in Requests,
                        request[r] = "none", request'[r] = "accepted",
                        main # "serve", transport # "both"
                 PROVE FALSE
        OBVIOUS
    <2>1. PICK q \in Requests : Accept(q)
        <3> USE DEF Inv, TypeOK
        <3>1. CASE RunStep
            BY <3>1 DEF RunStep, NewServer, Dispatch, StdioReturns, Collect,
               ServeReturns, Stop, Close, Exit, Ends
        <3>2. CASE ListenerStep
            BY <3>2 DEF ListenerStep, ServeSends, Shutdown, Drained
        <3>3. CASE RequestStep
            BY <3>3 DEF RequestStep, EnterFactory, LeaveFactory, Respond
        <3>4. CASE StdioDisconnects \/ Listen \/ Signal
            BY <3>4 DEF StdioDisconnects, Listen, Signal, Ends
        <3>5. ASSUME NEW p \in Requests, Arrive(p) \/ Deliver(p) PROVE FALSE
            BY <3>5 DEF Arrive, Deliver
        <3>6. CASE UNCHANGED vars
            BY <3>6
        <3> QED
            BY <3>1, <3>2, <3>3, <3>4, <3>5, <3>6 DEF Next, Environment
    <2>2. Running /\ http = "listening"
        BY <2>1 DEF Accept
    <2>3. main \in {"collect", "stop", "close", "return"}
        BY <2>2 DEF Inv, ServerFollowsMain, TransportsFollowFlags, Places
    <2> QED
        BY <2>2, <2>3 DEF Inv, TransportsAreOver
<1> QED
    BY <1>1, ServerInvariant, PTL DEF Spec, NoConnectionAfterServing
=============================================================================
