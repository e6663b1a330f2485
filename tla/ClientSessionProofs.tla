------------------------ MODULE ClientSessionProofs ------------------------
(***************************************************************************)
(* Proofs that tool calls keep to what they were asked, for any callers,   *)
(* sessions, networks, snapshots and requests.                             *)
(***************************************************************************)
EXTENDS ClientSession, TLAPS

USE DEF sessionVars, callVars, serviceVars, vars

(***************************************************************************)
(* The disjuncts of Next, as the cases that the proofs below split on.     *)
(***************************************************************************)
LEMMA NextCases ==
    ASSUME [Next]_vars, NEW P,
           ASSUME NEW c \in Callers, NEW r \in Requests, Begin(c, r) PROVE P,
           ASSUME NEW c \in Callers, GenerateNetwork(c) PROVE P,
           ASSUME NEW c \in Callers, GetNetwork(c) PROVE P,
           ASSUME NEW c \in Callers, InitNetwork(c) PROVE P,
           ASSUME NEW c \in Callers, DeleteNetwork(c) PROVE P,
           ASSUME NEW c \in Callers, SetSnapshot(c) PROVE P,
           ASSUME NEW c \in Callers, Resolve(c) PROVE P,
           ASSUME NEW c \in Callers, ListSnapshots(c) PROVE P,
           ASSUME NEW c \in Callers, Overwrite(c) PROVE P,
           ASSUME NEW c \in Callers, UploadSnapshot(c) PROVE P,
           ASSUME NEW c \in Callers, ForkSnapshot(c) PROVE P,
           ASSUME NEW c \in Callers, DeleteSnapshot(c) PROVE P,
           ASSUME NEW c \in Callers, UploadQuestion(c) PROVE P,
           ASSUME NEW c \in Callers, QueueWork(c) PROVE P,
           ASSUME NEW c \in Callers, PollWork(c) PROVE P,
           ASSUME NEW c \in Callers, GetAnswer(c) PROVE P,
           ASSUME NEW c \in Callers, Refused(c) PROVE P,
           ASSUME NEW c \in Callers, Fails(c) PROVE P,
           ASSUME NEW k \in 1..MaxCalls, NEW code \in Terminated,
                  WorkEnds(k, code) PROVE P,
           UNCHANGED vars => P
    PROVE  P
BY DEF Next, Step, Service

-----------------------------------------------------------------------------
(***************************************************************************)
(* Types.  A call moves to another call record of the right type.          *)
(***************************************************************************)
USE DEF MaybeNetwork, MaybeSnapshot

LEMMA NoCallType == NoCall \in CallType
<1>1. (CHOOSE r \in Requests : TRUE) \in RequestType
    BY RequestAssumption, NameAssumption
<1>2. MaxCalls \in Nat
    BY NameAssumption
<1> QED
    BY <1>1, <1>2 DEF NoCall, CallType, Steps

LEMMA BegunType ==
    ASSUME NEW step \in Steps, NEW k \in 0..MaxCalls, NEW r \in RequestType,
           NEW t \in MaybeNetwork, NEW n \in MaybeNetwork, NEW a \in MaybeSnapshot
    PROVE  [NoCall EXCEPT !.pc = step, !.id = k, !.req = r, !.target = t,
                          !.wantNet = n, !.wantSnap = a] \in CallType
BY NoCallType DEF CallType

LEMMA AskedNetworkType ==
    ASSUME NEW r \in RequestType, NEW k \in 1..MaxCalls
    PROVE  AskedNetwork(r, k) \in MaybeNetwork
BY NameAssumption DEF AskedNetwork, RequestType

LEMMA MoveType ==
    ASSUME TypeOK, NEW c \in Callers
    PROVE  /\ \A step \in Steps : Goes(c, step) \in CallType
           /\ \A res \in {"ok", "error"} : Returns(c, res) \in CallType
<1>1. call[c] \in CallType
    BY DEF TypeOK
<1>2. ASSUME NEW step \in Steps PROVE Goes(c, step) \in CallType
    BY <1>1 DEF CallType, Goes
<1>3. ASSUME NEW res \in {"ok", "error"} PROVE Returns(c, res) \in CallType
    BY <1>1, ZenonT(60) DEF CallType, Returns, Steps
<1> QED
    BY <1>2, <1>3

LEMMA BecomesType ==
    ASSUME TypeOK, NEW c \in Callers, NEW r \in CallType, Becomes(c, r)
    PROVE  call' \in [Callers -> CallType]
BY DEF TypeOK, Becomes

LEMMA ExecutedType ==
    ASSUME TypeOK, NEW c \in Callers, NEW r \in CallType, Executed(c, r)
    PROVE  call' \in [Callers -> CallType]
BY MoveType, BecomesType DEF Executed

LEMMA StepNames ==
    /\ \A r \in RequestType : AfterNetwork(r) \in Steps /\ FirstStep(r) \in Steps
    /\ \A c \in Callers : Creates(c) \in Steps
BY DEF AfterNetwork, FirstStep, Creates, Steps

LEMMA RequestHasType == ASSUME TypeOK, NEW c \in Callers
                        PROVE  /\ call[c].req \in RequestType
                               /\ Sess(c) \in Sessions
                               /\ call[c].req.snap \in MaybeSnapshot
                               /\ call[c].req.net \in MaybeNetwork
                               /\ call[c].target \in MaybeNetwork
                               /\ call[c].id \in 0..MaxCalls
                               /\ Url(c) \in MaybeNetwork
                               /\ Subject(c) \in MaybeSnapshot
                               /\ Kind(c) \in {"parse", "dataplane", "answer"}
<1>1. call[c] \in CallType
    BY DEF TypeOK
<1>2. call[c].req \in RequestType
    BY <1>1 DEF CallType
<1> QED
    BY <1>1, <1>2 DEF CallType, RequestType, Sess, Url, Subject, Kind, TypeOK

LEMMA OnwardType == ASSUME TypeOK, NEW c \in Callers PROVE Onward(c) \in CallType
BY MoveType, StepNames, RequestHasType DEF Onward

LEMMA InitTyped == Init => TypeOK
<1> SUFFICES ASSUME Init PROVE TypeOK
    OBVIOUS
<1>1. call \in [Callers -> CallType]
    BY NoCallType DEF Init
<1>2. nets \in SUBSET Networks
    BY NameAssumption DEF Init
<1>3. snaps \in [Networks -> [Snapshots -> {"absent", "uploaded", "parsed"}]]
    BY DEF Init
<1>4. work \in [1..MaxCalls -> WorkType]
    BY DEF Init, WorkType, NoWork
<1> QED
    BY <1>1, <1>2, <1>3, <1>4, NameAssumption DEF Init, TypeOK

-----------------------------------------------------------------------------
(***************************************************************************)
(* TypeOK is inductive with one more fact, a part of Dispatched: a call     *)
(* that is inside SetNetwork has a name to select or create.               *)
(***************************************************************************)
LEMMA TypePreserved ==
    TypeOK /\ (\A c \in Callers : Dispatched(call[c])) /\ [Next]_vars => TypeOK'
<1> SUFFICES ASSUME TypeOK, \A c \in Callers : Dispatched(call[c]), [Next]_vars
             PROVE  TypeOK'
    OBVIOUS
<1>1. ASSUME NEW c \in Callers, NEW r \in Requests, Begin(c, r) PROVE TypeOK'
    <2>1. /\ 0..MaxCalls = {i \in Nat : i <= MaxCalls}
          /\ calls + 1 \in 0..MaxCalls /\ calls + 1 \in 1..MaxCalls
        BY <1>1, NameAssumption DEF Begin, TypeOK
    <2>2. r \in RequestType /\ r.sess \in Sessions
          /\ r.net \in MaybeNetwork /\ r.snap \in MaybeSnapshot
        BY RequestAssumption DEF RequestType
    <2>3. network[r.sess] \in MaybeNetwork /\ snapshot[r.sess] \in MaybeSnapshot
        BY <2>2 DEF TypeOK
    <2> DEFINE net == AskedNetwork(r, calls + 1)
               n == IF net # None THEN net ELSE network[r.sess]
               a == IF r.snap # None THEN r.snap ELSE snapshot[r.sess]
    <2>4. Begun(r) \in CallType
        <3>1. FirstStep(r) \in Steps
            BY <2>2, StepNames
        <3>2. net \in MaybeNetwork
            BY <2>1, <2>2, AskedNetworkType
        <3>3. n \in MaybeNetwork /\ a \in MaybeSnapshot
            BY <2>2, <2>3, <3>2
        <3> DEFINE step == FirstStep(r)
                   k == calls + 1
        <3>4. Begun(r) = [NoCall EXCEPT !.pc = step, !.id = k, !.req = r,
                              !.target = net, !.wantNet = n, !.wantSnap = a]
            BY DEF Begun
        <3>5. step \in Steps /\ k \in 0..MaxCalls
            BY <2>1, <3>1
        <3> HIDE DEF net, n, a, step, k
        <3>6. [NoCall EXCEPT !.pc = step, !.id = k, !.req = r, !.target = net,
                             !.wantNet = n, !.wantSnap = a] \in CallType
            BY <2>2, <3>2, <3>3, <3>5, BegunType
        <3> QED
            BY <3>4, <3>6
    <2>5. call' \in [Callers -> CallType]
        BY <1>1, <2>4, BecomesType DEF Begin
    <2>6. overlapped' \in [Callers -> BOOLEAN]
        BY <1>1 DEF Begin, TypeOK
    <2> QED
        BY <1>1, <2>1, <2>5, <2>6 DEF Begin, TypeOK
<1>2. ASSUME NEW c \in Callers, GenerateNetwork(c) PROVE TypeOK'
    <2>1. call' \in [Callers -> CallType]
        <3>1. Goes(c, "getNetwork") \in CallType
            BY MoveType DEF Steps
        <3> DEFINE fresh == Generated[call[c].id]
        <3>2. fresh \in Networks
            BY <1>2, NameAssumption DEF GenerateNetwork, At, Dispatched
        <3>3. [Goes(c, "getNetwork") EXCEPT !.target = fresh,
                                            !.wantNet = fresh] \in CallType
            BY <3>1, <3>2 DEF CallType
        <3> QED
            BY <1>2, <3>3, BecomesType DEF GenerateNetwork
    <2> QED
        BY <1>2, <2>1 DEF GenerateNetwork, TypeOK
<1>3. ASSUME NEW c \in Callers, GetNetwork(c) PROVE TypeOK'
    <2>1. call' \in [Callers -> CallType]
        <3>1. Goes(c, "initNetwork") \in CallType
            BY MoveType DEF Steps
        <3> QED
            BY <1>3, <3>1, OnwardType, BecomesType DEF GetNetwork
    <2> QED
        BY <1>3, <2>1, RequestHasType DEF GetNetwork, Adopt, TypeOK
<1>4. ASSUME NEW c \in Callers, InitNetwork(c) PROVE TypeOK'
    <2>1. call' \in [Callers -> CallType]
        BY <1>4, MoveType, OnwardType, BecomesType DEF InitNetwork
    <2>2. nets' \in SUBSET Networks
        BY <1>4 DEF InitNetwork, At, Dispatched, TypeOK
    <2> QED
        BY <1>4, <2>1, <2>2, RequestHasType DEF InitNetwork, Adopt, TypeOK
<1>5. ASSUME NEW c \in Callers, DeleteNetwork(c) PROVE TypeOK'
    <2>1. call' \in [Callers -> CallType]
        BY <1>5, MoveType, ExecutedType DEF DeleteNetwork
    <2> QED
        BY <1>5, <2>1 DEF DeleteNetwork, EmptySnapshots, TypeOK
<1>6. ASSUME NEW c \in Callers, SetSnapshot(c) PROVE TypeOK'
    <2>1. call' \in [Callers -> CallType]
        <3>1. Goes(c, "resolve") \in CallType
            BY MoveType DEF Steps
        <3> QED
            BY <1>6, <3>1, BecomesType DEF SetSnapshot
    <2> QED
        BY <1>6, <2>1, RequestHasType DEF SetSnapshot, TypeOK
<1>7. ASSUME NEW c \in Callers, Resolve(c) PROVE TypeOK'
    <2>1. call' \in [Callers -> CallType]
        <3> DEFINE q == Goes(c, IF call[c].req.op = "ask"
                                THEN "uploadQuestion" ELSE "queue")
        <3>1. q \in CallType
            BY MoveType DEF Steps
        <3>2. snapshot[Sess(c)] \in MaybeSnapshot
            BY RequestHasType DEF TypeOK
        <3>3. [q EXCEPT !.asked = snapshot[Sess(c)]] \in CallType
            BY <3>1, <3>2 DEF CallType
        <3> QED
            BY <1>7, <3>3, BecomesType DEF Resolve
    <2> QED
        BY <1>7, <2>1 DEF Resolve, TypeOK
<1>8. ASSUME NEW c \in Callers, ListSnapshots(c) PROVE TypeOK'
    <2>1. call' \in [Callers -> CallType]
        <3>1. Goes(c, "overwrite") \in CallType /\ Goes(c, Creates(c)) \in CallType
            BY MoveType, StepNames DEF Steps
        <3>2. AfterList(c) \in CallType
            BY <3>1, MoveType DEF AfterList
        <3> QED
            BY <1>8, <3>2, BecomesType DEF ListSnapshots
    <2> QED
        BY <1>8, <2>1 DEF ListSnapshots, TypeOK
<1>9. ASSUME NEW c \in Callers, Overwrite(c) PROVE TypeOK'
    <2>1. call' \in [Callers -> CallType]
        BY <1>9, MoveType, StepNames, ExecutedType DEF Overwrite
    <2> QED
        BY <1>9, <2>1 DEF Overwrite, TypeOK
<1>10. ASSUME NEW c \in Callers, UploadSnapshot(c) PROVE TypeOK'
    <2>1. call' \in [Callers -> CallType]
        <3>1. Goes(c, "queue") \in CallType
            BY MoveType DEF Steps
        <3> QED
            BY <1>10, <3>1, ExecutedType DEF UploadSnapshot
    <2> QED
        BY <1>10, <2>1 DEF UploadSnapshot, TypeOK
<1>11. ASSUME NEW c \in Callers, ForkSnapshot(c) PROVE TypeOK'
    <2>1. call' \in [Callers -> CallType]
        <3>1. Goes(c, "queue") \in CallType
            BY MoveType DEF Steps
        <3> QED
            BY <1>11, <3>1, ExecutedType DEF ForkSnapshot
    <2> QED
        BY <1>11, <2>1 DEF ForkSnapshot, TypeOK
<1>12. ASSUME NEW c \in Callers, DeleteSnapshot(c) PROVE TypeOK'
    <2>1. call' \in [Callers -> CallType]
        BY <1>12, MoveType, ExecutedType DEF DeleteSnapshot
    <2> QED
        BY <1>12, <2>1 DEF DeleteSnapshot, TypeOK
<1>13. ASSUME NEW c \in Callers, UploadQuestion(c) PROVE TypeOK'
    <2>1. call' \in [Callers -> CallType]
        <3>1. Goes(c, "queue") \in CallType
            BY MoveType DEF Steps
        <3>2. [Goes(c, "queue") EXCEPT !.asksIn = Url(c)] \in CallType
            BY <3>1, RequestHasType DEF CallType
        <3> QED
            BY <1>13, <3>2, ExecutedType DEF UploadQuestion
    <2> QED
        BY <1>13, <2>1 DEF UploadQuestion, TypeOK
<1>14. ASSUME NEW c \in Callers, QueueWork(c) PROVE TypeOK'
    <2>1. call' \in [Callers -> CallType]
        <3>1. Goes(c, "poll") \in CallType
            BY MoveType DEF Steps
        <3> QED
            BY <1>14, <3>1, MoveType, BecomesType DEF QueueWork
    <2> QED
        <3>1. [kind |-> Kind(c), net |-> Url(c), snap |-> Subject(c),
               status |-> "running"] \in WorkType
            BY RequestHasType DEF WorkType
        <3>2. work' \in [1..MaxCalls -> WorkType]
            BY <1>14, <3>1 DEF QueueWork, TypeOK
        <3>3. snapshot' \in [Sessions -> MaybeSnapshot]
            BY <1>14, RequestHasType DEF QueueWork, TypeOK
        <3> QED
            BY <1>14, <2>1, <3>2, <3>3 DEF QueueWork, TypeOK
<1>15. ASSUME NEW c \in Callers, PollWork(c) PROVE TypeOK'
    <2>1. call' \in [Callers -> CallType]
        <3>1. Goes(c, "getAnswer") \in CallType
            BY MoveType DEF Steps
        <3>2. \A code : AfterWork(c, code) \in CallType
            BY <3>1, MoveType DEF AfterWork
        <3> QED
            BY <1>15, <3>2, BecomesType DEF PollWork
    <2> QED
        <3>1. NoWork \in WorkType
            BY DEF NoWork, WorkType
        <3>2. work' \in [1..MaxCalls -> WorkType]
            BY <1>15, <3>1 DEF PollWork, TypeOK
        <3>3. snapshot' \in [Sessions -> MaybeSnapshot]
            BY <1>15, RequestHasType DEF PollWork, Activate, TypeOK
        <3> QED
            BY <1>15, <2>1, <3>2, <3>3 DEF PollWork, TypeOK
<1>16. ASSUME NEW c \in Callers, GetAnswer(c) PROVE TypeOK'
    <2>1. call' \in [Callers -> CallType]
        <3>1. call[c].asked \in MaybeSnapshot
            BY DEF TypeOK, CallType
        <3>2. [Returns(c, "ok") EXCEPT !.answerNet = Url(c),
                                       !.answerSnap = call[c].asked] \in CallType
            <4>1. Returns(c, "ok") \in CallType
                BY MoveType
            <4> QED
                BY <3>1, <4>1, RequestHasType DEF CallType
        <3> QED
            BY <1>16, <3>2, BecomesType DEF GetAnswer
    <2> QED
        BY <1>16, <2>1 DEF GetAnswer, TypeOK
<1>17. ASSUME NEW c \in Callers, Refused(c) PROVE TypeOK'
    <2>1. call' \in [Callers -> CallType]
        BY <1>17, MoveType, BecomesType DEF Refused
    <2> QED
        BY <1>17, <2>1 DEF Refused, TypeOK
<1>18. ASSUME NEW c \in Callers, Fails(c) PROVE TypeOK'
    <2>1. call' \in [Callers -> CallType]
        BY <1>18, MoveType, BecomesType DEF Fails
    <2> QED
        BY <1>18, <2>1 DEF Fails, TypeOK
<1>19. ASSUME NEW k \in 1..MaxCalls, NEW code \in Terminated, WorkEnds(k, code)
      PROVE TypeOK'
    <2>1. [work[k] EXCEPT !.status = code] \in WorkType /\ NoWork \in WorkType
        BY DEF TypeOK, WorkType, NoWork
    <2>2. work' \in [1..MaxCalls -> WorkType]
        BY <1>19, <2>1 DEF WorkEnds, TypeOK
    <2>3. snaps' \in [Networks -> [Snapshots -> {"absent", "uploaded", "parsed"}]]
        BY <1>19 DEF WorkEnds, TypeOK
    <2> QED
        BY <1>19, <2>2, <2>3 DEF WorkEnds, TypeOK
<1>20. ASSUME UNCHANGED vars PROVE TypeOK'
    BY <1>20 DEF TypeOK
<1> QED
    BY <1>1, <1>2, <1>3, <1>4, <1>5, <1>6, <1>7, <1>8, <1>9, <1>10,
       <1>11, <1>12, <1>13, <1>14, <1>15, <1>16, <1>17, <1>18, <1>19, <1>20, NextCases

-----------------------------------------------------------------------------
(***************************************************************************)
(* Steps change the record of one call and keep the others.                *)
(***************************************************************************)
LEMMA BecomesAt ==
    ASSUME TypeOK, NEW c \in Callers, NEW q, Becomes(c, q)
    PROVE  call'[c] = q /\ \A d \in Callers \ {c} : call'[d] = call[d]
BY DEF TypeOK, Becomes

LEMMA GoesFields ==
    ASSUME TypeOK, NEW c \in Callers, NEW step
    PROVE  LET q == Goes(c, step)
           IN  /\ q.pc = step
               /\ q.id = call[c].id /\ q.req = call[c].req
               /\ q.target = call[c].target /\ q.asksIn = call[c].asksIn
               /\ q.wantNet = call[c].wantNet /\ q.wantSnap = call[c].wantSnap
               /\ q.asked = call[c].asked /\ q.result = call[c].result
               /\ q.answerNet = call[c].answerNet
               /\ q.answerSnap = call[c].answerSnap
<1>1. call[c] \in CallType
    BY DEF TypeOK
<1> QED
    BY <1>1 DEF Goes, CallType

LEMMA ReturnsFields ==
    ASSUME TypeOK, NEW c \in Callers, NEW res
    PROVE  LET q == Returns(c, res)
           IN  /\ q.pc = "idle" /\ q.result = res
               /\ q.req = call[c].req
               /\ q.wantNet = call[c].wantNet /\ q.wantSnap = call[c].wantSnap
               /\ q.answerNet = call[c].answerNet
               /\ q.answerSnap = call[c].answerSnap
<1>1. call[c] \in CallType
    BY DEF TypeOK
<1> QED
    BY <1>1 DEF Returns, CallType

LEMMA ReturnsDispatched ==
    ASSUME TypeOK, NEW c \in Callers, NEW res
    PROVE  Dispatched(Returns(c, res))
BY ReturnsFields DEF Dispatched

(* Where a handler goes once its network is set.                           *)
LEMMA AfterNetworkCases ==
    ASSUME NEW r
    PROVE  \/ AfterNetwork(r) = "list" /\ r.op \in CreateOps \cup {"list_snapshots"}
           \/ AfterNetwork(r) = "remove" /\ r.op = "delete_snapshot"
           \/ AfterNetwork(r) = "setSnapshot" /\ r.op \in AnswerOps /\ r.snap # None
           \/ AfterNetwork(r) = "resolve" /\ r.op \in AnswerOps /\ r.snap = None
           \/ AfterNetwork(r) = "idle" /\ r.op \notin AnswerOps
BY DEF AfterNetwork, AnswerOps, CreateOps

LEMMA OnwardDispatched ==
    ASSUME TypeOK, NEW c \in Callers, Dispatched(call[c]), Active(c)
    PROVE  Dispatched(Onward(c))
<1> DEFINE next == AfterNetwork(call[c].req)
<1>1. CASE next = "idle"
    BY <1>1, ReturnsDispatched DEF Onward
<1>2. CASE next # "idle"
    <2>1. Onward(c) = Goes(c, next)
        BY <1>2 DEF Onward
    <2> HIDE DEF next
    <2>2. Dispatched(Goes(c, next))
        BY <1>2, GoesFields, AfterNetworkCases DEF next, Dispatched, Active
    <2> QED
        BY <2>1, <2>2
<1> QED
    BY <1>1, <1>2

(* The record that a call begins with, and its first step.                 *)
LEMMA BegunFields ==
    ASSUME NEW r
    PROVE  LET q == Begun(r)
               net == AskedNetwork(r, calls + 1)
           IN  /\ q.pc = FirstStep(r) /\ q.id = calls + 1 /\ q.req = r
               /\ q.target = net
               /\ q.wantNet = (IF net # None THEN net ELSE network[r.sess])
               /\ q.wantSnap = (IF r.snap # None THEN r.snap ELSE snapshot[r.sess])
               /\ q.answerNet = None
BY DEF Begun, NoCall

LEMMA FirstStepCases ==
    ASSUME NEW r, NEW k \in 1..MaxCalls
    PROVE  \/ FirstStep(r) = "removeNetwork" /\ r.op = "delete_network"
           \/ FirstStep(r) = "getNetwork" /\ AskedNetwork(r, k) # None
           \/ FirstStep(r) = AfterNetwork(r) /\ AskedNetwork(r, k) = None
BY NameAssumption DEF FirstStep, AskedNetwork

LEMMA DispatchedPreserved ==
    ASSUME TypeOK, \A c \in Callers : Dispatched(call[c]), [Next]_vars,
           NEW d \in Callers
    PROVE  Dispatched(call'[d])
<1>1. ASSUME NEW c \in Callers, NEW q, Becomes(c, q), Dispatched(q)
      PROVE  Dispatched(call'[d])
    <2>1. CASE d = c
        BY <1>1, <2>1, BecomesAt
    <2>2. CASE d # c
        BY <1>1, <2>2, BecomesAt
    <2> QED
        BY <2>1, <2>2
<1>2. ASSUME NEW c \in Callers, NEW q, Executed(c, q), Dispatched(q)
      PROVE  Dispatched(call'[d])
    BY <1>1, <1>2, ReturnsDispatched DEF Executed
<1>3. ASSUME NEW c \in Callers, NEW step, Active(c), Dispatched(call[c]),
             step \in {"poll", "queue", "getAnswer", "uploadQuestion", "resolve",
                       "overwrite", "upload", "fork"},
             step = "poll" => call[c].req.op \in AnswerOps \cup CreateOps,
             step = "queue" => call[c].req.op \in AnswerOps \cup CreateOps,
             step \in {"getAnswer", "uploadQuestion"} => call[c].req.op = "ask",
             step = "resolve" => call[c].req.op \in AnswerOps,
             step = "overwrite" => call[c].req.op \in CreateOps /\ call[c].req.over,
             step \in {"upload", "fork"} => call[c].req.op \in CreateOps
      PROVE  Dispatched(Goes(c, step))
    BY <1>3, GoesFields DEF Dispatched, Active
<1>4. ASSUME NEW c \in Callers, NEW r \in Requests, Begin(c, r)
      PROVE  Dispatched(call'[d])
    <2> DEFINE net == AskedNetwork(r, calls + 1)
    <2>1. /\ r.bg => r.op = "init_snapshot"
          /\ r \in RequestType /\ calls + 1 \in 1..MaxCalls
        BY <1>4, RequestAssumption, NameAssumption DEF Begin, TypeOK
    <2>2. net \in MaybeNetwork
        BY <2>1, AskedNetworkType
    <2>3. Becomes(c, Begun(r))
        BY <1>4 DEF Begin
    <2> HIDE DEF net
    <2>4. \/ FirstStep(r) = "removeNetwork" /\ r.op = "delete_network"
          \/ FirstStep(r) = "getNetwork" /\ net # None
          \/ FirstStep(r) = AfterNetwork(r)
        BY <2>1, FirstStepCases DEF net
    <2>5. Dispatched(Begun(r))
        <3>1. CASE FirstStep(r) = "removeNetwork" /\ r.op = "delete_network"
            BY <3>1, <2>1, <2>2, BegunFields DEF Dispatched
        <3>2. CASE FirstStep(r) = "getNetwork" /\ net # None
            BY <3>2, <2>1, <2>2, BegunFields DEF Dispatched, net
        <3>3. CASE FirstStep(r) = AfterNetwork(r)
            BY <3>3, <2>1, <2>2, BegunFields, AfterNetworkCases DEF Dispatched
        <3> QED
            BY <2>4, <3>1, <3>2, <3>3
    <2> QED
        BY <1>1, <2>3, <2>5
<1>5. ASSUME NEW c \in Callers, GenerateNetwork(c) PROVE Dispatched(call'[d])
    <2> DEFINE fresh == Generated[call[c].id]
               q == [Goes(c, "getNetwork") EXCEPT !.target = fresh,
                                                  !.wantNet = fresh]
    <2>1. Goes(c, "getNetwork") \in CallType
        BY MoveType DEF Steps
    <2>2. /\ q.pc = "getNetwork" /\ q.target = fresh /\ q.wantNet = fresh
          /\ q.id = call[c].id
          /\ q.req = call[c].req /\ q.wantSnap = call[c].wantSnap
          /\ q.answerNet = call[c].answerNet
        BY <2>1, GoesFields DEF CallType
    <2>3. Becomes(c, q)
        BY <1>5 DEF GenerateNetwork
    <2>4. call[c].pc = "list" /\ fresh \in Networks
        BY <1>5, NameAssumption DEF GenerateNetwork, At, Dispatched
    <2> HIDE DEF q, fresh
    <2>5. Dispatched(q)
        BY <2>2, <2>4 DEF Dispatched
    <2> QED
        BY <1>1, <2>3, <2>5
<1>6. ASSUME NEW c \in Callers, GetNetwork(c) PROVE Dispatched(call'[d])
    <2>1. Active(c) /\ call[c].pc = "getNetwork"
        BY <1>6 DEF GetNetwork, At, Active
    <2>2. Dispatched(Goes(c, "initNetwork"))
        BY <2>1, GoesFields DEF Dispatched
    <2> QED
        BY <1>6, <1>1, <2>1, <2>2, OnwardDispatched DEF GetNetwork
<1>7. ASSUME NEW c \in Callers, InitNetwork(c) PROVE Dispatched(call'[d])
    <2>1. Active(c)
        BY <1>7 DEF InitNetwork, At, Active
    <2> QED
        BY <1>7, <1>1, <2>1, OnwardDispatched, ReturnsDispatched DEF InitNetwork
<1>8. ASSUME NEW c \in Callers, DeleteNetwork(c) PROVE Dispatched(call'[d])
    BY <1>8, <1>2, ReturnsDispatched DEF DeleteNetwork
<1>9. ASSUME NEW c \in Callers, SetSnapshot(c) PROVE Dispatched(call'[d])
    <2>1. Active(c) /\ call[c].req.op \in AnswerOps
        BY <1>9 DEF SetSnapshot, At, Active, Dispatched
    <2>2. Dispatched(Goes(c, "resolve"))
        BY <1>3, <2>1
    <2> QED
        BY <1>9, <1>1, <2>2 DEF SetSnapshot
<1>10. ASSUME NEW c \in Callers, Resolve(c) PROVE Dispatched(call'[d])
    <2> DEFINE step == IF call[c].req.op = "ask" THEN "uploadQuestion" ELSE "queue"
    <2> DEFINE q == [Goes(c, step) EXCEPT !.asked = snapshot[Sess(c)]]
    <2>1. Active(c) /\ call[c].req.op \in AnswerOps
        BY <1>10 DEF Resolve, At, Active, Dispatched
    <2>2. Dispatched(Goes(c, step))
        BY <1>3, <2>1 DEF AnswerOps
    <2>3. Goes(c, step) \in CallType
        BY MoveType DEF Steps
    <2>4. /\ q.pc = Goes(c, step).pc /\ q.req = Goes(c, step).req
          /\ q.id = Goes(c, step).id
          /\ q.target = Goes(c, step).target /\ q.wantNet = Goes(c, step).wantNet
          /\ q.wantSnap = Goes(c, step).wantSnap
          /\ q.answerNet = Goes(c, step).answerNet
        BY <2>3 DEF CallType
    <2>5. Becomes(c, q)
        BY <1>10 DEF Resolve
    <2> HIDE DEF q, step
    <2>6. Dispatched(q)
        BY <2>2, <2>4 DEF Dispatched
    <2> QED
        BY <1>1, <2>5, <2>6
<1>11. ASSUME NEW c \in Callers, ListSnapshots(c) PROVE Dispatched(call'[d])
    <2>1. Active(c) /\ call[c].req.op \in CreateOps \cup {"list_snapshots"}
        BY <1>11 DEF ListSnapshots, At, Active, Dispatched
    <2>2. call[c].req.op # "list_snapshots" => Dispatched(Goes(c, Creates(c)))
        BY <1>3, <2>1 DEF Creates
    <2>3. call[c].req.op # "list_snapshots" /\ call[c].req.over
              => Dispatched(Goes(c, "overwrite"))
        BY <1>3, <2>1
    <2>4. Dispatched(AfterList(c))
        BY <2>2, <2>3, ReturnsDispatched DEF AfterList
    <2> QED
        BY <1>11, <1>1, <2>4 DEF ListSnapshots
<1>12. ASSUME NEW c \in Callers, Overwrite(c) PROVE Dispatched(call'[d])
    <2>1. Active(c) /\ call[c].req.op \in CreateOps
        BY <1>12 DEF Overwrite, At, Active, Dispatched
    <2>2. Dispatched(Goes(c, Creates(c)))
        BY <1>3, <2>1 DEF Creates
    <2> QED
        BY <1>12, <1>2, <2>2 DEF Overwrite
<1>13. ASSUME NEW c \in Callers, UploadSnapshot(c) PROVE Dispatched(call'[d])
    <2>1. Active(c) /\ call[c].req.op \in CreateOps
        BY <1>13 DEF UploadSnapshot, At, Active, Dispatched
    <2>2. Dispatched(Goes(c, "queue"))
        BY <1>3, <2>1
    <2> QED
        BY <1>13, <1>2, <2>2 DEF UploadSnapshot
<1>14. ASSUME NEW c \in Callers, ForkSnapshot(c) PROVE Dispatched(call'[d])
    <2>1. Active(c) /\ call[c].req.op \in CreateOps
        BY <1>14 DEF ForkSnapshot, At, Active, Dispatched
    <2>2. Dispatched(Goes(c, "queue"))
        BY <1>3, <2>1
    <2> QED
        BY <1>14, <1>2, <2>2 DEF ForkSnapshot
<1>15. ASSUME NEW c \in Callers, DeleteSnapshot(c) PROVE Dispatched(call'[d])
    BY <1>15, <1>2, ReturnsDispatched DEF DeleteSnapshot
<1>16. ASSUME NEW c \in Callers, UploadQuestion(c) PROVE Dispatched(call'[d])
    <2> DEFINE q == [Goes(c, "queue") EXCEPT !.asksIn = Url(c)]
    <2>1. Active(c) /\ call[c].req.op \in AnswerOps
        BY <1>16 DEF UploadQuestion, At, Active, Dispatched, AnswerOps
    <2>2. Dispatched(Goes(c, "queue"))
        BY <1>3, <2>1
    <2>3. Goes(c, "queue") \in CallType
        BY MoveType DEF Steps
    <2>4. /\ q.pc = Goes(c, "queue").pc /\ q.req = Goes(c, "queue").req
          /\ q.id = Goes(c, "queue").id
          /\ q.target = Goes(c, "queue").target
          /\ q.wantNet = Goes(c, "queue").wantNet
          /\ q.wantSnap = Goes(c, "queue").wantSnap
          /\ q.answerNet = Goes(c, "queue").answerNet
        BY <2>3 DEF CallType
    <2>5. Executed(c, q)
        BY <1>16 DEF UploadQuestion
    <2> HIDE DEF q
    <2>6. Dispatched(q)
        BY <2>2, <2>4 DEF Dispatched
    <2> QED
        BY <1>2, <2>5, <2>6
<1>17. ASSUME NEW c \in Callers, QueueWork(c) PROVE Dispatched(call'[d])
    <2>1. Active(c) /\ call[c].req.op \in AnswerOps \cup CreateOps
        BY <1>17 DEF QueueWork, At, Active, Dispatched
    <2>2. Dispatched(Goes(c, "poll"))
        BY <1>3, <2>1
    <2> QED
        BY <1>17, <1>1, <2>2, ReturnsDispatched DEF QueueWork
<1>18. ASSUME NEW c \in Callers, PollWork(c) PROVE Dispatched(call'[d])
    <2>1. Active(c)
        BY <1>18 DEF PollWork, At, Active
    <2>2. Kind(c) = "answer" => Dispatched(Goes(c, "getAnswer"))
        BY <1>3, <2>1 DEF Kind
    <2>3. \A code : Dispatched(AfterWork(c, code))
        BY <2>2, ReturnsDispatched DEF AfterWork
    <2> QED
        BY <1>18, <1>1, <2>3 DEF PollWork
<1>19. ASSUME NEW c \in Callers, GetAnswer(c) PROVE Dispatched(call'[d])
    <2> DEFINE q == [Returns(c, "ok") EXCEPT !.answerNet = Url(c),
                                             !.answerSnap = call[c].asked]
    <2>1. Returns(c, "ok") \in CallType
        BY MoveType
    <2>2. q.pc = "idle"
        BY <2>1, ReturnsFields DEF CallType
    <2>3. Becomes(c, q)
        BY <1>19 DEF GetAnswer
    <2> HIDE DEF q
    <2>4. Dispatched(q)
        BY <2>2 DEF Dispatched
    <2> QED
        BY <1>1, <2>3, <2>4
<1>20. ASSUME NEW c \in Callers, Refused(c) PROVE Dispatched(call'[d])
    BY <1>20, <1>1, ReturnsDispatched DEF Refused
<1>21. ASSUME NEW c \in Callers, Fails(c) PROVE Dispatched(call'[d])
    BY <1>21, <1>1, ReturnsDispatched DEF Fails
<1>22. ASSUME NEW k \in 1..MaxCalls, NEW code \in Terminated, WorkEnds(k, code)
      PROVE Dispatched(call'[d])
    BY <1>22 DEF WorkEnds
<1>23. ASSUME UNCHANGED vars PROVE Dispatched(call'[d])
    BY <1>23
<1> QED
    BY <1>4, <1>5, <1>6, <1>7, <1>8, <1>9, <1>10, <1>11, <1>12, <1>13,
       <1>14, <1>15, <1>16, <1>17, <1>18, <1>19, <1>20, <1>21, <1>22, <1>23, NextCases

-----------------------------------------------------------------------------
(***************************************************************************)
(* Only calls in flight move, each in its own session: the frame of a step.*)
(***************************************************************************)
Moves(c) ==
    /\ Active(c)
    /\ call'[c].req = call[c].req
    /\ \A d \in Callers \ {c} : call'[d] = call[d]
    /\ overlapped' = overlapped
    /\ \A s \in Sessions \ {Sess(c)} :
          network'[s] = network[s] /\ snapshot'[s] = snapshot[s]

LEMMA OnwardFields ==
    ASSUME TypeOK, NEW c \in Callers
    PROVE  LET q == Onward(c)
           IN  /\ q.pc = AfterNetwork(call[c].req) /\ q.req = call[c].req
               /\ q.wantNet = call[c].wantNet /\ q.wantSnap = call[c].wantSnap
               /\ q.answerNet = call[c].answerNet
               /\ q.answerSnap = call[c].answerSnap
BY GoesFields, ReturnsFields DEF Onward

LEMMA ExecutedAt ==
    ASSUME TypeOK, NEW c \in Callers, NEW q, Executed(c, q)
    PROVE  /\ call'[c] = q \/ call'[c] = Returns(c, "error")
           /\ \A d \in Callers \ {c} : call'[d] = call[d]
BY BecomesAt DEF Executed

LEMMA GeneratedFields ==
    ASSUME TypeOK, NEW c \in Callers, GenerateNetwork(c)
    PROVE  LET q == call'[c]
           IN  /\ q.pc = "getNetwork" /\ q.req = call[c].req
               /\ q.wantSnap = call[c].wantSnap
               /\ q.answerNet = call[c].answerNet
               /\ q.answerSnap = call[c].answerSnap
<1> DEFINE fresh == Generated[call[c].id]
           q == [Goes(c, "getNetwork") EXCEPT !.target = fresh,
                                              !.wantNet = fresh]
<1>1. Goes(c, "getNetwork") \in CallType
    BY MoveType DEF Steps
<1>2. /\ q.pc = "getNetwork" /\ q.req = call[c].req
      /\ q.wantSnap = call[c].wantSnap
      /\ q.answerNet = call[c].answerNet /\ q.answerSnap = call[c].answerSnap
    BY <1>1, GoesFields DEF CallType
<1>3. Becomes(c, q)
    BY DEF GenerateNetwork
<1> HIDE DEF q
<1> QED
    BY <1>2, <1>3, BecomesAt

LEMMA AnsweredFields ==
    ASSUME TypeOK, NEW c \in Callers, GetAnswer(c)
    PROVE  LET q == call'[c]
           IN  /\ q.pc = "idle" /\ q.req = call[c].req
               /\ q.wantNet = call[c].wantNet /\ q.wantSnap = call[c].wantSnap
               /\ q.answerNet = Url(c) /\ q.answerSnap = call[c].asked
<1> DEFINE q == [Returns(c, "ok") EXCEPT !.answerNet = Url(c),
                                         !.answerSnap = call[c].asked]
<1>1. Returns(c, "ok") \in CallType
    BY MoveType
<1>2. /\ q.pc = "idle" /\ q.req = call[c].req
      /\ q.wantNet = call[c].wantNet /\ q.wantSnap = call[c].wantSnap
      /\ q.answerNet = Url(c) /\ q.answerSnap = call[c].asked
    BY <1>1, ReturnsFields DEF CallType
<1>3. Becomes(c, q)
    BY DEF GetAnswer
<1> HIDE DEF q
<1> QED
    BY <1>2, <1>3, BecomesAt

LEMMA BecomesOthers ==
    ASSUME TypeOK, NEW c \in Callers, NEW q, Becomes(c, q)
    PROVE  \A d \in Callers \ {c} : call'[d] = call[d]
BY BecomesAt

LEMMA GenerateNetworkMoves ==
    ASSUME TypeOK, NEW c \in Callers, GenerateNetwork(c) PROVE Moves(c)
<1>1. \A d \in Callers \ {c} : call'[d] = call[d]
    BY BecomesOthers DEF GenerateNetwork
<1> QED
    BY <1>1, GeneratedFields DEF GenerateNetwork, Moves, At, Active

LEMMA GetNetworkMoves ==
    ASSUME TypeOK, NEW c \in Callers, GetNetwork(c) PROVE Moves(c)
BY BecomesAt, GoesFields, OnwardFields
   DEF GetNetwork, Adopt, Moves, At, Active, TypeOK

LEMMA InitNetworkMoves ==
    ASSUME TypeOK, NEW c \in Callers, InitNetwork(c) PROVE Moves(c)
BY BecomesAt, ReturnsFields, OnwardFields
   DEF InitNetwork, Adopt, Moves, At, Active, TypeOK

LEMMA DeleteNetworkMoves ==
    ASSUME TypeOK, NEW c \in Callers, DeleteNetwork(c) PROVE Moves(c)
BY ExecutedAt, GoesFields, ReturnsFields DEF DeleteNetwork, Moves, At, Active

LEMMA SetSnapshotMoves ==
    ASSUME TypeOK, NEW c \in Callers, SetSnapshot(c) PROVE Moves(c)
BY BecomesAt, GoesFields DEF SetSnapshot, Moves, At, Active, TypeOK

LEMMA ResolveMoves ==
    ASSUME TypeOK, NEW c \in Callers, Resolve(c) PROVE Moves(c)
<1>1. \A step \in Steps : Goes(c, step) \in CallType
    BY MoveType
<1> QED
    BY <1>1, BecomesAt, GoesFields
       DEF Resolve, Moves, At, Active, CallType, Steps

LEMMA ListSnapshotsMoves ==
    ASSUME TypeOK, NEW c \in Callers, ListSnapshots(c) PROVE Moves(c)
BY BecomesAt, GoesFields, ReturnsFields
   DEF ListSnapshots, AfterList, Moves, At, Active

LEMMA OverwriteMoves ==
    ASSUME TypeOK, NEW c \in Callers, Overwrite(c) PROVE Moves(c)
BY ExecutedAt, GoesFields, ReturnsFields DEF Overwrite, Moves, At, Active

LEMMA UploadSnapshotMoves ==
    ASSUME TypeOK, NEW c \in Callers, UploadSnapshot(c) PROVE Moves(c)
BY ExecutedAt, GoesFields, ReturnsFields DEF UploadSnapshot, Moves, At, Active

LEMMA ForkSnapshotMoves ==
    ASSUME TypeOK, NEW c \in Callers, ForkSnapshot(c) PROVE Moves(c)
BY ExecutedAt, GoesFields, ReturnsFields DEF ForkSnapshot, Moves, At, Active

LEMMA DeleteSnapshotMoves ==
    ASSUME TypeOK, NEW c \in Callers, DeleteSnapshot(c) PROVE Moves(c)
BY ExecutedAt, GoesFields, ReturnsFields DEF DeleteSnapshot, Moves, At, Active

LEMMA UploadQuestionMoves ==
    ASSUME TypeOK, NEW c \in Callers, UploadQuestion(c) PROVE Moves(c)
<1>1. Goes(c, "queue") \in CallType
    BY MoveType DEF Steps
<1> QED
    BY <1>1, ExecutedAt, GoesFields, ReturnsFields
       DEF UploadQuestion, Moves, At, Active, CallType

LEMMA QueueWorkMoves ==
    ASSUME TypeOK, NEW c \in Callers, QueueWork(c) PROVE Moves(c)
BY BecomesAt, GoesFields, ReturnsFields
   DEF QueueWork, Moves, At, Active, TypeOK

LEMMA PollWorkMoves ==
    ASSUME TypeOK, NEW c \in Callers, PollWork(c) PROVE Moves(c)
BY BecomesAt, GoesFields, ReturnsFields
   DEF PollWork, AfterWork, Activate, Moves, At, Active, TypeOK

LEMMA GetAnswerMoves ==
    ASSUME TypeOK, NEW c \in Callers, GetAnswer(c) PROVE Moves(c)
<1>1. \A d \in Callers \ {c} : call'[d] = call[d]
    BY BecomesOthers DEF GetAnswer
<1> QED
    BY <1>1, AnsweredFields DEF GetAnswer, Moves, At, Active

LEMMA RefusedMoves ==
    ASSUME TypeOK, NEW c \in Callers, Refused(c) PROVE Moves(c)
BY BecomesAt, ReturnsFields DEF Refused, Moves

LEMMA FailsMoves ==
    ASSUME TypeOK, NEW c \in Callers, Fails(c) PROVE Moves(c)
BY BecomesAt, ReturnsFields DEF Fails, Moves

LEMMA Frame ==
    ASSUME TypeOK, [Next]_vars
    PROVE  \/ \E c \in Callers, r \in Requests : Begin(c, r)
           \/ \E c \in Callers : Moves(c)
           \/ UNCHANGED <<sessionVars, callVars>>
<1>1. ASSUME NEW c \in Callers, GenerateNetwork(c) PROVE \E d \in Callers : Moves(d)
    BY <1>1, GenerateNetworkMoves
<1>2. ASSUME NEW c \in Callers, GetNetwork(c) PROVE \E d \in Callers : Moves(d)
    BY <1>2, GetNetworkMoves
<1>3. ASSUME NEW c \in Callers, InitNetwork(c) PROVE \E d \in Callers : Moves(d)
    BY <1>3, InitNetworkMoves
<1>4. ASSUME NEW c \in Callers, DeleteNetwork(c) PROVE \E d \in Callers : Moves(d)
    BY <1>4, DeleteNetworkMoves
<1>5. ASSUME NEW c \in Callers, SetSnapshot(c) PROVE \E d \in Callers : Moves(d)
    BY <1>5, SetSnapshotMoves
<1>6. ASSUME NEW c \in Callers, Resolve(c) PROVE \E d \in Callers : Moves(d)
    BY <1>6, ResolveMoves
<1>7. ASSUME NEW c \in Callers, ListSnapshots(c) PROVE \E d \in Callers : Moves(d)
    BY <1>7, ListSnapshotsMoves
<1>8. ASSUME NEW c \in Callers, Overwrite(c) PROVE \E d \in Callers : Moves(d)
    BY <1>8, OverwriteMoves
<1>9. ASSUME NEW c \in Callers, UploadSnapshot(c) PROVE \E d \in Callers : Moves(d)
    BY <1>9, UploadSnapshotMoves
<1>10. ASSUME NEW c \in Callers, ForkSnapshot(c) PROVE \E d \in Callers : Moves(d)
    BY <1>10, ForkSnapshotMoves
<1>11. ASSUME NEW c \in Callers, DeleteSnapshot(c) PROVE \E d \in Callers : Moves(d)
    BY <1>11, DeleteSnapshotMoves
<1>12. ASSUME NEW c \in Callers, UploadQuestion(c) PROVE \E d \in Callers : Moves(d)
    BY <1>12, UploadQuestionMoves
<1>13. ASSUME NEW c \in Callers, QueueWork(c) PROVE \E d \in Callers : Moves(d)
    BY <1>13, QueueWorkMoves
<1>14. ASSUME NEW c \in Callers, PollWork(c) PROVE \E d \in Callers : Moves(d)
    BY <1>14, PollWorkMoves
<1>15. ASSUME NEW c \in Callers, GetAnswer(c) PROVE \E d \in Callers : Moves(d)
    BY <1>15, GetAnswerMoves
<1>16. ASSUME NEW c \in Callers, Refused(c) PROVE \E d \in Callers : Moves(d)
    BY <1>16, RefusedMoves
<1>17. ASSUME NEW c \in Callers, Fails(c) PROVE \E d \in Callers : Moves(d)
    BY <1>17, FailsMoves
<1>18. ASSUME NEW k \in 1..MaxCalls, NEW code \in Terminated, WorkEnds(k, code)
      PROVE UNCHANGED <<sessionVars, callVars>>
    BY <1>18 DEF WorkEnds
<1> QED
    BY <1>1, <1>2, <1>3, <1>4, <1>5, <1>6, <1>7, <1>8, <1>9, <1>10,
       <1>11, <1>12, <1>13, <1>14, <1>15, <1>16, <1>17, <1>18, NextCases

LEMMA OverlapPreserved ==
    TypeOK /\ OverlapRecorded /\ [Next]_vars => OverlapRecorded'
<1> SUFFICES ASSUME TypeOK, OverlapRecorded, [Next]_vars PROVE OverlapRecorded'
    OBVIOUS
<1>1. ASSUME NEW c \in Callers, NEW r \in Requests, Begin(c, r)
      PROVE OverlapRecorded'
    <2>1. call'[c].req = r /\ \A d \in Callers \ {c} : call'[d] = call[d]
        BY <1>1, BegunFields, BecomesAt DEF Begin
    <2>2. overlapped'[c] = (Rivals(c, r.sess) # {})
        BY <1>1 DEF Begin
    <2>3. \A d \in Callers \ {c} :
              overlapped'[d] = (overlapped[d] \/ d \in Rivals(c, r.sess))
        BY <1>1 DEF Begin
    <2> SUFFICES ASSUME NEW d \in Callers, NEW e \in Callers, d # e,
                        Active(d)', Active(e)', Sess(d)' = Sess(e)'
                 PROVE  overlapped'[d]
        BY DEF OverlapRecorded
    <2>4. CASE d = c
        BY <2>1, <2>2, <2>4 DEF Rivals, Active, Sess
    <2>5. CASE e = c
        BY <2>1, <2>3, <2>5 DEF Rivals, Active, Sess
    <2>6. CASE d # c /\ e # c
        BY <2>1, <2>3, <2>6 DEF OverlapRecorded, Active, Sess
    <2> QED
        BY <2>4, <2>5, <2>6
<1>2. ASSUME NEW c \in Callers, Moves(c) PROVE OverlapRecorded'
    BY <1>2 DEF Moves, OverlapRecorded, Active, Sess
<1>3. ASSUME UNCHANGED <<sessionVars, callVars>> PROVE OverlapRecorded'
    BY <1>3 DEF OverlapRecorded, Active, Sess
<1> QED
    BY <1>1, <1>2, <1>3, Frame

-----------------------------------------------------------------------------
(***************************************************************************)
(* A call that has its session to itself keeps finding there what it was   *)
(* asked about: no step of another call touches the session, and its own   *)
(* steps set the fields before they read them.                             *)
(***************************************************************************)
LEMMA OthersUndisturbed ==
    ASSUME TypeOK, OverlapRecorded, NEW c \in Callers, NEW d \in Callers \ {c},
           Moves(c), ~overlapped[d], Undisturbed(d)
    PROVE  Undisturbed(d)'
<1>1. call'[d] = call[d] /\ Sess(d) \in Sessions
    BY RequestHasType DEF Moves
<1>2. Active(d) => Sess(d) # Sess(c)
    BY DEF OverlapRecorded, Moves
<1>3. Active(d) => network'[Sess(d)] = network[Sess(d)]
                   /\ snapshot'[Sess(d)] = snapshot[Sess(d)]
    BY <1>1, <1>2 DEF Moves
<1> QED
    BY <1>1, <1>3 DEF Undisturbed, Sess, Active

LEMMA OwnUndisturbed ==
    ASSUME TypeOK, NEW c \in Callers, Dispatched(call[c]), Undisturbed(c),
           \/ GenerateNetwork(c) \/ GetNetwork(c) \/ InitNetwork(c)
           \/ DeleteNetwork(c) \/ SetSnapshot(c) \/ Resolve(c)
           \/ ListSnapshots(c) \/ Overwrite(c) \/ UploadSnapshot(c)
           \/ ForkSnapshot(c) \/ DeleteSnapshot(c) \/ UploadQuestion(c)
           \/ QueueWork(c) \/ PollWork(c) \/ GetAnswer(c)
           \/ Refused(c) \/ Fails(c)
    PROVE  Undisturbed(c)'
<1>1. /\ network[Sess(c)] \in MaybeNetwork /\ Sess(c) \in Sessions
      /\ call[c].answerNet = None \/ ~Active(c)
    BY RequestHasType DEF Dispatched, Active, TypeOK
<1>2. ASSUME call'[c].pc = "idle", call'[c].answerNet = call[c].answerNet,
             call'[c].answerSnap = call[c].answerSnap,
             call'[c].wantNet = call[c].wantNet,
             call'[c].wantSnap = call[c].wantSnap
      PROVE  Undisturbed(c)'
    BY <1>2 DEF Undisturbed
<1>3. ASSUME NEW res, call'[c] = Returns(c, res) PROVE Undisturbed(c)'
    BY <1>2, <1>3, ReturnsFields
<1>4. ASSUME Adopt(c), Becomes(c, Onward(c)), UNCHANGED snapshot,
             call[c].pc \in {"getNetwork", "initNetwork"}
      PROVE  Undisturbed(c)'
    <2>1. network'[Sess(c)] = call[c].wantNet
        BY <1>1, <1>4 DEF Adopt, Dispatched, TypeOK
    <2>2. /\ call'[c].pc = AfterNetwork(call[c].req) /\ call'[c].req = call[c].req
          /\ call'[c].wantNet = call[c].wantNet
          /\ call'[c].wantSnap = call[c].wantSnap
          /\ call'[c].answerNet = call[c].answerNet
          /\ call'[c].answerSnap = call[c].answerSnap
        BY <1>4, BecomesAt, OnwardFields
    <2> QED
        BY <1>1, <1>4, <2>1, <2>2, AfterNetworkCases DEF Undisturbed, Sess
<1>5. CASE GenerateNetwork(c)
    BY <1>5, GeneratedFields DEF GenerateNetwork, Dispatched, At, Undisturbed,
       AnswerOps
<1>6. CASE GetNetwork(c)
    <2>1. CASE call[c].target \in nets
        BY <1>4, <1>6, <2>1 DEF GetNetwork, At
    <2>2. CASE call[c].target \notin nets
        BY <1>6, <2>2, BecomesAt, GoesFields DEF GetNetwork, At, Undisturbed, Sess
    <2> QED
        BY <2>1, <2>2
<1>7. CASE InitNetwork(c)
    BY <1>3, <1>4, <1>7, BecomesAt DEF InitNetwork, At
<1>8. CASE DeleteNetwork(c) \/ DeleteSnapshot(c)
    BY <1>3, <1>8, ExecutedAt DEF DeleteNetwork, DeleteSnapshot
<1>9. CASE SetSnapshot(c)
    <2>1. snapshot'[Sess(c)] = call[c].wantSnap
        BY <1>1, <1>9 DEF SetSnapshot, At, Dispatched, TypeOK
    <2> QED
        BY <1>9, <2>1, BecomesAt, GoesFields
        DEF SetSnapshot, At, Undisturbed, Sess
<1>10. CASE Resolve(c)
    <2> DEFINE step == IF call[c].req.op = "ask" THEN "uploadQuestion" ELSE "queue"
    <2> DEFINE q == [Goes(c, step) EXCEPT !.asked = snapshot[Sess(c)]]
    <2>1. Goes(c, step) \in CallType
        BY MoveType DEF Steps
    <2>2. /\ q.pc = step /\ q.req = call[c].req
          /\ q.wantNet = call[c].wantNet /\ q.wantSnap = call[c].wantSnap
          /\ q.answerNet = call[c].answerNet /\ q.answerSnap = call[c].answerSnap
          /\ q.asked = snapshot[Sess(c)]
        BY <2>1, GoesFields DEF CallType
    <2>3. Becomes(c, q) /\ call[c].pc = "resolve" /\ UNCHANGED sessionVars
        BY <1>10 DEF Resolve, At
    <2> HIDE DEF q
    <2>4. call'[c] = q
        BY <2>3, BecomesAt
    <2> QED
        BY <2>2, <2>3, <2>4 DEF Undisturbed, Sess
<1>11. CASE ListSnapshots(c)
    <2>1. call'[c] = AfterList(c) /\ call[c].pc = "list" /\ UNCHANGED sessionVars
        BY <1>11, BecomesAt DEF ListSnapshots, At
    <2>2. CASE \E res : call'[c] = Returns(c, res)
        BY <1>3, <2>2
    <2>3. CASE \E step \in {"overwrite", "upload", "fork"} : call'[c] = Goes(c, step)
        BY <2>1, <2>3, GoesFields DEF Undisturbed, Sess
    <2> QED
        BY <2>1, <2>2, <2>3 DEF AfterList, Creates
<1>12. CASE Overwrite(c)
    <2>1. /\ call[c].pc = "overwrite" /\ UNCHANGED sessionVars
          /\ \/ call'[c] = Goes(c, "upload") \/ call'[c] = Goes(c, "fork")
             \/ call'[c] = Returns(c, "error")
        BY <1>12, ExecutedAt DEF Overwrite, At, Creates
    <2> QED
        BY <1>3, <2>1, GoesFields DEF Undisturbed, Sess
<1>13. CASE UploadSnapshot(c) \/ ForkSnapshot(c)
    <2>1. /\ call[c].pc \in {"upload", "fork"} /\ UNCHANGED sessionVars
          /\ call[c].req.op \notin AnswerOps
          /\ call'[c] = Goes(c, "queue") \/ call'[c] = Returns(c, "error")
        BY <1>13, ExecutedAt
        DEF UploadSnapshot, ForkSnapshot, At, Dispatched, AnswerOps, CreateOps
    <2> QED
        BY <1>3, <2>1, GoesFields DEF Undisturbed, Sess
<1>14. CASE UploadQuestion(c)
    <2> DEFINE q == [Goes(c, "queue") EXCEPT !.asksIn = Url(c)]
    <2>1. Goes(c, "queue") \in CallType
        BY MoveType DEF Steps
    <2>2. /\ q.pc = "queue" /\ q.req = call[c].req /\ q.asked = call[c].asked
          /\ q.wantNet = call[c].wantNet /\ q.wantSnap = call[c].wantSnap
          /\ q.answerNet = call[c].answerNet /\ q.answerSnap = call[c].answerSnap
        BY <2>1, GoesFields DEF CallType
    <2>3. /\ Executed(c, q) /\ call[c].pc = "uploadQuestion"
          /\ UNCHANGED sessionVars
        BY <1>14 DEF UploadQuestion, At
    <2> HIDE DEF q
    <2>4. call'[c] = q \/ call'[c] = Returns(c, "error")
        BY <2>3, ExecutedAt
    <2> QED
        BY <1>3, <2>2, <2>3, <2>4 DEF Undisturbed, Sess
<1>15. CASE QueueWork(c)
    <2>1. /\ call[c].pc = "queue" /\ UNCHANGED network
          /\ \/ call'[c] = Goes(c, "poll") /\ UNCHANGED snapshot
             \/ \E res : call'[c] = Returns(c, res)
        BY <1>15, BecomesAt DEF QueueWork, At
    <2> QED
        BY <1>3, <2>1, GoesFields DEF Undisturbed, Sess
<1>16. CASE PollWork(c)
    <2>1. /\ call[c].pc = "poll" /\ UNCHANGED network
          /\ \/ call'[c] = Goes(c, "getAnswer") /\ UNCHANGED snapshot
             \/ \E res : call'[c] = Returns(c, res)
        BY <1>16, BecomesAt DEF PollWork, At, AfterWork, Activate
    <2> QED
        BY <1>3, <2>1, GoesFields DEF Undisturbed, Sess
<1>17. CASE GetAnswer(c)
    <2>1. call[c].pc = "getAnswer" /\ call[c].req.op \in AnswerOps
        BY <1>17 DEF GetAnswer, At, Dispatched, AnswerOps
    <2>2. Url(c) = call[c].wantNet /\ call[c].asked = call[c].wantSnap
        BY <2>1 DEF Undisturbed, Url
    <2> QED
        BY <1>17, <2>2, AnsweredFields DEF Undisturbed
<1>18. CASE Refused(c) \/ Fails(c)
    BY <1>3, <1>18, BecomesAt DEF Refused, Fails
<1> QED
    BY <1>5, <1>6, <1>7, <1>8, <1>9, <1>10, <1>11, <1>12, <1>13, <1>14, <1>15,
       <1>16, <1>17, <1>18

Safe == \A c \in Callers : ~overlapped[c] => Undisturbed(c)

LEMMA SafePreserved ==
    ASSUME IInv, [Next]_vars
    PROVE  Safe'
<1> USE DEF IInv
<1>1. ASSUME NEW c \in Callers, Moves(c), Undisturbed(c) => Undisturbed(c)'
      PROVE  Safe'
    <2> SUFFICES ASSUME NEW d \in Callers, ~overlapped'[d] PROVE Undisturbed(d)'
        BY DEF Safe
    <2>1. ~overlapped[d] /\ Undisturbed(d)
        BY <1>1 DEF Moves
    <2> QED
        BY <1>1, <2>1, OthersUndisturbed
<1>2. ASSUME NEW c \in Callers, NEW r \in Requests, Begin(c, r) PROVE Safe'
    <2> DEFINE q == Begun(r)
               net == AskedNetwork(r, calls + 1)
    <2>1. /\ q.pc = FirstStep(r) /\ q.req = r
          /\ q.wantNet = (IF net # None THEN net ELSE network[r.sess])
          /\ q.wantSnap = (IF r.snap # None THEN r.snap ELSE snapshot[r.sess])
          /\ q.answerNet = None
        BY BegunFields
    <2>2. Becomes(c, q) /\ UNCHANGED sessionVars /\ calls + 1 \in 1..MaxCalls
        BY <1>2, NameAssumption DEF Begin, TypeOK
    <2> HIDE DEF q, net
    <2>3. call'[c] = q /\ \A d \in Callers \ {c} : call'[d] = call[d]
        BY <2>2, BecomesAt
    <2>4. \A d \in Callers \ {c} : ~overlapped'[d] => ~overlapped[d]
        BY <1>2 DEF Begin
    <2>5. ASSUME NEW d \in Callers \ {c}, ~overlapped'[d] PROVE Undisturbed(d)'
        BY <2>2, <2>3, <2>4, <2>5 DEF Undisturbed, Sess
    <2>6. Undisturbed(c)'
        <3>1. \/ FirstStep(r) = "removeNetwork"
              \/ FirstStep(r) = "getNetwork" /\ net # None
              \/ FirstStep(r) = AfterNetwork(r) /\ net = None
            BY <2>2, FirstStepCases DEF net
        <3>2. CASE FirstStep(r) = "removeNetwork"
            BY <2>1, <2>2, <2>3, <3>2 DEF Undisturbed, Sess
        <3>3. CASE FirstStep(r) = "getNetwork" /\ net # None
            BY <2>1, <2>2, <2>3, <3>3 DEF Undisturbed, Sess
        <3>4. CASE FirstStep(r) = AfterNetwork(r) /\ net = None
            BY <2>1, <2>2, <2>3, <3>4, AfterNetworkCases DEF Undisturbed, Sess
        <3> QED
            BY <3>1, <3>2, <3>3, <3>4
    <2> QED
        BY <2>5, <2>6 DEF Safe
<1>3. ASSUME NEW c \in Callers, GenerateNetwork(c) PROVE Safe'
    BY <1>1, <1>3, GenerateNetworkMoves, OwnUndisturbed
<1>4. ASSUME NEW c \in Callers, GetNetwork(c) PROVE Safe'
    BY <1>1, <1>4, GetNetworkMoves, OwnUndisturbed
<1>5. ASSUME NEW c \in Callers, InitNetwork(c) PROVE Safe'
    BY <1>1, <1>5, InitNetworkMoves, OwnUndisturbed
<1>6. ASSUME NEW c \in Callers, DeleteNetwork(c) PROVE Safe'
    BY <1>1, <1>6, DeleteNetworkMoves, OwnUndisturbed
<1>7. ASSUME NEW c \in Callers, SetSnapshot(c) PROVE Safe'
    BY <1>1, <1>7, SetSnapshotMoves, OwnUndisturbed
<1>8. ASSUME NEW c \in Callers, Resolve(c) PROVE Safe'
    BY <1>1, <1>8, ResolveMoves, OwnUndisturbed
<1>9. ASSUME NEW c \in Callers, ListSnapshots(c) PROVE Safe'
    BY <1>1, <1>9, ListSnapshotsMoves, OwnUndisturbed
<1>10. ASSUME NEW c \in Callers, Overwrite(c) PROVE Safe'
    BY <1>1, <1>10, OverwriteMoves, OwnUndisturbed
<1>11. ASSUME NEW c \in Callers, UploadSnapshot(c) PROVE Safe'
    BY <1>1, <1>11, UploadSnapshotMoves, OwnUndisturbed
<1>12. ASSUME NEW c \in Callers, ForkSnapshot(c) PROVE Safe'
    BY <1>1, <1>12, ForkSnapshotMoves, OwnUndisturbed
<1>13. ASSUME NEW c \in Callers, DeleteSnapshot(c) PROVE Safe'
    BY <1>1, <1>13, DeleteSnapshotMoves, OwnUndisturbed
<1>14. ASSUME NEW c \in Callers, UploadQuestion(c) PROVE Safe'
    BY <1>1, <1>14, UploadQuestionMoves, OwnUndisturbed
<1>15. ASSUME NEW c \in Callers, QueueWork(c) PROVE Safe'
    BY <1>1, <1>15, QueueWorkMoves, OwnUndisturbed
<1>16. ASSUME NEW c \in Callers, PollWork(c) PROVE Safe'
    BY <1>1, <1>16, PollWorkMoves, OwnUndisturbed
<1>17. ASSUME NEW c \in Callers, GetAnswer(c) PROVE Safe'
    BY <1>1, <1>17, GetAnswerMoves, OwnUndisturbed
<1>18. ASSUME NEW c \in Callers, Refused(c) PROVE Safe'
    BY <1>1, <1>18, RefusedMoves, OwnUndisturbed
<1>19. ASSUME NEW c \in Callers, Fails(c) PROVE Safe'
    BY <1>1, <1>19, FailsMoves, OwnUndisturbed
<1>20. ASSUME NEW k \in 1..MaxCalls, NEW code \in Terminated, WorkEnds(k, code)
      PROVE Safe'
    BY <1>20 DEF WorkEnds, Safe, Undisturbed, Sess
<1>21. ASSUME UNCHANGED vars PROVE Safe'
    BY <1>21 DEF Safe, Undisturbed, Sess
<1> QED
    BY <1>2, <1>3, <1>4, <1>5, <1>6, <1>7, <1>8, <1>9, <1>10, <1>11,
       <1>12, <1>13, <1>14, <1>15, <1>16, <1>17, <1>18, <1>19, <1>20, <1>21, NextCases

(***************************************************************************)
(* The inductive invariant.                                                *)
(***************************************************************************)
THEOREM SessionInvariant == Spec => []IInv
<1>1. Init => IInv
    <2> SUFFICES ASSUME Init PROVE IInv
        OBVIOUS
    <2>1. \A c \in Callers : call[c] = NoCall
        BY DEF Init
    <2>2. NoCall.pc = "idle" /\ NoCall.answerNet = None
        BY DEF NoCall
    <2>3. \A c \in Callers : call[c].pc = "idle" /\ call[c].answerNet = None
        BY <2>1, <2>2
    <2>4. \A c \in Callers : Dispatched(call[c]) /\ Undisturbed(c) /\ ~Active(c)
        BY <2>3 DEF Dispatched, Undisturbed, Active
    <2>5. TypeOK /\ OverlapRecorded
        BY <2>4, InitTyped DEF OverlapRecorded
    <2> QED
        BY <2>4, <2>5 DEF IInv
<1>2. IInv /\ [Next]_vars => IInv'
    <2> SUFFICES ASSUME IInv, [Next]_vars PROVE IInv'
        OBVIOUS
    <2>1. TypeOK' /\ OverlapRecorded'
        BY TypePreserved, OverlapPreserved DEF IInv
    <2>2. \A d \in Callers : Dispatched(call'[d])
        BY DispatchedPreserved DEF IInv
    <2>3. Safe'
        BY SafePreserved
    <2> QED
        BY <2>1, <2>2, <2>3 DEF IInv, Safe
<1> QED
    BY <1>1, <1>2, PTL DEF Spec

(* Every variable keeps its type, for any callers, sessions and requests.  *)
THEOREM TypeCorrect == Spec => []TypeOK
<1>1. IInv => TypeOK
    BY DEF IInv
<1> QED
    BY <1>1, SessionInvariant, PTL

(* Ask of client/session.go, through askFrame: a call that had its session *)
(* to itself returns the answer for the network and the snapshot it named. *)
THEOREM PrivateAnswersAreRight == Spec => []AnswerIsForRequest
<1>1. IInv => AnswerIsForRequest
    BY DEF IInv, Undisturbed, AnswerIsForRequest
<1> QED
    BY <1>1, SessionInvariant, PTL

-----------------------------------------------------------------------------
(***************************************************************************)
(* Action properties.                                                      *)
(***************************************************************************)
Requested(n, a) ==
    \E c \in Callers :
        /\ call'[c] # call[c]
        /\ \/ call[c].req.op = "delete_network" /\ call[c].req.net = n
           \/ Consents(c, a) /\ (overlapped[c] \/ call[c].wantNet = n)

LEMMA VanishingRequested ==
    ASSUME IInv, [Next]_vars, NEW n \in Networks, NEW a \in Snapshots,
           snaps[n][a] # "absent", snaps'[n][a] = "absent"
    PROVE  Requested(n, a)
<1>0. /\ TypeOK /\ \A c \in Callers : Dispatched(call[c])
      /\ \A c \in Callers : ~overlapped[c] => Undisturbed(c)
    BY DEF IInv
<1>1. ASSUME NEW c \in Callers, NEW m, NEW b, NEW v,
             snaps' = [snaps EXCEPT ![m][b] = v]
      PROVE  n = m /\ a = b /\ v = "absent"
    BY <1>0, <1>1 DEF TypeOK
<1>2. ASSUME NEW c \in Callers, DeleteNetwork(c) PROVE Requested(n, a)
    <2>1. call[c].pc = "removeNetwork" /\ call[c].req.op = "delete_network"
        BY <1>0, <1>2 DEF DeleteNetwork, At, Dispatched
    <2>2. call'[c].pc = "idle"
        BY <1>0, <1>2, ExecutedAt, ReturnsFields DEF DeleteNetwork
    <2>3. call[c].req.net = n
        BY <1>0, <1>2 DEF DeleteNetwork, TypeOK
    <2> QED
        BY <2>1, <2>2, <2>3 DEF Requested
<1>3. ASSUME NEW c \in Callers, Overwrite(c) PROVE Requested(n, a)
    <2>1. /\ call[c].pc = "overwrite" /\ call[c].req.op \in CreateOps
          /\ call[c].req.over
        BY <1>0, <1>3 DEF Overwrite, At, Dispatched
    <2>2. call'[c].pc # "overwrite"
        BY <1>0, <1>3, ExecutedAt, GoesFields, ReturnsFields DEF Overwrite, Creates
    <2>3. n = Url(c) /\ a = call[c].req.snap
        BY <1>0, <1>1, <1>3 DEF Overwrite
    <2>4. ~overlapped[c] => Url(c) = call[c].wantNet
        BY <1>0, <2>1 DEF Undisturbed, Url
    <2> QED
        BY <2>1, <2>2, <2>3, <2>4 DEF Requested, Consents, CreateOps
<1>4. ASSUME NEW c \in Callers, DeleteSnapshot(c) PROVE Requested(n, a)
    <2>1. call[c].pc = "remove" /\ call[c].req.op = "delete_snapshot"
        BY <1>0, <1>4 DEF DeleteSnapshot, At, Dispatched
    <2>2. call'[c].pc = "idle"
        BY <1>0, <1>4, ExecutedAt, ReturnsFields DEF DeleteSnapshot
    <2>3. n = Url(c) /\ a = call[c].req.snap
        BY <1>1, <1>4 DEF DeleteSnapshot
    <2>4. ~overlapped[c] => Url(c) = call[c].wantNet
        BY <1>0, <2>1 DEF Undisturbed, Url
    <2> QED
        BY <2>1, <2>2, <2>3, <2>4 DEF Requested, Consents
<1>5. ASSUME NEW c \in Callers, UploadSnapshot(c) \/ ForkSnapshot(c) PROVE FALSE
    <2>1. snaps' = [snaps EXCEPT ![Url(c)][call[c].req.snap] = "uploaded"]
        BY <1>5 DEF UploadSnapshot, ForkSnapshot
    <2> QED
        BY <1>1, <2>1
<1>6. ASSUME NEW k \in 1..MaxCalls, NEW code \in Terminated, WorkEnds(k, code)
      PROVE FALSE
    BY <1>0, <1>6 DEF WorkEnds, TypeOK
<1>7. ASSUME UNCHANGED snaps PROVE FALSE
    BY <1>7
<1> QED
    BY <1>2, <1>3, <1>4, <1>5, <1>6, <1>7, NextCases
    DEF Begin, GenerateNetwork, GetNetwork, InitNetwork, SetSnapshot, Resolve,
        ListSnapshots, UploadQuestion, QueueWork, PollWork, GetAnswer, Refused,
        Fails

(* checkSnapshotOverwrite, DeleteSnapshot and DeleteNetwork: nothing is     *)
(* deleted at the service that no request asked to delete or overwrite.    *)
THEOREM NothingVanishesUnasked == Spec => SnapshotsVanishOnlyOnRequest
<1>1. ASSUME IInv, [Next]_vars
      PROVE  \A n \in Networks, a \in Snapshots :
                 snaps[n][a] # "absent" /\ snaps'[n][a] = "absent"
                     => Requested(n, a)
    BY <1>1, VanishingRequested
<1> QED
    BY <1>1, SessionInvariant, PTL
    DEF Spec, SnapshotsVanishOnlyOnRequest, Requested

Activated(s) ==
    \E c \in Callers :
        /\ Active(c) /\ Sess(c) = s
        /\ snapshot'[s] = call[c].req.snap
        /\ \/ At(c, "setSnapshot")
           \/ call'[c].pc = "idle" /\ call'[c].result = "ok"

LEMMA ActivationReported ==
    ASSUME IInv, [Next]_vars, NEW s \in Sessions, snapshot'[s] # snapshot[s]
    PROVE  Activated(s)
<1>0. /\ TypeOK /\ \A c \in Callers : Dispatched(call[c])
      /\ \A c \in Callers : ~overlapped[c] => Undisturbed(c)
    BY DEF IInv
<1>1. ASSUME NEW c \in Callers, SetSnapshot(c) PROVE Activated(s)
    BY <1>0, <1>1 DEF SetSnapshot, Activated, At, Active, TypeOK
<1>2. ASSUME NEW c \in Callers, QueueWork(c) PROVE Activated(s)
    <2>1. /\ Active(c) /\ call[c].req.bg
          /\ Becomes(c, Returns(c, "ok"))
          /\ snapshot' = [snapshot EXCEPT ![Sess(c)] = Subject(c)]
        BY <1>0, <1>2 DEF QueueWork, At, Active
    <2>2. call[c].req.op = "init_snapshot"
        BY <1>0, <2>1 DEF Dispatched, Active
    <2>3. call'[c].pc = "idle" /\ call'[c].result = "ok"
        BY <1>0, <2>1, BecomesAt, ReturnsFields
    <2> QED
        BY <1>0, <2>1, <2>2, <2>3 DEF Activated, Subject, TypeOK
<1>3. ASSUME NEW c \in Callers, PollWork(c) PROVE Activated(s)
    <2> DEFINE code == work[call[c].id].status
    <2>1. /\ Active(c) /\ Becomes(c, AfterWork(c, code))
          /\ snapshot' = Activate(c, code)
        BY <1>0, <1>3 DEF PollWork, At, Active
    <2>2. /\ Kind(c) = "parse" /\ Usable(c, code)
          /\ snapshot' = [snapshot EXCEPT ![Sess(c)] = Subject(c)]
        BY <2>1 DEF Activate
    <2>3. AfterWork(c, code) = Returns(c, "ok")
        BY <2>2 DEF AfterWork
    <2>4. call'[c].pc = "idle" /\ call'[c].result = "ok"
        BY <1>0, <2>1, <2>3, BecomesAt, ReturnsFields
    <2>5. Subject(c) = call[c].req.snap
        BY <2>2 DEF Subject, Kind
    <2> QED
        BY <1>0, <2>1, <2>2, <2>4, <2>5 DEF Activated, TypeOK
<1>4. ASSUME UNCHANGED snapshot PROVE FALSE
    BY <1>4
<1> QED
    BY <1>1, <1>2, <1>3, <1>4, NextCases
    DEF Begin, GenerateNetwork, GetNetwork, InitNetwork, DeleteNetwork, Resolve,
        ListSnapshots, Overwrite, UploadSnapshot, ForkSnapshot, DeleteSnapshot,
        UploadQuestion, GetAnswer, Refused, Fails, WorkEnds

(* SetSnapshot and parseSnapshot: the active snapshot changes to the one    *)
(* selected or to one whose initialization is reported as done.            *)
THEOREM ActivationFollowsSuccess == Spec => OnlySuccessActivates
<1>1. ASSUME IInv, [Next]_vars
      PROVE  \A s \in Sessions : snapshot'[s] # snapshot[s] => Activated(s)
    BY <1>1, ActivationReported
<1> QED
    BY <1>1, SessionInvariant, PTL DEF Spec, OnlySuccessActivates, Activated
=============================================================================
