--------------------------- MODULE ClientSession ---------------------------
(***************************************************************************)
(* Tool calls on client.Session objects (client/session.go, workhelper.go, *)
(* the endpoints of restv2helper.go, and the handlers of mcp/tools.go that *)
(* call them through mgmt and analysis of mcp/mcp.go).  A Session is two   *)
(* unguarded fields, Network and Snapshot, that each call sets first and   *)
(* reads again at every later request; calls run in goroutines of their    *)
(* own and may name the same session.  The Batfish service is external and *)
(* is modelled from the requests the client makes of it.  One HTTP request *)
(* is one step, with the outcomes RequestContract promises: done, refused, *)
(* failed without effect, or done with the reply lost.                     *)
(***************************************************************************)
EXTENDS Naturals

CONSTANTS
    Callers, Sessions, Networks, Snapshots,
    Requests,       \* the requests that callers issue
    Generated,      \* the network name that SetNetwork("") makes up in each call
    Held,           \* the parsed snapshots the service starts with
    None,           \* a nil or empty name
    MaxCalls        \* bound: tool calls in a behaviour

Ops == {"set_network", "delete_network", "list_snapshots", "init_snapshot",
        "fork_snapshot", "delete_snapshot", "generate_dataplane", "ask"}

(* over: overwrite; bg: background; base: the snapshot to fork.             *)
RequestType ==
    [op : Ops, sess : Sessions, net : Networks \cup {None},
     snap : Snapshots \cup {None}, over : BOOLEAN, bg : BOOLEAN,
     base : Snapshots \cup {None}]

(* DeleteNetwork and DeleteSnapshot refuse an empty name before anything    *)
(* else, and a created snapshot always has one (a fresh UUID if need be).   *)
ASSUME RequestAssumption ==
    /\ Requests \subseteq RequestType
    /\ \A r \in Requests :
          /\ r.op = "delete_network" => r.net # None
          /\ r.op \in {"init_snapshot", "fork_snapshot", "delete_snapshot"} => r.snap # None
          /\ r.bg => r.op = "init_snapshot"
          /\ r.op = "fork_snapshot" => r.base # None
ASSUME NameAssumption ==
    /\ Generated \in [1..MaxCalls -> Networks]
    /\ \A j, k \in 1..MaxCalls : Generated[j] = Generated[k] => j = k
    /\ Held \subseteq (Networks \ {Generated[k] : k \in 1..MaxCalls}) \X Snapshots
    /\ None \notin Networks \cup Snapshots
    /\ MaxCalls \in Nat
    /\ Requests # {}

VARIABLES
    network, snapshot,  \* the fields Network and Snapshot of every session
    call,               \* the tool call that each caller runs
    calls,              \* calls begun so far
    overlapped,         \* another call used its session while it ran
    nets,               \* networks the service has
    snaps,              \* snapshots the service has, by network
    work                \* work items of the service, by the call that queued them

sessionVars == <<network, snapshot>>
callVars == <<call, calls, overlapped>>
serviceVars == <<nets, snaps, work>>
vars == <<sessionVars, callVars, serviceVars>>

(* WorkStatusCode.IsTerminated; every other code is "running" here.         *)
Terminated == {"assignmentError", "requeueFailure", "terminatedAbnormally",
               "terminatedByUser", "terminatedNormally"}
Failures == {"assignmentError", "requeueFailure", "terminatedAbnormally"}

Steps == {"idle", "getNetwork", "initNetwork", "setSnapshot", "resolve",
          "uploadQuestion", "list", "overwrite", "upload", "fork", "queue",
          "poll", "getAnswer", "remove", "removeNetwork"}

NoWork == [kind |-> "none", net |-> None, snap |-> None, status |-> "none"]

NoCall == [pc |-> "idle", id |-> 0, req |-> CHOOSE r \in Requests : TRUE,
           target |-> None, wantNet |-> None, wantSnap |-> None,
           asked |-> None, asksIn |-> None,
           answerNet |-> None, answerSnap |-> None, result |-> "none"]

MaybeNetwork == Networks \cup {None}
MaybeSnapshot == Snapshots \cup {None}

(* target: the argument of SetNetwork; asked and asksIn: what GetSnapshot   *)
(* returned and where the question was uploaded; wantNet and wantSnap are   *)
(* history: what the request named, or else what was active when it began.  *)
CallType ==
    [pc : Steps, id : 0..MaxCalls, req : RequestType, target : MaybeNetwork,
     wantNet : MaybeNetwork, wantSnap : MaybeSnapshot,
     asked : MaybeSnapshot, asksIn : MaybeNetwork,
     answerNet : MaybeNetwork, answerSnap : MaybeSnapshot,
     result : {"none", "ok", "error"}]

WorkType ==
    [kind : {"none", "parse", "dataplane", "answer"}, net : MaybeNetwork,
     snap : MaybeSnapshot, status : Terminated \cup {"none", "running"}]

TypeOK ==
    /\ network \in [Sessions -> MaybeNetwork]
    /\ snapshot \in [Sessions -> MaybeSnapshot]
    /\ call \in [Callers -> CallType]
    /\ calls \in 0..MaxCalls
    /\ overlapped \in [Callers -> BOOLEAN]
    /\ nets \in SUBSET Networks
    /\ snaps \in [Networks -> [Snapshots -> {"absent", "uploaded", "parsed"}]]
    /\ work \in [1..MaxCalls -> WorkType]

EmptySnapshots == [a \in Snapshots |-> "absent"]

(* Fresh sessions at a service that others have used before.                *)
Init ==
    /\ network = [s \in Sessions |-> None]
    /\ snapshot = [s \in Sessions |-> None]
    /\ call = [c \in Callers |-> NoCall]
    /\ calls = 0
    /\ overlapped = [c \in Callers |-> FALSE]
    /\ nets = {h[1] : h \in Held}
    /\ snaps = [n \in Networks |-> [a \in Snapshots |->
                   IF <<n, a>> \in Held THEN "parsed" ELSE "absent"]]
    /\ work = [k \in 1..MaxCalls |-> NoWork]

-----------------------------------------------------------------------------
(* What a call is doing.                                                    *)

Active(c) == call[c].pc # "idle"
At(c, step) == call[c].pc = step
Sess(c) == call[c].req.sess

(* The network in the URL of the next request: s.Network, read again each   *)
(* time.                                                                    *)
Url(c) == network[Sess(c)]

Present(n, a) == n \in nets /\ a \in Snapshots /\ snaps[n][a] # "absent"

Becomes(c, r) == call' = [call EXCEPT ![c] = r]
Goes(c, step) == [call[c] EXCEPT !.pc = step]
Returns(c, res) == [call[c] EXCEPT !.pc = "idle", !.result = res]

(* A request the service executes: its reply arrives, or it is lost and the *)
(* call fails with the effect in place.                                     *)
Executed(c, r) == \E q \in {r, Returns(c, "error")} : Becomes(c, q)

AfterNetworkUnhandled(r) ==
    CASE r.op \in {"list_snapshots", "init_snapshot", "fork_snapshot"} -> "list"
      [] r.op = "delete_snapshot" -> "remove"
      [] r.op \in {"ask", "generate_dataplane"} -> "setSnapshot"
      [] OTHER -> r.op

(* The handler's first step once SetNetwork is done or not asked for.       *)
(* generate_dataplane is no tool: it is a caller of the Go API that selects *)
(* network and snapshot the same way (client/integration_funcs_test.go).    *)
AfterNetwork(r) ==
    CASE r.op \in {"list_snapshots", "init_snapshot", "fork_snapshot"} -> "list"
      [] r.op = "delete_snapshot" -> "remove"
      [] r.op \in {"ask", "generate_dataplane"} /\ r.snap # None -> "setSnapshot"
      [] r.op \in {"ask", "generate_dataplane"} /\ r.snap = None -> "resolve"
      [] OTHER -> "idle"

FirstStep(r) ==
    CASE r.op = "delete_network" -> "removeNetwork"
      [] r.op = "set_network" -> "getNetwork"
      [] r.op \notin {"delete_network", "set_network"} /\ r.net # None -> "getNetwork"
      [] OTHER -> AfterNetwork(r)

(* The step after checkSnapshotOverwrite.                                   *)
Creates(c) == IF call[c].req.op = "fork_snapshot" THEN "fork" ELSE "upload"

Subject(c) ==
    IF call[c].req.op \in {"ask", "generate_dataplane"}
    THEN call[c].asked ELSE call[c].req.snap

Kind(c) ==
    CASE call[c].req.op = "ask" -> "answer"
      [] call[c].req.op = "generate_dataplane" -> "dataplane"
      [] OTHER -> "parse"

(* Which requests the service (and the client's own nil checks) let through.*)
Accepts(c) ==
    LET n == Url(c)
        r == call[c].req
    IN  CASE At(c, "initNetwork") -> call[c].target \notin nets
          [] At(c, "setSnapshot") -> Present(n, r.snap)
          [] At(c, "resolve") -> snapshot[Sess(c)] # None
          [] At(c, "uploadQuestion") -> n \in nets
          [] At(c, "list") -> n \in nets
          [] At(c, "overwrite") -> Present(n, r.snap)
          [] At(c, "upload") -> n \in nets /\ ~Present(n, r.snap)
          [] At(c, "fork") -> Present(n, r.base) /\ ~Present(n, r.snap)
          [] At(c, "queue") -> /\ Present(n, Subject(c))
                               /\ r.op = "ask" => n = call[c].asksIn
          [] At(c, "poll") -> n \in nets /\ n = work[call[c].id].net
          [] At(c, "getAnswer") -> n \in nets /\ n = call[c].asksIn
          [] At(c, "remove") -> Present(n, r.snap)
          [] At(c, "removeNetwork") -> r.net \in nets
          [] OTHER -> TRUE

-----------------------------------------------------------------------------
(* Calls begin and fail.                                                    *)

Rivals(c, s) == {d \in Callers \ {c} : Active(d) /\ Sess(d) = s}

(* The network that the call with identity k asks for, if it asks for one.  *)
AskedNetwork(r, k) ==
    IF r.op = "set_network" /\ r.net = None THEN Generated[k] ELSE r.net

Begun(r) ==
    LET net == AskedNetwork(r, calls + 1)
    IN  [NoCall EXCEPT
            !.pc = FirstStep(r), !.id = calls + 1, !.req = r, !.target = net,
            !.wantNet = IF net # None THEN net ELSE network[r.sess],
            !.wantSnap = IF r.snap # None THEN r.snap ELSE snapshot[r.sess]]

(* A tool call arrives and Registry.Get has found its session.              *)
Begin(c, r) ==
    /\ ~Active(c)
    /\ calls < MaxCalls
    /\ calls' = calls + 1
    /\ Becomes(c, Begun(r))
    /\ overlapped' = [d \in Callers |->
                         IF d = c THEN Rivals(c, r.sess) # {}
                         ELSE overlapped[d] \/ d \in Rivals(c, r.sess)]
    /\ UNCHANGED <<sessionVars, serviceVars>>

(* The service or a nil check says no: 404, 409, "network must be set".     *)
Refused(c) ==
    /\ Active(c)
    /\ ~Accepts(c)
    /\ ~(At(c, "list") /\ call[c].req.op = "init_snapshot" /\ Url(c) = None)
    /\ Becomes(c, Returns(c, "error"))
    /\ UNCHANGED <<sessionVars, calls, overlapped, serviceVars>>

(* The request is lost, its context is cancelled, the service answers 5xx   *)
(* until the retries run out, the upload cannot be read, or (between        *)
(* GetSnapshot and the upload of the question) the question is not valid.   *)
Fails(c) ==
    /\ Active(c)
    /\ At(c, "resolve") => call[c].req.op = "ask"
    /\ Becomes(c, Returns(c, "error"))
    /\ UNCHANGED <<sessionVars, calls, overlapped, serviceVars>>

-----------------------------------------------------------------------------
(* SetNetwork.                                                              *)

AdoptIfUnset(c) ==
    network' = [network EXCEPT ![Sess(c)] = IF @ = None THEN call[c].target ELSE @]

(* s.Network = name, and on to the next step of the handler.                *)
Adopt(c) == network' = [network EXCEPT ![Sess(c)] = call[c].target]

Onward(c) ==
    LET next == AfterNetwork(call[c].req)
    IN  IF next = "idle" THEN Returns(c, "ok") ELSE Goes(c, next)

(* prepareSnapshot: without a network, SetNetwork("") makes one up.         *)
GenerateNetwork(c) ==
    /\ At(c, "list")
    /\ call[c].req.op = "init_snapshot"
    /\ Url(c) = None
    /\ LET fresh == Generated[call[c].id]
       IN  Becomes(c, [Goes(c, "getNetwork") EXCEPT !.target = fresh,
                                                    !.wantNet = fresh])
    /\ UNCHANGED <<sessionVars, calls, overlapped, serviceVars>>

GetNetwork(c) ==
    /\ At(c, "getNetwork")
    /\ IF call[c].target \in nets
       THEN Adopt(c) /\ Becomes(c, Onward(c))
       ELSE UNCHANGED network /\ Becomes(c, Goes(c, "initNetwork"))
    /\ UNCHANGED <<snapshot, calls, overlapped, serviceVars>>

InitNetwork(c) ==
    /\ At(c, "initNetwork")
    /\ Accepts(c)
    /\ nets' = nets \cup {call[c].target}
    /\ \/ Adopt(c) /\ Becomes(c, Onward(c))
       \/ UNCHANGED network /\ Becomes(c, Returns(c, "error"))
    /\ UNCHANGED <<snapshot, calls, overlapped, snaps, work>>

(* DeleteNetwork: the session's own fields are left alone.                  *)
DeleteNetwork(c) ==
    /\ At(c, "removeNetwork")
    /\ Accepts(c)
    /\ nets' = nets \ {call[c].req.net}
    /\ snaps' = [snaps EXCEPT ![call[c].req.net] = EmptySnapshots]
    /\ Executed(c, Returns(c, "ok"))
    /\ UNCHANGED <<sessionVars, calls, overlapped, work>>

-----------------------------------------------------------------------------
(* Snapshots: ListSnapshots, SetSnapshot, GetSnapshot, init, fork, delete.  *)

SetSnapshot(c) ==
    /\ At(c, "setSnapshot")
    /\ Accepts(c)
    /\ snapshot' = [snapshot EXCEPT ![Sess(c)] = call[c].req.snap]
    /\ Becomes(c, Goes(c, "resolve"))
    /\ UNCHANGED <<network, calls, overlapped, serviceVars>>

(* GetSnapshot(nil): whatever snapshot is active now.                       *)
Resolve(c) ==
    /\ At(c, "resolve")
    /\ Accepts(c)
    /\ Becomes(c, [Goes(c, IF call[c].req.op = "ask"
                           THEN "uploadQuestion" ELSE "queue")
                      EXCEPT !.asked = snapshot[Sess(c)]])
    /\ UNCHANGED <<sessionVars, calls, overlapped, serviceVars>>

AfterListRegardless(c) ==
    CASE call[c].req.op = "list_snapshots" -> Returns(c, "ok")
      [] call[c].req.op # "list_snapshots" /\ Present(Url(c), call[c].req.snap)
            -> Goes(c, "overwrite")
      [] OTHER -> Goes(c, Creates(c))

(* checkSnapshotOverwrite on the names just listed.                         *)
AfterList(c) ==
    LET exists == Present(Url(c), call[c].req.snap)
    IN  CASE call[c].req.op = "list_snapshots" -> Returns(c, "ok")
          [] call[c].req.op # "list_snapshots" /\ exists
                -> IF call[c].req.over THEN Goes(c, "overwrite")
                   ELSE Returns(c, "error")
          [] OTHER -> Goes(c, Creates(c))

ListSnapshots(c) ==
    /\ At(c, "list")
    /\ Accepts(c)
    /\ Becomes(c, AfterList(c))
    /\ UNCHANGED <<sessionVars, calls, overlapped, serviceVars>>

Overwrite(c) ==
    /\ At(c, "overwrite")
    /\ Accepts(c)
    /\ snaps' = [snaps EXCEPT ![Url(c)][call[c].req.snap] = "absent"]
    /\ Executed(c, Goes(c, Creates(c)))
    /\ UNCHANGED <<sessionVars, calls, overlapped, nets, work>>

UploadSnapshot(c) ==
    /\ At(c, "upload")
    /\ Accepts(c)
    /\ snaps' = [snaps EXCEPT ![Url(c)][call[c].req.snap] = "uploaded"]
    /\ Executed(c, Goes(c, "queue"))
    /\ UNCHANGED <<sessionVars, calls, overlapped, nets, work>>

ForkSnapshot(c) ==
    /\ At(c, "fork")
    /\ Accepts(c)
    /\ snaps' = [snaps EXCEPT ![Url(c)][call[c].req.snap] = "uploaded"]
    /\ Executed(c, Goes(c, "queue"))
    /\ UNCHANGED <<sessionVars, calls, overlapped, nets, work>>

DeleteSnapshot(c) ==
    /\ At(c, "remove")
    /\ Accepts(c)
    /\ snaps' = [snaps EXCEPT ![Url(c)][call[c].req.snap] = "absent"]
    /\ Executed(c, Returns(c, "ok"))
    /\ UNCHANGED <<sessionVars, calls, overlapped, nets, work>>

-----------------------------------------------------------------------------
(* AnswerQuestion and execute.                                              *)

UploadQuestion(c) ==
    /\ At(c, "uploadQuestion")
    /\ Accepts(c)
    /\ Executed(c, [Goes(c, "queue") EXCEPT !.asksIn = Url(c)])
    /\ UNCHANGED <<sessionVars, calls, overlapped, serviceVars>>

(* parseSnapshot with background = TRUE activates the snapshot at once.     *)
QueueWork(c) ==
    /\ At(c, "queue")
    /\ Accepts(c)
    /\ work' = [work EXCEPT ![call[c].id] =
                   [kind |-> Kind(c), net |-> Url(c), snap |-> Subject(c),
                    status |-> "running"]]
    /\ \/ /\ ~call[c].req.bg
          /\ Becomes(c, Goes(c, "poll"))
          /\ UNCHANGED snapshot
       \/ /\ call[c].req.bg
          /\ Becomes(c, Returns(c, "ok"))
          /\ snapshot' = [snapshot EXCEPT ![Sess(c)] = Subject(c)]
       \/ /\ Becomes(c, Returns(c, "error"))
          /\ UNCHANGED snapshot
    /\ UNCHANGED <<network, calls, overlapped, nets, snaps>>

(* The work item stops with any terminal code, normally only if what it     *)
(* needs is there.  An item that nobody polls is forgotten.                 *)
WorkEnds(k, code) ==
    /\ work[k].status = "running"
    /\ LET w == work[k]
           needs == IF w.kind = "parse" THEN {"uploaded", "parsed"} ELSE {"parsed"}
       IN  /\ code = "terminatedNormally" =>
                 w.net \in nets /\ snaps[w.net][w.snap] \in needs
           /\ snaps' = IF code = "terminatedNormally"
                       THEN [snaps EXCEPT ![w.net][w.snap] = "parsed"]
                       ELSE snaps
    /\ work' = [work EXCEPT ![k] =
                   IF \E c \in Callers : At(c, "poll") /\ call[c].id = k
                   THEN [@ EXCEPT !.status = code] ELSE NoWork]
    /\ UNCHANGED <<sessionVars, callVars, nets>>

IsTerminatedExceptRequeue(code) == code \in Terminated \ {"requeueFailure"}

IsTerminated(code) == code \in Terminated

(* What execute's caller makes of a terminal code: an answer is fetched     *)
(* unless the work failed, a parse must have ended normally.                *)
Usable(c, code) ==
    /\ code \notin Failures
    /\ Kind(c) = "parse" => code = "terminatedNormally"

AfterWork(c, code) ==
    CASE ~Usable(c, code) -> Returns(c, "error")
      [] Usable(c, code) /\ Kind(c) = "answer" -> Goes(c, "getAnswer")
      [] OTHER -> Returns(c, "ok")

ActivateFirst(c, code) ==
    IF Kind(c) = "parse" THEN [snapshot EXCEPT ![Sess(c)] = Subject(c)]
    ELSE snapshot

(* parseSnapshot: s.Snapshot = name once the parse has ended normally.      *)
Activate(c, code) ==
    IF Kind(c) = "parse" /\ Usable(c, code)
    THEN [snapshot EXCEPT ![Sess(c)] = Subject(c)]
    ELSE snapshot

(* getWorkStatus until the code is terminal; there is no deadline.  A poll  *)
(* that finds the item running changes nothing.                             *)
PollWork(c) ==
    LET code == work[call[c].id].status
    IN  /\ At(c, "poll")
        /\ Accepts(c)
        /\ IsTerminated(code)
        /\ work' = [work EXCEPT ![call[c].id] = NoWork]
        /\ Becomes(c, AfterWork(c, code))
        /\ snapshot' = Activate(c, code)
        /\ UNCHANGED <<network, calls, overlapped, nets, snaps>>

(* GetAnswer: the answer to the question uploaded to this network, about    *)
(* the snapshot that was resolved.                                          *)
GetAnswer(c) ==
    /\ At(c, "getAnswer")
    /\ Accepts(c)
    /\ Becomes(c, [Returns(c, "ok") EXCEPT !.answerNet = Url(c),
                                           !.answerSnap = call[c].asked])
    /\ UNCHANGED <<sessionVars, calls, overlapped, serviceVars>>

-----------------------------------------------------------------------------
Step(c) ==
    \/ GenerateNetwork(c) \/ GetNetwork(c) \/ InitNetwork(c) \/ DeleteNetwork(c)
    \/ SetSnapshot(c) \/ Resolve(c) \/ ListSnapshots(c) \/ Overwrite(c)
    \/ UploadSnapshot(c) \/ ForkSnapshot(c) \/ DeleteSnapshot(c)
    \/ UploadQuestion(c) \/ QueueWork(c) \/ PollWork(c) \/ GetAnswer(c)
    \/ Refused(c)

Service == \E k \in 1..MaxCalls, code \in Terminated : WorkEnds(k, code)

Next ==
    \/ \E c \in Callers, r \in Requests : Begin(c, r)
    \/ \E c \in Callers : Step(c) \/ Fails(c)
    \/ Service

Spec == Init /\ [][Next]_vars

(* Goroutines that can move do, and the service ends every work item it was *)
(* given; requests are not promised to succeed (no fairness on Fails).      *)
FairSpec ==
    /\ Spec
    /\ \A c \in Callers : WF_vars(Step(c))
    /\ \A k \in 1..MaxCalls :
          WF_vars(\E code \in Terminated : WorkEnds(k, code))

-----------------------------------------------------------------------------
(* Properties.                                                              *)

(* An analysis call that had its session to itself answers for the network  *)
(* and the snapshot its request named, or for the ones that were active     *)
(* when it began where it named none.                                       *)
AnswerIsForRequest ==
    \A c \in Callers :
        call[c].answerNet # None /\ ~overlapped[c] =>
            /\ call[c].answerNet = call[c].wantNet
            /\ call[c].answerSnap = call[c].wantSnap

(* The same without the proviso: what mcp.go:205 says of every call, that   *)
(* analysis "returns the named session with network and snapshot set", so   *)
(* that the question is asked about the network and snapshot of the request.*)
AnswerIsAlwaysForRequest ==
    \A c \in Callers :
        call[c].answerNet # None =>
            /\ call[c].answerNet = call[c].wantNet
            /\ call[c].answerSnap = call[c].wantSnap

(* The request of c asks for snapshot a to be deleted or replaced.          *)
Consents(c, a) ==
    /\ call[c].req.snap = a
    /\ \/ call[c].req.op = "delete_snapshot"
       \/ call[c].req.op \in {"init_snapshot", "fork_snapshot"} /\ call[c].req.over

(* A snapshot disappears only in a step of a call that was asked to delete  *)
(* its network, to delete it, or to overwrite it; and, if that call had its *)
(* session to itself, only from the network the call was about.             *)
SnapshotsVanishOnlyOnRequest ==
    [][\A n \in Networks, a \in Snapshots :
          snaps[n][a] # "absent" /\ snaps'[n][a] = "absent" =>
              \E c \in Callers :
                  /\ call'[c] # call[c]
                  /\ \/ call[c].req.op = "delete_network" /\ call[c].req.net = n
                     \/ Consents(c, a) /\ (overlapped[c] \/ call[c].wantNet = n)]_vars

(* The active snapshot of a session changes only to the one an analysis     *)
(* call selects or one whose initialization reports success in that step: a *)
(* failed init or fork leaves the previous snapshot active.                 *)
OnlySuccessActivates ==
    [][\A s \in Sessions :
          snapshot'[s] # snapshot[s] =>
              \E c \in Callers :
                  /\ Active(c) /\ Sess(c) = s
                  /\ snapshot'[s] = call[c].req.snap
                  /\ \/ At(c, "setSnapshot")
                     \/ call'[c].pc = "idle" /\ call'[c].result = "ok"]_vars

(* No call hangs: whatever the service's work items end with, and whoever   *)
(* changes the session meanwhile, every tool call returns.                  *)
EveryCallReturns == \A c \in Callers : Active(c) ~> ~Active(c)

-----------------------------------------------------------------------------
(* The inductive invariant behind the safety properties.                    *)

AnswerOps == {"ask", "generate_dataplane"}
CreateOps == {"init_snapshot", "fork_snapshot"}

(* A call is only ever at the steps of its own tool.                        *)
Dispatched(q) ==
    /\ q.pc # "idle" => q.id \in 1..MaxCalls
    /\ q.pc \in {"getNetwork", "initNetwork"} =>
          q.target \in Networks /\ q.target = q.wantNet
    /\ q.pc \in {"setSnapshot", "resolve"} => q.req.op \in AnswerOps
    /\ q.pc = "setSnapshot" => q.req.snap # None
    /\ q.pc # "idle" /\ q.req.snap # None => q.req.snap = q.wantSnap
    /\ q.pc \in {"uploadQuestion", "getAnswer"} => q.req.op = "ask"
    /\ q.pc \in {"upload", "fork"} => q.req.op \in CreateOps
    /\ q.pc = "overwrite" => q.req.op \in CreateOps /\ q.req.over
    /\ q.pc = "list" => q.req.op \in CreateOps \cup {"list_snapshots"}
    /\ q.pc = "remove" => q.req.op = "delete_snapshot"
    /\ q.pc = "removeNetwork" => q.req.op = "delete_network"
    /\ q.pc \in {"queue", "poll"} => q.req.op \in AnswerOps \cup CreateOps
    /\ q.pc # "idle" => q.answerNet = None
    /\ q.pc # "idle" /\ q.req.bg => q.req.op = "init_snapshot"

(* Two calls in flight on one session know of each other.                   *)
OverlapRecorded ==
    \A c, d \in Callers :
        c # d /\ Active(c) /\ Active(d) /\ Sess(c) = Sess(d) => overlapped[c]

(* What a call that has its session to itself finds there.                  *)
Undisturbed(c) ==
    LET q == call[c]
    IN  /\ q.pc \notin {"idle", "getNetwork", "initNetwork", "removeNetwork"}
              => network[Sess(c)] = q.wantNet
        /\ \/ q.pc = "resolve"
           \/ q.pc \in {"getNetwork", "initNetwork"} /\ q.req.op \in AnswerOps
              /\ q.req.snap = None
           => snapshot[Sess(c)] = q.wantSnap
        /\ q.pc \in {"uploadQuestion", "queue", "poll", "getAnswer"}
              /\ q.req.op \in AnswerOps => q.asked = q.wantSnap
        /\ q.answerNet # None =>
              q.answerNet = q.wantNet /\ q.answerSnap = q.wantSnap

IInv ==
    /\ TypeOK
    /\ \A c \in Callers : Dispatched(call[c])
    /\ OverlapRecorded
    /\ \A c \in Callers : ~overlapped[c] => Undisturbed(c)
=============================================================================
