------------------------------- MODULE Asserts -------------------------------
(***************************************************************************)
(* The assertions of client/asserts.go: the question that each asks, with  *)
(* its variables, and what it makes of the answer; the matching of routes. *)
(* An assertion ends as <<result, error>>; formatting is left out.         *)
(***************************************************************************)
EXTENDS Answers
LOCAL INSTANCE SequencesExt
LOCAL INSTANCE FiniteSetsExt
LOCAL INSTANCE TLC

Passed == <<TRUE, "none">>
AssertError == <<FALSE, "assert error">>
OtherError == <<FALSE, "error">>
Panicked == <<FALSE, "panic">>

RaiseCommon(soft) == IF soft THEN <<FALSE, "none">> ELSE AssertError
PassIf(holds, soft) == IF holds THEN Passed ELSE RaiseCommon(soft)

-----------------------------------------------------------------------------
(* valueMatches and isDictMatch: what is expected is a part of what is      *)
(* there, lists in any order.  Each expected item takes the first item that *)
(* it matches and no other has taken; 0 stands for none.                    *)
RECURSIVE ValueMatches(_, _)

FirstMatch(actual, used, e) ==
    LET free == {i \in DOMAIN actual \ used : ValueMatches(actual[i], e)}
    IN  IF free = {} THEN 0 ELSE Min(free)

IsDictMatch(actual, expected) ==
    \A k \in DOMAIN expected :
        k \in DOMAIN actual /\ ValueMatches(actual[k], expected[k])

(* Faulty: items are not marked as taken.                                   *)
ListMatchesAgain(actual, expected) ==
    /\ Len(actual) = Len(expected)
    /\ \A k \in DOMAIN expected : FirstMatch(actual, {}, expected[k]) # 0

ListMatches(actual, expected) ==
    /\ Len(actual) = Len(expected)
    /\ 0 \notin FoldLeft(LAMBDA used, e : used \cup {FirstMatch(actual, used, e)}, {}, expected)

ValueMatches(actual, expected) ==
    CASE expected.kind = "map" ->
            actual.kind = "map" /\ IsDictMatch(actual.entries, expected.entries)
      [] expected.kind = "list" ->
            actual.kind = "list" /\ ListMatches(actual.items, expected.items)
      [] OTHER -> actual = expected

-----------------------------------------------------------------------------
(* The routes of a node and VRF, in a frame or in a map of maps of lists;   *)
(* anything else is Missing("neither").                                     *)
Missing(what) == [kind |-> what]
Routes(records) == [kind |-> "routes", records |-> records]

WithValue(df, c, v) == Filter(df, Eq(Col(df, c), Str(v)))

(* Without the column there is no series to compare.                        *)
FrameRoutes(df, node, vrf) ==
    LET ofNode == WithValue(df, "Node", node)
        ofVrf == WithValue(ofNode, "VRF", vrf)
    IN  CASE ~HasColumn(df, "Node") -> Missing("column")
          [] ofNode.rows = 0 -> Missing("node")
          [] ~HasColumn(df, "VRF") -> Missing("column")
          [] ofVrf.rows = 0 -> Missing("vrf")
          [] OTHER -> Routes(Records(ofVrf))

DictRoutes(dict, node, vrf) ==
    CASE node \notin DOMAIN dict -> Missing("node")
      [] vrf \notin DOMAIN dict[node] -> Missing("vrf")
      [] OTHER -> Routes(dict[node][vrf])

SomeMatch(records, expected) == \E i \in DOMAIN records : IsDictMatch(records[i], expected)

(* A node or VRF that is not there is an error for the one, soft or not,    *)
(* and as good as no route for the other.                                   *)
AssertHasRoute(routes, expected, soft) ==
    CASE routes.kind = "neither" -> OtherError
      [] routes.kind = "column" -> Panicked
      [] routes.kind \in {"node", "vrf"} -> AssertError
      [] OTHER -> PassIf(SomeMatch(routes.records, expected), soft)

AssertHasNoRoute(routes, expected, soft) ==
    CASE routes.kind = "neither" -> OtherError
      [] routes.kind = "column" -> Panicked
      [] routes.kind \in {"node", "vrf"} -> Passed
      [] OTHER -> PassIf(~SomeMatch(routes.records, expected), soft)

-----------------------------------------------------------------------------
(* The assertions that ask one question and want no row in its answer.      *)
Given(vars) == [k \in {j \in DOMAIN vars : vars[j] # Nil} |-> vars[k]]
Asking(question, vars) == [question |-> question, vars |-> vars]

Flows(in, actions) ==
    Asking("reachability",
           [pathConstraints |-> Element("PathConstraints",
                [startLocation |-> in.startLocation, endLocation |-> Nil,
                 transitLocations |-> Nil, forbiddenLocations |-> Nil]),
            headers |-> in.headers, actions |-> Str(actions)])
Filters(in, action) ==
    Asking("searchFilters",
           [filters |-> in.filters, headers |-> in.headers, action |-> Str(action)]
               @@ Given([startLocation |-> in.startLocation]))
NodesOf(in) == Given([nodes |-> in.nodes, remoteNodes |-> in.remoteNodes])

UnestablishedOSPFSSessionStatusSpec == Str("/^(?!ESTABLISHED).*$/")

(* Faulty: the action that is asserted is the one that is searched for.     *)
AsksForAction(assertion, in) ==
    CASE assertion = "AssertFilterDenies" -> Filters(in, "deny")
      [] assertion = "AssertFilterPermits" -> Filters(in, "permit")
      [] assertion = "AssertFlowsFail" -> Flows(in, "failure")
      [] assertion = "AssertFlowsSucceed" -> Flows(in, "success")
      [] OTHER -> Asking("detectLoops", EmptyMap)

Asks(assertion, in) ==
    CASE assertion = "AssertFilterDenies" -> Filters(in, "permit")
      [] assertion = "AssertFilterPermits" -> Filters(in, "deny")
      [] assertion = "AssertFlowsFail" -> Flows(in, "success")
      [] assertion = "AssertFlowsSucceed" -> Flows(in, "failure")
      [] assertion = "AssertFilterHasNoUnreachableLines" ->
            Asking("filterLineReachability", [filters |-> in.filters])
      [] assertion = "AssertNoIncompatibleBGPSessions" ->
            Asking("bgpSessionCompatibility", Given([status |-> in.status]) @@ NodesOf(in))
      [] assertion = "AssertNoIncompatibleOSPFSessions" ->
            Asking("ospfSessionCompatibility",
                   [statuses |-> UnestablishedOSPFSSessionStatusSpec] @@ NodesOf(in))
      [] assertion = "AssertNoUnestablishedBGPSessions" ->
            Asking("bgpSessionStatus", [status |-> Str("NOT_ESTABLISHED")] @@ NodesOf(in))
      [] assertion = "AssertNoUndefinedReferences" -> Asking("undefinedReferences", EmptyMap)
      [] assertion = "AssertNoForwardingLoops" -> Asking("detectLoops", EmptyMap)

IgnoredStatuses == {Str("UNIQUE_MATCH"), Str("DYNAMIC_MATCH"), Str("UNKNOWN_REMOTE")}

(* Without a status the sessions that are compatible are taken out here.    *)
Relevant(assertion, in, df) ==
    IF /\ assertion = "AssertNoIncompatibleBGPSessions" /\ in.status = Nil
       /\ HasColumn(df, "Configured_Status")
    THEN Filter(df, NotIn(Col(df, "Configured_Status"), IgnoredStatuses))
    ELSE df

(* askQuestionFrame: an answer that is none, or no table, is an error.      *)
AskQuestionFrame(reply) ==
    CASE reply = Panic -> Panic
      [] reply.kind = "table" -> reply.frame
      [] OTHER -> Invalid

AssertNoneFound(assertion, in, reply, soft) ==
    LET df == AskQuestionFrame(reply)
    IN  CASE df = Panic -> Panicked
          [] df = Invalid -> OtherError
          [] OTHER -> PassIf(Relevant(assertion, in, df).rows = 0, soft)

-----------------------------------------------------------------------------
(* AssertNoDuplicateRouterIDs.                                              *)
Supported == {"bgp", "ospf"}
LowerCase(p) ==
    CASE p \in {"BGP", "Bgp"} -> "bgp"
      [] p \in {"OSPF", "Ospf"} -> "ospf"
      [] OTHER -> p
ProtocolsToFetch(protocols) ==
    IF protocols = Nil THEN Supported ELSE {LowerCase(p) : p \in ToSet(protocols.items)}
ProcessQuestion(protocol) ==
    IF protocol = "bgp" THEN "bgpProcessConfiguration" ELSE "ospfProcessConfiguration"

(* With ignoreSameNode the rows of an id stay if several nodes have it and  *)
(* one of them has it twice.                                                *)
DuplicateRouterIDs(df, ignoreSameNode) ==
    LET NodesIn(rows) == NUnique(Col(Group(df, rows), "Node"))
    IN  IF ~HasColumn(df, "Router_ID") \/ (ignoreSameNode /\ ~HasColumn(df, "Node"))
        THEN EmptyFrame
        ELSE IF ignoreSameNode
        THEN KeepGroups(df, {rows \in GroupBy(df, <<"Router_ID">>) :
                                NodesIn(rows) > 1 /\ NodesIn(rows) # Cardinality(rows)})
        ELSE Filter(df, Duplicated(df, <<"Router_ID">>))

(* The protocols are asked about in any order, up to the first that fails:  *)
(* the results that are possible.                                           *)
AssertNoDuplicateRouterIDs(protocols, replies, ignoreSameNode, soft) ==
    LET fetched == ProtocolsToFetch(protocols)
        frames == [p \in fetched |-> AskQuestionFrame(replies[p])]
        Fails(p) == frames[p] \in {Invalid, Panic}
    IN  CASE ~(fetched \subseteq Supported) -> {OtherError}
          [] \E p \in fetched : Fails(p) ->
                {IF frames[p] = Panic THEN Panicked ELSE OtherError : p \in {q \in fetched : Fails(q)}}
          [] OTHER ->
                {PassIf(\A p \in fetched : DuplicateRouterIDs(frames[p], ignoreSameNode).rows = 0,
                        soft)}

-----------------------------------------------------------------------------
(* AssertNumResults of a frame, a table or another answer.                  *)
ToIntValue(v) == IF IsNumeric(v) THEN v.value ELSE 0

Summary(a) == IF a.kind = "map" THEN Lookup(a.entries, "summary") ELSE Nil
NumResults(a) ==
    IF a.kind \in {"frame", "table"} THEN a.frame.rows
    ELSE ToIntValue(Lookup(Summary(a).entries, "numResults"))

AssertNumResults(a, num, soft) ==
    IF a.kind \in {"frame", "table"} \/ Summary(a).kind = "map"
    THEN PassIf(NumResults(a) = num, soft)
    ELSE OtherError
=============================================================================
