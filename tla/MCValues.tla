------------------------------ MODULE MCValues ------------------------------
(***************************************************************************)
(* The pure functions of the packages question, datamodel, answer,         *)
(* dataframe and client on bounded inputs.  A behaviour either edits a     *)
(* text (MCVariableTypes) or holds one sample of the other inputs.         *)
(***************************************************************************)
EXTENDS MCVariableTypes, Asserts, HeaderSpace, TLC
LOCAL Seqs == INSTANCE SequencesExt
LOCAL Funs == INSTANCE Functions

VARIABLE sample

UpTo(S, n) == UNION {[1..k -> S] : k \in 0..n}

-----------------------------------------------------------------------------
(* Elements: one of every type with every field filled, those that differ   *)
(* from it in one field, and what an empty dictionary is read as.           *)
RECURSIVE Full(_)
Values(f) ==
    LET how == f.accessor[1]
        of == f.accessor[2]
        Each(u) == {Full(Unions[u][v]) : v \in DOMAIN Unions[u]}
    IN  CASE how \in {"string", "inside"} -> {Str("a")}
          [] how \in {"optional string", "optional inside"} -> {Str("a"), Nil}
          [] how = "int" -> {Num(1)}
          [] how = "optional int" -> {Num(1), Num(0), Nil}
          [] how = "bool" -> {Bool(TRUE)}
          [] how = "optional bool" -> {Bool(TRUE), Bool(FALSE), Nil}
          [] how = "any" -> {Num(1), Nil, Map([a |-> List(<<Str("b")>>)])}
          [] how = "slice" -> {List(<<Str("a"), Num(1)>>), List(<<>>)}
          [] how \in {"strings", "string list"} -> {List(<<Str("a"), Str("b")>>)}
          [] how = "ints" -> {List(<<Num(2), Num(1)>>)}
          [] how = "int lists" -> {Map([a |-> List(<<Num(2), Num(1)>>)])}
          [] how = "string maps" -> {Map([a |-> Map([b |-> Str("c")])])}
          [] how = "long space" -> {Text(<<"1", "2">>), Nil}
          [] how = "assertion type" -> {Str("equals"), Str("other")}
          [] how = "element" -> {Full(of)}
          [] how = "pointer" -> {Full(of), NilPointer(of)}
          [] how = "union" -> Each(of) \cup {Nil}
          [] how = "scope" -> {Full("IncomingSessionScope"), Full("OriginatingSessionScope"), Nil}
          [] how = "step detail" -> Each("StepDetail") \cup {Nil}
          [] how = "list" -> {List(<<Full(of)>>), List(<<>>)}
          [] how = "steps" -> {List(<<Full("Step")>>), List(<<>>)}
          [] how = "unions" -> {List(<<v>>) : v \in Each(of)}

Full(t) ==
    Element(t, [tag \in Tags(t) |->
                   IF tag = "children" THEN List(<<>>)
                   ELSE CHOOSE v \in Values(FieldOf(t, tag)) : v \notin {Nil, List(<<>>)}])

With(x, tag, v) == Element(x.type, [x.fields EXCEPT ![tag] = v])
ElementsOf(t) ==
    {Full(t), FromDict(t, EmptyMap)} \cup
    UNION {{With(Full(t), tag, v) : v \in Values(FieldOf(t, tag))} : tag \in Tags(t) \ {"children"}}

ElementSamples ==
    {[kind |-> "element", value |-> v] : v \in UNION {ElementsOf(t) : t \in Types} \ {Invalid}}

(* What the service sends and nobody sends back: their FromDict reads what  *)
(* the service writes, and their Dict writes something else.                *)
AnswerOnly == {"ArpErrorStepDetail", "DeliveredStepDetail", "EnterInputIfaceStepDetail",
               "ExitOutputIfaceStepDetail", "FilterStepDetail", "TransformationStepDetail",
               "ForwardOutInterface", "Step", "Hop", "TraceElement", "AutoCompleteSuggestion"}

RECURSIVE HoldsAnswerOnly(_)
HoldsAnswerOnly(v) ==
    \/ v.kind = "element" /\ v.type \in AnswerOnly
    \/ v.kind = "element" /\ "sessionScope" \in DOMAIN v.fields
    \/ \E p \in Parts(v) : HoldsAnswerOnly(p)

ReadBack(x) == FromDict(x.type, Dict(x))

(* What Dict writes of an element FromDict reads back as the same element,  *)
(* whatever variants and optional values are in it, unless it is of a type  *)
(* that only occurs in answers; and of those none comes back whole.         *)
ReadsBackWhatItWrites ==
    sample.kind = "element" /\ ~DictPanics(sample.value) =>
        LET x == sample.value
        IN  /\ ~HoldsAnswerOnly(x) => ReadBack(x) = x
            /\ x.type \in AnswerOnly /\ x = Full(x.type) => ReadBack(x) # x

-----------------------------------------------------------------------------
(* Answers of two rows: cells of traces whose steps are known, unknown,     *)
(* incomplete or not even objects, and cells that do not fit their schema.  *)
Columns(ts) == [i \in DOMAIN ts |-> Map([name |-> Str(ts[i][1]), schema |-> Text(ts[i][2])])]
RowList(rows) == List([i \in DOMAIN rows |-> Map(rows[i])])
TableOf(columns, rows) ==
    [answerElements |-> List(<<Map([class |-> TableClass,
        metadata |-> Map([columnMetadata |-> List(Columns(columns))]),
        rows |-> RowList(rows),
        excludedRows |-> List(<<Map([exclusionName |-> Str("e"), rows |-> RowList(<<>>)]),
                                Map([exclusionName |-> Str("e"), rows |-> RowList(rows)])>>)])>>)]

StepJson(type, detail) == Map([type |-> Str(type), action |-> Str("a"), detail |-> detail])
Scopes == {EmptyMap, [sessionScope |-> Str("a")], [sessionScope |-> Map(EmptyMap)],
           [sessionScope |-> Map([incomingInterfaces |-> List(<<Str("a")>>)])],
           [sessionScope |-> Map([originatingVrf |-> Str("a")])]}
Actions == {EmptyMap, [sessionAction |-> Nil]} \cup
           {[sessionAction |-> Map([type |-> Str(t)])] : t \in {"FibLookup", "Accept", "Later"}}
FlowDetails == {Map(EmptyMap), Map([flow |-> Nil]), Map([flow |-> Map(EmptyMap)])}

StepJsons ==
    {StepJson(t, Map(s @@ a)) : t \in {"MatchSession", "SetupSession"}, s \in Scopes, a \in Actions}
    \cup {StepJson("Filter", d) : d \in FlowDetails}
    \cup {StepJson("Routing", Map([forwardingDetail |-> Map([type |-> Str("Later")])])),
          StepJson("Later", Map(EmptyMap)), StepJson("Loop", Nil), Nil, Str("a")}

TraceJson(steps) ==
    Map([disposition |-> Str("ACCEPTED"),
         hops |-> List(<<Map([node |-> Map([name |-> Str("n")]), steps |-> List(steps)])>>)])
FlowTraceJson(hops) == Map([disposition |-> Str("ACCEPTED"), hops |-> List(hops)])
HopJsons == {Map(EmptyMap), Map([transformedFlow |-> Nil]), Map([transformedFlow |-> Map(EmptyMap)])}
TreeJsons == {Nil, Map(EmptyMap), Map([children |-> List(<<Nil>>)])}

Cells ==
    [schema : {<<"List", "Trace">>}, json : {List(<<TraceJson(steps)>>) : steps \in UpTo(StepJsons, 1)}]
    \cup [schema : {<<"Trace">>}, json : {TraceJson(steps) : steps \in UpTo(StepJsons, 2)}]
    \cup [schema : {<<"FlowTrace">>}, json : {FlowTraceJson(hops) : hops \in UpTo(HopJsons, 2)}]
    \cup [schema : {<<"List", "TraceTree">>}, json : {List(trees) : trees \in UpTo(TreeJsons, 2)}]
    \cup [schema : {<<"set", "Integer">>, <<"Integer">>, <<"NextHop">>, <<"Node">>, <<"Later">>},
          json : {Nil, Float(3), Str("3"), Text(<<"3", "x">>), List(<<Float(3), Nil>>), Map([name |-> Str("3")]),
                  Map([type |-> Str("vtep"), vni |-> Float(1), vtep |-> Str("a")]),
                  Map([type |-> Str("later")])}]
    \cup [schema : {<<"SelfDescribing">>},
          json : {Map([schema |-> Text(schema), value |-> v]) :
                     schema \in {<<"Integer">>, <<"NextHop">>, <<"List", "TraceTree">>},
                     v \in {Str("3"), Map([type |-> Str("discard")]), List(<<Nil>>)}}]

Beside == {[schema |-> <<"String">>, json |-> Str("a")], [schema |-> <<"NextHop">>, json |-> Str("a")]}
AnswerSamples == [kind : {"answer"}, cell : Cells, beside : Beside]

Names == <<"A", "B">>
TableFor(cells) ==
    GetAnswer(TableOf([i \in DOMAIN cells |-> <<Names[i], cells[i].schema>>],
        <<[k \in {Names[i] : i \in DOMAIN cells} |-> cells[IF k = "A" THEN 1 ELSE 2].json],
          EmptyMap>>))

(* Where an object is missing, in the JSON: of steps, hops and tree lists.  *)
Steps(json) ==
    LET traces == IF json.kind = "list" THEN json.items ELSE <<json>>
        hops == Seqs!FlattenSeq([i \in DOMAIN traces |-> SliceField(Entries(traces[i]), "hops")])
    IN  Seqs!FlattenSeq([i \in DOMAIN hops |-> SliceField(Entries(hops[i]), "steps")])
TypeOf(json) == Lookup(Entries(json), "type")
Detail(json) == MapField(Entries(json), "detail")
Has(map, key) == Lookup(map, key).kind = "map"

NoFlow(step) == TypeOf(step) = Str("Filter") /\ ~Has(Detail(step), "flow")
NoScopeOrAction(step) ==
    LET scope == MapField(Detail(step), "sessionScope")
        action == MapField(Detail(step), "sessionAction")
    IN  /\ TypeOf(step) \in {Str("MatchSession"), Str("SetupSession")}
        /\ \/ Has(Detail(step), "sessionScope")
              /\ DOMAIN scope \cap {"incomingInterfaces", "originatingVrf"} = {}
           \/ Lookup(action, "type") \notin {Str("Accept"), Str("FibLookup")}
NullTree(cell) ==
    \/ cell.schema = <<"List", "TraceTree">> /\ Nil \in Seqs!ToSet(cell.json.items)
    \/ cell.schema = <<"SelfDescribing">> /\ cell.json.entries["value"] = List(<<Nil>>)
       /\ cell.json.entries["schema"] = Text(<<"List", "TraceTree">>)

LaterStep(step) == TypeOf(step) \in {Nil, Str("Later")}
WithoutLater(json) == TraceJson(SelectSeq(Steps(json), LAMBDA step : ~LaterStep(step)))

TableIs(table, cell, beside) ==
    /\ table = Panic <=> NullTree(cell)
    /\ table # Panic =>
          /\ table.frame.rows = 2
          /\ Col(table.frame, "B") = Col(TableFor(<<beside>>).frame, "A")
          /\ At(Col(table.frame, "A"), 2) = Nil
          /\ Drop(table.frame, {"B"}) = TableFor(<<cell>>).frame
          /\ ExcludedFrame(table, Str("e")) = table.frame

ValueIs(value, cell) ==
    /\ cell.schema \in {<<"Trace">>, <<"List", "Trace">>} =>
          /\ DictPanics(value) <=> \E step \in Seqs!ToSet(Steps(cell.json)) : NoFlow(step)
          /\ StringPanics(value) <=>
                \E step \in Seqs!ToSet(Steps(cell.json)) : NoScopeOrAction(step)
    /\ cell.schema = <<"Trace">> =>
          value = ParseJSONWithSchema(<<"Trace">>, WithoutLater(cell.json))
    /\ cell.schema = <<"FlowTrace">> =>
          (DictPanics(value) <=> \E hop \in Seqs!ToSet(cell.json.entries["hops"].items) :
                                    ~Has(hop.entries, "transformedFlow"))

(* Whatever a cell holds, the table has every row and every other cell as   *)
(* it would be without it, excluded rows are read like the others, and a    *)
(* trace is read as if steps of unknown types were not there; no answer     *)
(* makes the program panic but a null in a list of trees when it is read, a *)
(* hop or a filter step without its flow when it is written again, and a    *)
(* session step with an unknown scope or action when it is printed.         *)
AnswerReadsCellByCell ==
    sample.kind = "answer" =>
        /\ TableIs(TableFor(<<sample.cell, sample.beside>>), sample.cell, sample.beside)
        /\ ValueIs(At(Col(TableFor(<<sample.cell, sample.beside>>).frame, "A"), 1), sample.cell)

-----------------------------------------------------------------------------
(* Flows, in pairs that differ in one field at most, and header constraints *)
(* whose fields have any of the shapes that callers use.                    *)
BaseFlow ==
    [f \in Tags("Flow") |->
        CASE f \in {"srcIp", "dstIp"} -> Str("a")
          [] f \in {"srcPort", "dstPort"} -> Num(1)
          [] f \in {"dscp", "ecn", "fragmentOffset"} -> Num(0)
          [] f = "ipProtocol" -> Str("TCP")
          [] OTHER -> Nil]
FieldValues ==
    [srcIp |-> {Str("a"), Str("b")}, dstIp |-> {Str("a"), Str("b")},
     srcPort |-> {Nil, Num(1), Num(2)}, dstPort |-> {Nil, Num(1), Num(2)},
     ipProtocol |-> {Str("TCP"), Str("UDP"), Str("ICMP"), Str("tcp"), Str("OSPF")},
     icmpCode |-> {Nil, Num(0), Num(1)}, icmpVar |-> {Nil, Num(0)},
     tcpFlagsAck |-> {Nil, Num(0), Num(1)}, tcpFlagsSyn |-> {Nil, Num(1)},
     fragmentOffset |-> {Num(0), Num(1)}, packetLength |-> {Nil, Float(1)}, dscp |-> {Num(0), Num(1)}]

OneChange(flow) ==
    {flow} \cup UNION {{[flow EXCEPT ![f] = v] : v \in FieldValues[f]} : f \in DOMAIN FieldValues}
FlowSamples ==
    {[kind |-> "flow", flow |-> f, other |-> g] : <<f, g>> \in
        UNION {{<<[f EXCEPT !["ipProtocol"] = p], g>> : g \in OneChange([f EXCEPT !["ipProtocol"] = p])} :
                  f \in OneChange(BaseFlow), p \in FieldValues["ipProtocol"]}}

Unset == [field \in HeaderFields |-> Nil]
Shapes == {Nil, Str(""), Text(<<"1", "2">>), Text(<<"", "1">>), List(<<Num(1), Str("2")>>),
           List(<<Str("1"), Str("2")>>), List(<<>>), Float(1), Bool(TRUE), Map(EmptyMap),
           Full("MatchTcpFlags"), List(<<Full("MatchTcpFlags")>>)}
HeaderSamples ==
    [kind : {"headers"},
     headers : {[Unset EXCEPT !["srcPorts"] = a, !["ipProtocols"] = b, !["tcpFlags"] = c] :
                   a \in Shapes, b \in Shapes, c \in Shapes}]

ArgumentSamples ==
    [kind : {"arguments"},
     given : [Arguments -> {Str(""), Text(<<"", "">>), Text(<<"1", "", "2">>)}]]

(* What constraints mean: a flow has a value of every field that is given.  *)
Constrained ==
    [srcIps |-> "srcIp", dstIps |-> "dstIp", srcPorts |-> "srcPort", dstPorts |-> "dstPort",
     icmpCodes |-> "icmpCode", icmpTypes |-> "icmpVar", fragmentOffsets |-> "fragmentOffset",
     packetLengths |-> "packetLength", ecns |-> "ecn", dscps |-> "dscp"]
FlagsMatch(m, flow) ==
    \A flag \in DOMAIN FlowFlag :
        m.fields[UseFlag[flag]] = Bool(TRUE) =>
            m.fields["tcpFlags"].fields[flag] = Bool(flow[FlowFlag[flag]] \notin {Nil, Num(0)})
Admits(h, flow) ==
    /\ \A field \in DOMAIN Constrained :
          h[field] # Nil => \E k \in DOMAIN h[field].parts :
                               Str(h[field].parts[k]) = Sprint(flow[Constrained[field]])
    /\ h["ipProtocols"] # Nil => flow["ipProtocol"] \in Seqs!ToSet(h["ipProtocols"].items)
    /\ h["tcpFlags"] # Nil => \E m \in Seqs!ToSet(h["tcpFlags"].items) : FlagsMatch(m, flow)

(* The fields on which a flow is told apart, if it has a value there.       *)
Pinned(flow) ==
    {"srcIp", "dstIp", "ipProtocol", "fragmentOffset", "packetLength"}
    \cup (IF /\ flow["ipProtocol"] \in {Str("TCP"), Str("UDP")}
             /\ Nil \notin {flow["srcPort"], flow["dstPort"]} THEN {"srcPort", "dstPort"} ELSE {})
    \cup (IF flow["ipProtocol"] = Str("ICMP") THEN {"icmpCode", "icmpVar"} ELSE {})
Agree(flow, other) ==
    /\ \A f \in Pinned(flow) : flow[f] # Nil => flow[f] = other[f]
    /\ flow["ipProtocol"] \in {Str("TCP"), Str("tcp")} => FlagsOf(flow) = FlagsOf(other)

ReadHeaders(h) == Normalize(HeaderConstraintsFromDict(HeaderConstraintsDict(h)))

(* The constraints made from a flow admit exactly the flows that agree with *)
(* it on addresses, protocol, ports, ICMP codes and flags, also after they  *)
(* were written and read; normalizing is all or nothing, done once is done  *)
(* for good, and gives the same whether a list or a text was given; of the  *)
(* arguments of a tool it refuses only lists of nothing but commas.         *)
ConstraintsAdmitTheirFlow ==
    /\ sample.kind = "flow" =>
          LET h == HeaderConstraintsOf(sample.flow)
          IN  /\ Admits(h, sample.flow)
              /\ Admits(h, sample.other) <=> Agree(sample.flow, sample.other)
              /\ ReadHeaders(h) = [h EXCEPT !["tcpFlags"] = Nil]
    /\ sample.kind = "headers" =>
          LET h == sample.headers
              Both(v) == [h EXCEPT !["srcPorts"] = v, !["ipProtocols"] = v]
          IN  /\ Normalize(Normalize(h)) = Normalize(h)
              /\ Normalize(h) # h => \A field \in HeaderFields :
                    Normalize(h)[field].kind = "nil" <=> h[field].kind = "nil"
              /\ Normalize(Both(Text(<<"1", "2">>))) = Normalize(Both(List(<<Str("1"), Str("2")>>)))
                    \/ NormalizeFails(Both(Nil))
    /\ sample.kind = "arguments" =>
          LET h == BuildHeaderConstraints(sample.given)
              commas == {a \in Arguments : sample.given[a] = Text(<<"", "">>)}
          IN  /\ NormalizeFails(h) <=> commas \cap Lists # {}
              /\ \A field \in HeaderFields : HeaderConstraintsDict(h)[field] = Nil <=>
                    field \notin Arguments \/ sample.given[field] = Str("")

-----------------------------------------------------------------------------
(* Routes of one VRF of node "n", expected routes, and what is asked for.   *)
Hops == {Map([a |-> Str("1")]), Map([a |-> Str("1"), b |-> Str("2")]), Map([b |-> Str("2")])}
RouteRecords ==
    {[Metric |-> m, Hops |-> List(hops)] : m \in {Num(1)}, hops \in UpTo(Hops, 2)}
    \cup {[Metric |-> Num(2), Hops |-> Nil]}
Expectations ==
    {[Metric |-> Num(1)], [Metric |-> Num(2)], [Metric |-> Float(1)], [Tag |-> Nil], EmptyMap}
    \cup {[Hops |-> List(hops)] : hops \in UpTo(Hops \cup {Str("1")}, 2)}
RouteSamples ==
    [kind : {"routes"}, records : UpTo(RouteRecords, 1) \cup UpTo({[Metric |-> Num(1), Hops |-> List(hops)] :
                                     hops \in {<<>>, <<Map([a |-> Str("1")])>>}}, 2),
     expected : Expectations, node : {"n", "m"}, vrf : {"v", "w"}, soft : BOOLEAN]

RouteColumns == <<<<"Node", <<"Node">>>>, <<"VRF", <<"String">>>>,
                  <<"Metric", <<"Integer">>>>, <<"Hops", <<"List", "Hop">>>>>>
RouteFrame(records) ==
    GetAnswer(TableOf(RouteColumns,
        [i \in DOMAIN records |->
            [Node |-> Map([name |-> Str("n")]), VRF |-> Str("v")] @@ records[i]])).frame

(* What a match is: lists in any order, by some assignment.                 *)
RECURSIVE IsPart(_, _)
IsPart(actual, expected) ==
    CASE expected.kind = "map" ->
            /\ actual.kind = "map" /\ DOMAIN expected.entries \subseteq DOMAIN actual.entries
            /\ \A k \in DOMAIN expected.entries : IsPart(actual.entries[k], expected.entries[k])
      [] expected.kind = "list" ->
            /\ actual.kind = "list" /\ Len(actual.items) = Len(expected.items)
            /\ \E p \in Funs!Bijection(DOMAIN expected.items, DOMAIN actual.items) :
                  \A i \in DOMAIN expected.items : IsPart(actual.items[p[i]], expected.items[i])
      [] OTHER -> actual = expected

(* Two expected items of which one is a part of the other: the greedy       *)
(* matching may give the wrong one away.                                    *)
Ambiguous(expected) ==
    \E k \in DOMAIN expected : \E i, j \in DOMAIN Items(expected[k]) :
        i # j /\ Items(expected[k])[i] # Items(expected[k])[j]
        /\ \E hop \in Hops : IsPart(hop, Items(expected[k])[i]) /\ IsPart(hop, Items(expected[k])[j])
HasList(expected) == \E k \in DOMAIN expected : expected[k].kind = "list"

(* What AssertHasRoute and AssertHasNoRoute say of the sample's routes, in  *)
(* each of the two forms.                                                   *)
There == sample.node = "n" /\ sample.vrf = "v"
Verdicts(routes, expected) ==
    <<AssertHasRoute(routes, expected, sample.soft), AssertHasNoRoute(routes, expected, sample.soft)>>
OfMap(expected) ==
    Verdicts(DictRoutes([k \in {"n"} |-> [j \in {"v"} |-> sample.records]], sample.node, sample.vrf),
             expected)
OfFrame(expected) ==
    Verdicts(FrameRoutes(RouteFrame(sample.records), sample.node, sample.vrf), expected)

(* A route found to match is one, by the documented meaning of a match, and *)
(* one that matches is found: in a map unless two expected list items can   *)
(* stand for one item, in a frame unless a list is expected (MatchIgnores-  *)
(* Order and FormsOfRoutesAgree are about the rest); of AssertHasRoute and  *)
(* AssertHasNoRoute exactly one passes, whether node and VRF are there or   *)
(* not, and the forms agree on routes without expected lists.               *)
RouteAssertionsAgree ==
    sample.kind = "routes" =>
        LET ofMap == OfMap(sample.expected)
            ofFrame == OfFrame(sample.expected)
            matches == There /\ \E i \in DOMAIN sample.records :
                                   IsPart(Map(sample.records[i]), Map(sample.expected))
        IN  /\ (ofMap[1] = Passed) # (ofMap[2] = Passed)
            /\ (ofFrame[1] = Passed) # (ofFrame[2] = Passed)
            /\ Passed \in {ofMap[1], ofFrame[1]} => matches
            /\ matches /\ ~Ambiguous(sample.expected) => ofMap[1] = Passed
            /\ ~HasList(sample.expected) => (ofFrame[1] = Passed <=> matches)
            /\ Verdicts(Missing("neither"), sample.expected) = <<OtherError, OtherError>>

(* The comment on isDictMatch (asserts.go:477): lists are compared          *)
(* order-insensitively.  Turning an expected list round changes nothing.    *)
Turned(expected) ==
    [k \in DOMAIN expected |->
        IF expected[k].kind = "list" THEN List(Seqs!Reverse(expected[k].items)) ELSE expected[k]]
MatchIgnoresOrder ==
    sample.kind = "routes" => OfMap(Turned(sample.expected)) = OfMap(sample.expected)

(* docs/asserts.md:61: the route assertions accept either a data frame or a *)
(* map.  The same routes give the same verdict in either form.              *)
FormsOfRoutesAgree ==
    sample.kind = "routes" /\ sample.records # <<>> =>
        OfFrame(sample.expected) = OfMap(sample.expected)

(* docs/asserts.md:46: soft assertions do not return an error.              *)
SoftReturnsNoError ==
    sample.kind = "routes" /\ sample.soft =>
        \A verdict \in {OfMap(sample.expected)[k] : k \in {1, 2}} : verdict[2] = "none"

-----------------------------------------------------------------------------
(* A network, as the rows that the service has for a question, each told    *)
(* by its label; and the variable that selects rows by their label.         *)
Labels ==
    [searchFilters |-> {"permit", "deny"},
     reachability |-> {"success", "failure"},
     bgpSessionCompatibility |-> {"UNIQUE_MATCH", "DYNAMIC_MATCH", "UNKNOWN_REMOTE",
                                  "NO_REMOTE_AS", "HALF_OPEN"},
     bgpSessionStatus |-> {"ESTABLISHED", "NOT_ESTABLISHED", "NOT_COMPATIBLE"},
     ospfSessionCompatibility |-> {"ESTABLISHED", "NO_SESSION", "MTU_MISMATCH"},
     filterLineReachability |-> {"row"}, undefinedReferences |-> {"row"},
     detectLoops |-> {"row"}]
Selector == [searchFilters |-> "action", reachability |-> "actions",
             bgpSessionCompatibility |-> "status", bgpSessionStatus |-> "status",
             ospfSessionCompatibility |-> "statuses"]
Selected(asked, label) ==
    LET by == IF asked.question \in DOMAIN Selector
              THEN Lookup(asked.vars, Selector[asked.question]) ELSE Nil
    IN  \/ by \in {Nil, Str(label)}
        \/ by = UnestablishedOSPFSSessionStatusSpec /\ label # "ESTABLISHED"

Reply(asked, network, how) ==
    LET rows == Seqs!SetToSeq({label \in network : Selected(asked, label)})
        OneElement(fields) == [answerElements |-> List(<<Map(fields)>>)]
        Sent == CASE how = "table" ->
                        TableOf(<<<<"Configured_Status", <<"String">>>>>>,
                                [i \in DOMAIN rows |-> [Configured_Status |-> Str(rows[i])]])
                  [] how = "other answer" -> OneElement([summary |-> Map(EmptyMap)])
                  [] how = "no metadata" -> OneElement([class |-> TableClass])
    IN  IF how = "failure" THEN Invalid ELSE GetAnswer(Sent)

(* What each assertion says of the network.                                 *)
Says(assertion, in, network) ==
    CASE assertion = "AssertFilterDenies" -> "permit" \notin network
      [] assertion = "AssertFilterPermits" -> "deny" \notin network
      [] assertion = "AssertFlowsFail" -> "success" \notin network
      [] assertion = "AssertFlowsSucceed" -> "failure" \notin network
      [] assertion = "AssertNoIncompatibleBGPSessions" ->
            IF in.status = Nil
            THEN network \subseteq {"UNIQUE_MATCH", "DYNAMIC_MATCH", "UNKNOWN_REMOTE"}
            ELSE in.status.parts[1] \notin network
      [] assertion = "AssertNoIncompatibleOSPFSessions" -> network \subseteq {"ESTABLISHED"}
      [] assertion = "AssertNoUnestablishedBGPSessions" -> "NOT_ESTABLISHED" \notin network
      [] OTHER -> network = {}

QuestionOf ==
    [AssertFilterDenies |-> "searchFilters", AssertFilterPermits |-> "searchFilters",
     AssertFlowsFail |-> "reachability", AssertFlowsSucceed |-> "reachability",
     AssertNoIncompatibleBGPSessions |-> "bgpSessionCompatibility",
     AssertNoIncompatibleOSPFSessions |-> "ospfSessionCompatibility",
     AssertNoUnestablishedBGPSessions |-> "bgpSessionStatus",
     AssertFilterHasNoUnreachableLines |-> "filterLineReachability",
     AssertNoUndefinedReferences |-> "undefinedReferences",
     AssertNoForwardingLoops |-> "detectLoops"]
Inputs ==
    [status : {Nil, Str("UNIQUE_MATCH"), Str("HALF_OPEN")}, nodes : {Nil, Str("n")},
     remoteNodes : {Nil}, startLocation : {Nil, Str("l")}, filters : {Str("f")},
     headers : {Map(EmptyMap)}]
AssertionSamples ==
    UNION {[kind : {"assertion"}, assertion : {a}, in : Inputs,
            network : SUBSET Labels[QuestionOf[a]],
            how : {"table", "other answer", "no metadata", "failure"}, soft : BOOLEAN] : a \in DOMAIN QuestionOf}

RouterRows == [id : {"1", "2"}, node : {"n", "m"}]
RouterSamples ==
    [kind : {"routers"}, bgp : UpTo(RouterRows, 3), ospf : UpTo(RouterRows, 1) \cup
        {<<[id |-> "1", node |-> "n"], [id |-> "1", node |-> "m"]>>},
     protocols : {Nil, List(<<>>), List(<<"BGP">>), List(<<"bgp", "rip">>)}, failing : {{}, {"ospf"}},
     ignoreSameNode : BOOLEAN, soft : BOOLEAN]

RouterReply(rows) ==
    GetAnswer(TableOf(<<<<"Router_ID", <<"String">>>>, <<"Node", <<"Node">>>>>>,
        [i \in DOMAIN rows |-> [Router_ID |-> Str(rows[i].id),
                                Node |-> Map([name |-> Str(rows[i].node)])]]))

(* Two rows with one id, of two nodes, and of two nodes one of which has    *)
(* the id in a third row too.                                               *)
Repeated(rows) == \E i, j \in DOMAIN rows : i # j /\ rows[i].id = rows[j].id
Shared(rows) == \E i, j \in DOMAIN rows : rows[i].id = rows[j].id /\ rows[i].node # rows[j].node
SharedAndRepeated(rows) ==
    \E i, j, k \in DOMAIN rows :
        /\ rows[i].id = rows[j].id /\ rows[j].id = rows[k].id
        /\ i # j /\ rows[i].node = rows[j].node /\ rows[j].node # rows[k].node

CountSamples == [kind : {"count"}, rows : 0..2, num : 0..2, soft : BOOLEAN]

(* The protocols asked for, whatever their case, and what comes of it.      *)
RouterIDs == [bgp |-> sample.bgp, ospf |-> sample.ospf]
Wanted ==
    CASE sample.protocols = Nil -> {"bgp", "ospf"}
      [] sample.protocols.items = <<"BGP">> -> {"bgp"}
      [] OTHER -> Seqs!ToSet(sample.protocols.items)
RouterVerdicts ==
    AssertNoDuplicateRouterIDs(sample.protocols,
        [p \in {"bgp", "ospf"} |->
            IF p \in sample.failing THEN Invalid ELSE RouterReply(RouterIDs[p])],
        sample.ignoreSameNode, sample.soft)

(* An assertion passes exactly if the network has what it says and every    *)
(* question was answered by a table; it is an assertion error, or with soft *)
(* just no success, exactly if the network has not; a service that fails or *)
(* answers something else is an error, soft or not.  Router ids are found   *)
(* to be duplicated in whichever protocol they are; with ignoreSameNode     *)
(* never if no two nodes share one, and always if they do and one of them   *)
(* has it twice (RouterIDsAreUnique is about the rest).  The forms of an    *)
(* answer count the same number of results.                                 *)
AssertionsSayWhatTheyName ==
    /\ sample.kind = "assertion" =>
          AssertNoneFound(sample.assertion, sample.in,
              Reply(Asks(sample.assertion, sample.in), sample.network, sample.how), sample.soft) =
            IF sample.how = "table"
            THEN PassIf(Says(sample.assertion, sample.in, sample.network), sample.soft)
            ELSE OtherError
    /\ sample.kind = "routers" =>
          LET refused == "rip" \in Wanted \/ Wanted \cap sample.failing # {}
              failed == {RaiseCommon(sample.soft)}
          IN  /\ refused <=> RouterVerdicts = {OtherError}
              /\ ~refused => RouterVerdicts \in {{Passed}, failed}
              /\ ~refused /\ ~sample.ignoreSameNode =>
                    (RouterVerdicts = failed <=> \E p \in Wanted : Repeated(RouterIDs[p]))
              /\ ~refused /\ sample.ignoreSameNode =>
                    /\ RouterVerdicts = failed => \E p \in Wanted : Shared(RouterIDs[p])
                    /\ (\E p \in Wanted : SharedAndRepeated(RouterIDs[p])) => RouterVerdicts = failed
    /\ sample.kind = "count" =>
          LET frame == RouteFrame([i \in 1..sample.rows |-> [Metric |-> Num(1), Hops |-> Nil]])
              Counted(a) == AssertNumResults(a, sample.num, sample.soft)
          IN  /\ Counted([kind |-> "frame", frame |-> frame]) = PassIf(sample.rows = sample.num, sample.soft)
              /\ Counted(Map([summary |-> Map([numResults |-> Float(sample.rows)])])) =
                    Counted([kind |-> "frame", frame |-> frame])
              /\ Counted(Map(EmptyMap)) = OtherError

(* The comment on AssertNoDuplicateRouterIDs (asserts.go:398): it asserts   *)
(* that there are no duplicate router IDs.  If it passes, no two nodes      *)
(* share one.                                                               *)
RouterIDsAreUnique ==
    sample.kind = "routers" /\ RouterVerdicts = {Passed} =>
        \A p \in Wanted : ~Shared(RouterIDs[p])

-----------------------------------------------------------------------------
NoSample == [kind |-> "none"]

ValuesInit ==
    \/ Init /\ sample = NoSample
    \/ /\ text = <<>> /\ edits = MaxEdits
       /\ \/ sample \in ElementSamples
          \/ sample \in AnswerSamples
          \/ sample \in FlowSamples
          \/ sample \in HeaderSamples
          \/ sample \in ArgumentSamples
          \/ sample \in RouteSamples
          \/ sample \in AssertionSamples
          \/ sample \in RouterSamples
          \/ sample \in CountSamples

ValuesNext == Edit /\ UNCHANGED sample

ValuesSpec == ValuesInit /\ [][ValuesNext]_<<text, edits, sample>>

-----------------------------------------------------------------------------
(* Soft assertions called one after the other: on one route with two hops,  *)
(* and on up to two rows with router ids.                                   *)
TwoHops == [Metric |-> Num(1), Hops |-> List(<<Map([a |-> Str("1"), b |-> Str("2")]),
                                               Map([a |-> Str("1")])>>)]
CalledSamples ==
    [kind : {"routes"}, records : {<<TwoHops>>}, expected : Expectations, node : {"n", "m"},
     vrf : {"v"}, soft : {TRUE}]
    \cup [kind : {"routers"}, bgp : UpTo(RouterRows, 2), ospf : {<<>>}, protocols : {Nil},
          failing : {{}}, ignoreSameNode : BOOLEAN, soft : {TRUE}]
Called == sample' \in CalledSamples /\ UNCHANGED <<text, edits>>

CallsInit == text = <<>> /\ edits = MaxEdits /\ sample \in CalledSamples
CallsSpec ==
    CallsInit /\ [][Called]_<<text, edits, sample>> /\ WF_<<text, edits, sample>>(Called)

(* What the code's comments and docs/asserts.md say of the assertions, each *)
(* in its property above.  Of the four one at least is true of all calls: a *)
(* behaviour without that refutes all four.                                 *)
AssertionsAsDocumented ==
    \/ []MatchIgnoresOrder \/ []FormsOfRoutesAgree
    \/ []SoftReturnsNoError \/ []RouterIDsAreUnique
=============================================================================
