------------------------------ MODULE Elements ------------------------------
(***************************************************************************)
(* The elements of package datamodel as tables: which fields a type has,   *)
(* under which key Dict writes each (its json tag), and from which key and *)
(* with which accessor the FromDict constructor reads it.  FromDict, Dict  *)
(* and what makes them panic are then one definition each.                 *)
(***************************************************************************)
EXTENDS DataModel
LOCAL INSTANCE SequencesExt
LOCAL INSTANCE TLC

(* A field is read by an accessor: <<"inside", k>> reads entry k of a map,  *)
(* <<"union", u>> the variant of u that the map says, <<"list", t>> and     *)
(* <<"unions", u>> lists, <<"pointer", t>> an element or a nil pointer.     *)
Field(accessor, tag, key) == [accessor |-> accessor, tag |-> tag, key |-> key]
All(accessor, keys) == {Field(accessor, k, k) : k \in keys}

string == <<"string", "">>
optString == <<"optional string", "">>
int == <<"int", "">>
optInt == <<"optional int", "">>
bool == <<"bool", "">>
any == <<"any", "">>
slice == <<"slice", "">>
strings == <<"strings", "">>

-----------------------------------------------------------------------------
(* flow.go                                                                  *)
Flow ==
    All(int, {"dscp", "ecn", "fragmentOffset"})
    \cup All(string, {"dstIp", "ipProtocol", "srcIp"})
    \cup All(optString, {"ingressInterface", "ingressNode", "ingressVrf"})
    \cup All(optInt, {"dstPort", "icmpCode", "icmpVar", "srcPort",
                      "tcpFlagsAck", "tcpFlagsCwr", "tcpFlagsEce", "tcpFlagsFin",
                      "tcpFlagsPsh", "tcpFlagsRst", "tcpFlagsSyn", "tcpFlagsUrg"})
    \cup All(any, {"packetLength"})

FlowDiff == All(string, {"fieldName", "oldValue", "newValue"})

FlowTrace ==
    All(string, {"disposition"}) \cup All(any, {"notes"})
    \cup All(<<"list", "FlowTraceHop">>, {"hops"})

FlowTraceHop ==
    All(<<"element", "Edge">>, {"edge"}) \cup All(slice, {"routes"})
    \cup All(<<"pointer", "Flow">>, {"transformedFlow"})

ForwardOutInterface ==
    {Field(<<"inside", "hostname">>, "nextHopHostname", "nextHop"),
     Field(<<"inside", "interface">>, "nextHopInterface", "nextHop"),
     Field(string, "outgoingInterface", "outgoingInterface")}

SessionMatchExpr ==
    All(string, {"ipProtocol", "srcIp", "dstIp"})
    \cup All(optInt, {"srcPort", "dstPort"})

IncomingSessionScope == All(strings, {"incomingInterfaces"})
OriginatingSessionScope == All(string, {"originatingVrf"})

ArpErrorStepDetail ==
    All(<<"optional inside", "interface">>, {"outputInterface"})
    \cup All(optString, {"resolvedNexthopIp"})
DeliveredStepDetail ==
    All(<<"optional inside", "interface">>, {"outputInterface"})
    \cup All(optString, {"resolvedNexthopIp"})
EnterInputIfaceStepDetail ==
    All(<<"inside", "interface">>, {"inputInterface"}) \cup All(optString, {"inputVrf"})
ExitOutputIfaceStepDetail ==
    All(<<"inside", "interface">>, {"outputInterface"}) \cup All(any, {"transformedFlow"})
InboundStepDetail == All(string, {"interface"})

(* The scope is an object of its own, or else in the details themselves.    *)
MatchSessionStepDetail ==
    All(<<"scope", "">>, {"sessionScope"})
    \cup All(<<"union", "SessionAction">>, {"sessionAction"})
    \cup All(<<"element", "SessionMatchExpr">>, {"matchCriteria"})
    \cup All(<<"list", "FlowDiff">>, {"transformation"})
SetupSessionStepDetail ==
    All(<<"scope", "">>, {"sessionScope"})
    \cup All(<<"union", "SessionAction">>, {"sessionAction"})
    \cup All(<<"element", "SessionMatchExpr">>, {"matchCriteria"})
    \cup All(<<"list", "FlowDiff">>, {"transformation"})

OriginateStepDetail == All(string, {"originatingVrf"})
FilterStepDetail ==
    All(string, {"filter", "inputInterface"})
    \cup {Field(string, "filterType", "type")}
    \cup All(<<"pointer", "Flow">>, {"flow"})
PolicyStepDetail == All(string, {"policy"})
TransformationStepDetail ==
    All(string, {"transformationType"})
    \cup {Field(<<"list", "FlowDiff">>, "flowDiffs", "transformation")}

DelegatedToNextVrf == All(string, {"nextVrf"})
ForwardedIntoVxlanTunnel == All(int, {"vni"}) \cup All(string, {"vtep"})
ForwardedOutInterface ==
    All(string, {"outputInterface"}) \cup All(optString, {"resolvedNextHopIp"})

RouteInfo ==
    All(string, {"protocol", "network"}) \cup All(int, {"admin", "metric"})
    \cup All(<<"union", "NextHop">>, {"nextHop"}) \cup All(optString, {"nextHopIp"})
RoutingStepDetail ==
    All(<<"list", "RouteInfo">>, {"routes"})
    \cup All(<<"union", "ForwardingDetail">>, {"forwardingDetail"})
    \cup All(optString, {"arpIp", "outputInterface"})

Step == All(<<"step detail", "">>, {"detail"}) \cup All(string, {"action"})
Hop == All(<<"inside", "name">>, {"node"}) \cup All(<<"steps", "">>, {"steps"})
Trace == All(string, {"disposition"}) \cup All(<<"list", "Hop">>, {"hops"})

TcpFlags == All(bool, {"ack", "cwr", "ece", "fin", "psh", "rst", "syn", "urg"})
MatchTcpFlags ==
    All(<<"element", "TcpFlags">>, {"tcpFlags"})
    \cup All(bool, {"useAck", "useCwr", "useEce", "useFin", "usePsh", "useRst",
                    "useSyn", "useUrg"})

PathConstraints ==
    All(optString, {"startLocation", "endLocation", "transitLocations",
                    "forbiddenLocations"})

-----------------------------------------------------------------------------
(* route.go                                                                 *)
BgpRoute ==
    All(string, {"network", "originatorIp", "originType", "protocol"})
    \cup All(slice, {"asPath", "communities"})
    \cup All(int, {"localPreference", "metric", "tag", "weight"})
    \cup All(optString, {"nextHopIp", "srcProtocol"})
BgpRouteConstraints ==
    All(<<"string list", "">>, {"prefix", "communities", "asPath"})
    \cup All(<<"long space", "">>, {"localPreference", "med"})
    \cup All(<<"optional bool", "">>, {"complementPrefix"})
BgpRouteDiff == All(string, {"fieldName", "oldValue", "newValue"})
BgpRouteDiffs == All(<<"list", "BgpRouteDiff">>, {"diffs"})
BgpSessionProperties ==
    All(int, {"localAs", "remoteAs"}) \cup All(string, {"localIp", "remoteIp"})

NextHopInterface == All(string, {"interface"}) \cup All(optString, {"ip"})
NextHopIP == All(string, {"ip"})
NextHopVrf == All(string, {"vrf"})
NextHopVtep == All(int, {"vni"}) \cup All(string, {"vtep"})

-----------------------------------------------------------------------------
(* acl.go                                                                   *)
AclTraceEvent == All(optString, {"description"})
AclTrace == All(<<"list", "AclTraceEvent">>, {"events"})
VendorStructureId == All(string, {"filename", "structureType", "structureName"})
TextFragment == All(string, {"text"})
LinkFragment ==
    All(string, {"text"}) \cup All(<<"element", "VendorStructureId">>, {"vendorStructureId"})
TraceElement == All(<<"unions", "Fragment">>, {"fragments"})
TraceTree ==
    All(<<"element", "TraceElement">>, {"traceElement"})
    \cup All(<<"list", "TraceTree">>, {"children"})

-----------------------------------------------------------------------------
(* primitives.go                                                            *)
Assertion == All(<<"assertion type", "">>, {"type"}) \cup All(any, {"expect"})
AutoCompleteSuggestion ==
    All(optString, {"description", "hint"}) \cup All(int, {"rank"})
    \cup All(string, {"text"})
    \cup {Field(int, "insertion_index", "insertionIndex"),
          Field(bool, "is_partial", "isPartial")}
Interface == All(string, {"hostname", "interface"})
Edge == All(string, {"node1", "node1interface", "node2", "node2interface"})
FileLines == All(string, {"filename"}) \cup All(<<"ints", "">>, {"lines"})

-----------------------------------------------------------------------------
(* referencelibrary.go                                                      *)
AddressGroup == All(string, {"name"}) \cup All(strings, {"addresses", "childGroupNames"})
InterfaceGroup == All(string, {"name"}) \cup All(<<"list", "Interface">>, {"interfaces"})
RoleMapping ==
    All(optString, {"name"}) \cup All(string, {"regex"})
    \cup All(<<"int lists", "">>, {"roleDimensionGroups"})
    \cup All(<<"string maps", "">>, {"canonicalRoleNames"})
NodeRolesData ==
    All(optString, {"defaultDimension"}) \cup All(strings, {"roleDimensionOrder"})
    \cup All(<<"list", "RoleMapping">>, {"roleMappings"})
ReferenceBook ==
    All(string, {"name"})
    \cup All(<<"list", "AddressGroup">>, {"addressGroups"})
    \cup All(<<"list", "InterfaceGroup">>, {"interfaceGroups"})
ReferenceLibrary == All(<<"list", "ReferenceBook">>, {"books"})
-----------------------------------------------------------------------------
(* The constructors that choose a type by an entry of the map: "type", or   *)
(* "class" without its package for fragments.                               *)
SessionActions ==
    [Accept |-> "Accept", PreNatFibLookup |-> "PreNatFibLookup",
     PostNatFibLookup |-> "PostNatFibLookup", FibLookup |-> "PostNatFibLookup",
     ForwardOutInterface |-> "ForwardOutInterface"]
ForwardingDetails ==
    [DelegatedToNextVrf |-> "DelegatedToNextVrf",
     ForwardedIntoVxlanTunnel |-> "ForwardedIntoVxlanTunnel",
     ForwardedOutInterface |-> "ForwardedOutInterface", Discarded |-> "Discarded"]
NextHops ==
    [discard |-> "NextHopDiscard", interface |-> "NextHopInterface",
     ip |-> "NextHopIP", vrf |-> "NextHopVrf", vtep |-> "NextHopVtep"]
Fragments == [TextFragment |-> "TextFragment", LinkFragment |-> "LinkFragment"]
StepDetails ==
    [ArpError |-> "ArpErrorStepDetail", Delivered |-> "DeliveredStepDetail",
     EnterInputInterface |-> "EnterInputIfaceStepDetail",
     ExitOutputInterface |-> "ExitOutputIfaceStepDetail",
     Inbound |-> "InboundStepDetail", Loop |-> "LoopStepDetail",
     MatchSession |-> "MatchSessionStepDetail", Originate |-> "OriginateStepDetail",
     Routing |-> "RoutingStepDetail", SetupSession |-> "SetupSessionStepDetail",
     Transformation |-> "TransformationStepDetail", Policy |-> "PolicyStepDetail",
     Filter |-> "FilterStepDetail"]

Unions == [SessionAction |-> SessionActions, ForwardingDetail |-> ForwardingDetails,
           NextHop |-> NextHops, Fragment |-> Fragments, StepDetail |-> StepDetails]

(* The types without fields.                                                *)
Empty == {"Accept", "PreNatFibLookup", "PostNatFibLookup", "Discarded",
          "NextHopDiscard", "LoopStepDetail"}

Schema ==
    [Flow |-> Flow, FlowDiff |-> FlowDiff, FlowTrace |-> FlowTrace,
     FlowTraceHop |-> FlowTraceHop,
     ForwardOutInterface |-> ForwardOutInterface,
     SessionMatchExpr |-> SessionMatchExpr,
     IncomingSessionScope |-> IncomingSessionScope,
     OriginatingSessionScope |-> OriginatingSessionScope,
     ArpErrorStepDetail |-> ArpErrorStepDetail,
     DeliveredStepDetail |-> DeliveredStepDetail,
     EnterInputIfaceStepDetail |-> EnterInputIfaceStepDetail,
     ExitOutputIfaceStepDetail |-> ExitOutputIfaceStepDetail,
     InboundStepDetail |-> InboundStepDetail,
     MatchSessionStepDetail |-> MatchSessionStepDetail,
     SetupSessionStepDetail |-> SetupSessionStepDetail,
     OriginateStepDetail |-> OriginateStepDetail,
     FilterStepDetail |-> FilterStepDetail,
     PolicyStepDetail |-> PolicyStepDetail,
     TransformationStepDetail |-> TransformationStepDetail,
     DelegatedToNextVrf |-> DelegatedToNextVrf,
     ForwardedIntoVxlanTunnel |-> ForwardedIntoVxlanTunnel,
     ForwardedOutInterface |-> ForwardedOutInterface,
     RouteInfo |-> RouteInfo, RoutingStepDetail |-> RoutingStepDetail,
     Step |-> Step, Hop |-> Hop, Trace |-> Trace, TcpFlags |-> TcpFlags,
     MatchTcpFlags |-> MatchTcpFlags, PathConstraints |-> PathConstraints,
     BgpRoute |-> BgpRoute, BgpRouteConstraints |-> BgpRouteConstraints,
     BgpRouteDiff |-> BgpRouteDiff, BgpRouteDiffs |-> BgpRouteDiffs,
     BgpSessionProperties |-> BgpSessionProperties,
     NextHopInterface |-> NextHopInterface, NextHopIP |-> NextHopIP,
     NextHopVrf |-> NextHopVrf, NextHopVtep |-> NextHopVtep,
     AclTraceEvent |-> AclTraceEvent, AclTrace |-> AclTrace,
     VendorStructureId |-> VendorStructureId, TextFragment |-> TextFragment,
     LinkFragment |-> LinkFragment, TraceElement |-> TraceElement,
     TraceTree |-> TraceTree, Assertion |-> Assertion,
     AutoCompleteSuggestion |-> AutoCompleteSuggestion,
     Interface |-> Interface, Edge |-> Edge, FileLines |-> FileLines,
     AddressGroup |-> AddressGroup, InterfaceGroup |-> InterfaceGroup,
     RoleMapping |-> RoleMapping, NodeRolesData |-> NodeRolesData,
     ReferenceBook |-> ReferenceBook, ReferenceLibrary |-> ReferenceLibrary] @@ [t \in Empty |-> {}]

Types == DOMAIN Schema
Tags(t) == {f.tag : f \in Schema[t]}
FieldOf(t, tag) == CHOOSE f \in Schema[t] : f.tag = tag

Discriminator(u) == IF u = "Fragment" THEN "class" ELSE "type"

VariantOf(u, map) ==
    LET name == StrField(map, Discriminator(u)).parts
    IN  IF Len(name) = 1 /\ name[1] \in DOMAIN Unions[u] THEN Unions[u][name[1]] ELSE "none"

ScopeOf(map) ==
    CASE "incomingInterfaces" \in DOMAIN map -> "IncomingSessionScope"
      [] "originatingVrf" \in DOMAIN map -> "OriginatingSessionScope"
      [] OTHER -> "none"

AssertionTypes ==
    [COUNT_EQUALS |-> "countequals", COUNT_LESSTHAN |-> "countlessthan",
     COUNT_MORETHAN |-> "countmorethan", EQUALS |-> "equals"]

(* What a constructor that fails returns: an error in place of an element.  *)
Invalid == [kind |-> "error"]

AssertionType(v) ==
    CASE v.kind # "text" -> Invalid
      [] v.parts[1] \in DOMAIN AssertionTypes -> Str(AssertionTypes[v.parts[1]])
      [] OTHER -> v

(* The converters of BgpRouteConstraints.                                   *)
StringListBRC(v) ==
    CASE v.kind \in {"nil", "list"} -> List(Items(v))
      [] v.kind = "text" -> List(<<v>>)
      [] OTHER -> Invalid
Join(items) ==
    IF items = <<>> THEN Str("")
    ELSE Text(FlattenSeq([i \in DOMAIN items |-> Sprint(items[i]).parts]))
LongSpaceBRC(v) ==
    CASE v.kind \in {"nil", "text"} -> v
      [] v.kind = "list" -> Join(v.items)
      [] OTHER -> Invalid

-----------------------------------------------------------------------------
RECURSIVE FromDict(_, _)

Variant(u, type, map) == IF type = "none" THEN Nil ELSE FromDict(type, map)

(* sessionScopeFromDictCompat, and the steps that StepFromDict knows.       *)
SessionScope(map) ==
    LET scope == MapField(map, "sessionScope")
    IN  IF Lookup(map, "sessionScope").kind = "map"
        THEN Variant("SessionScope", ScopeOf(scope), scope)
        ELSE FromDict("IncomingSessionScope", map)

Known(u, items) == SelectSeq(items, LAMBDA v : VariantOf(u, Entries(v)) # "none")

Read(f, map) ==
    LET how == f.accessor[1]
        of == f.accessor[2]
        inner == MapField(map, f.key)
        items == SliceField(map, f.key)
    IN  CASE how = "string" -> StrField(map, f.key)
          [] how = "optional string" -> OptStrField(map, f.key)
          [] how = "int" -> Num(ToInt(Lookup(map, f.key)))
          [] how = "optional int" -> OptIntField(map, f.key)
          [] how = "bool" -> Bool(ToBool(Lookup(map, f.key)))
          [] how = "optional bool" -> OptBoolField(map, f.key)
          [] how = "any" -> Lookup(map, f.key)
          [] how = "slice" -> List(items)
          [] how = "strings" -> StringSliceField(map, f.key)
          [] how = "ints" -> IntSliceField(map, f.key)
          [] how = "int lists" -> IntListMapField(map, f.key)
          [] how = "string maps" -> StringMapMapField(map, f.key)
          [] how = "inside" -> StrField(inner, of)
          [] how = "optional inside" -> OptStrField(inner, of)
          [] how = "element" -> FromDict(of, inner)
          [] how = "pointer" ->
                IF Lookup(map, f.key).kind = "map" THEN FromDict(of, inner) ELSE NilPointer(of)
          [] how = "union" -> Variant(of, VariantOf(of, inner), inner)
          [] how = "scope" -> SessionScope(map)
          [] how = "step detail" ->
                Variant("StepDetail", VariantOf("StepDetail", map), MapField(map, "detail"))
          [] how = "list" -> List([i \in DOMAIN items |-> FromDict(of, Entries(items[i]))])
          [] how = "steps" ->
                LET steps == Known("StepDetail", items)
                IN  List([i \in DOMAIN steps |-> FromDict("Step", Entries(steps[i]))])
          [] how = "unions" ->
                LET known == Known(of, items)
                IN  List([i \in DOMAIN known |->
                             FromDict(VariantOf(of, Entries(known[i])), Entries(known[i]))])
          [] how = "assertion type" -> AssertionType(Lookup(map, f.key))
          [] how = "string list" -> StringListBRC(Lookup(map, f.key))
          [] how = "long space" -> LongSpaceBRC(Lookup(map, f.key))

Built(t, fields) ==
    IF \E tag \in DOMAIN fields : fields[tag] = Invalid THEN Invalid ELSE Element(t, fields)

FromDict(t, map) == Built(t, [tag \in Tags(t) |-> Read(FieldOf(t, tag), map)])

-----------------------------------------------------------------------------
(* What the Dict of some types adds to their fields.                        *)
TypeWritten ==
    [Accept |-> "Accept", PreNatFibLookup |-> "PreNatFibLookup",
     PostNatFibLookup |-> "PostNatFibLookup", DelegatedToNextVrf |-> "DelegatedToNextVrf",
     ForwardedIntoVxlanTunnel |-> "ForwardedIntoVxlanTunnel",
     ForwardedOutInterface |-> "ForwardedOutInterface", Discarded |-> "Discarded",
     NextHopDiscard |-> "discard", NextHopInterface |-> "interface",
     NextHopIP |-> "ip", NextHopVrf |-> "vrf", NextHopVtep |-> "vtep"]

(* Faulty: the type is written as the Go type is named.                     *)
AddedTheName(t) == IF t \in DOMAIN TypeWritten THEN [type |-> Str(t)] ELSE EmptyMap

Added(t) ==
    CASE t \in DOMAIN TypeWritten -> [type |-> Str(TypeWritten[t])]
      [] t = "BgpRoute" -> [class |-> Str("org.batfish.datamodel.questions.BgpRoute")]
      [] OTHER -> EmptyMap

(* dictOf and jsonValue, on values of which DictPanics does not hold.       *)
RECURSIVE JsonValue(_)
JsonValue(v) ==
    CASE v.kind = "element" ->
            Map(Added(v.type) @@ [tag \in DOMAIN v.fields |-> JsonValue(v.fields[tag])])
      [] v.kind \in {"list", "wrapper"} -> List([i \in DOMAIN v.items |-> JsonValue(v.items[i])])
      [] v.kind = "map" -> Map([k \in DOMAIN v.entries |-> JsonValue(v.entries[k])])
      [] OTHER -> v

Dict(v) == JsonValue(v).entries

Parts(v) ==
    CASE v.kind = "element" -> {v.fields[tag] : tag \in DOMAIN v.fields}
      [] v.kind \in {"list", "wrapper"} -> {v.items[i] : i \in DOMAIN v.items}
      [] v.kind = "map" -> {v.entries[k] : k \in DOMAIN v.entries}
      [] OTHER -> {}

(* A nil pointer to an element is a DataModelElement too, and jsonValue     *)
(* calls its Dict, which has a value receiver.                              *)
RECURSIVE DictPanics(_)
DictPanics(v) == v.kind = "nil pointer" \/ \E p \in Parts(v) : DictPanics(p)

(* sessionDetailString calls String on the scope and on the action.         *)
RECURSIVE StringPanics(_)
StringPanics(v) ==
    \/ /\ v.kind = "element"
       /\ v.type \in {"MatchSessionStepDetail", "SetupSessionStepDetail"}
       /\ Nil \in {v.fields["sessionScope"], v.fields["sessionAction"]}
    \/ \E p \in Parts(v) : StringPanics(p)
=============================================================================
