----------------------------- MODULE HeaderSpace -----------------------------
(***************************************************************************)
(* Header constraints (datamodel/flow.go, mcp/helpers.go): values of       *)
(* several shapes per field, brought into one by Normalize, made from a    *)
(* flow or from the arguments of a tool.  Blanks around the parts of a     *)
(* text are left out.                                                      *)
(***************************************************************************)
EXTENDS Elements
LOCAL INSTANCE SequencesExt

Intspaces == {"srcIps", "dstIps", "srcPorts", "dstPorts", "icmpCodes", "icmpTypes",
              "ecns", "dscps", "packetLengths", "fragmentOffsets"}
Lists == {"ipProtocols", "applications"}
HeaderFields == Intspaces \cup Lists \cup {"tcpFlags"}

NotBlank(s) == s # ""

NormalizePHCIntspace(v) ==
    CASE v.kind \in {"nil", "text"} -> v
      [] v.kind = "list" -> Join(v.items)
      [] v.kind \in {"number", "float", "bool"} -> Sprint(v)
      [] OTHER -> Invalid

NormalizePHCList(v) ==
    CASE v.kind \in {"nil", "list"} -> v
      [] v.kind = "text" ->
            LET parts == SelectSeq(v.parts, NotBlank)
            IN  IF parts = <<>> THEN Invalid
                ELSE List([i \in DOMAIN parts |-> Str(parts[i])])
      [] OTHER -> Invalid

NormalizePHCTcpflags(v) ==
    CASE v.kind \in {"nil", "list"} -> v
      [] v.kind = "element" /\ v.type = "MatchTcpFlags" -> List(<<v>>)
      [] OTHER -> Invalid

NormalizeField(field, v) ==
    CASE field \in Intspaces -> NormalizePHCIntspace(v)
      [] field \in Lists -> NormalizePHCList(v)
      [] field = "tcpFlags" -> NormalizePHCTcpflags(v)

(* Normalize with its error, Dict, and HeaderConstraintsFromDict, which     *)
(* does not read the flags.  A value with an invalid field stays as it was. *)
Normalized(h) == [field \in HeaderFields |-> NormalizeField(field, h[field])]
NormalizeFails(h) == \E field \in HeaderFields : Normalized(h)[field] = Invalid
Normalize(h) == IF NormalizeFails(h) THEN h ELSE Normalized(h)

HeaderConstraintsDict(h) == [field \in HeaderFields |-> JsonValue(Normalize(h)[field])]
HeaderConstraintsFromDict(map) ==
    [field \in HeaderFields |-> IF field = "tcpFlags" THEN Nil ELSE Lookup(map, field)]

-----------------------------------------------------------------------------
ProtocolsWithPorts == {"TCP", "UDP", "DCCP", "SCTP"}
ToLowerProtocol(p) ==
    CASE p \in {"TCP", "tcp"} -> "tcp" [] p \in {"ICMP", "icmp"} -> "icmp" [] OTHER -> "other"

HasPorts(flow) ==
    /\ flow["ipProtocol"].parts[1] \in ProtocolsWithPorts
    /\ flow["srcPort"] # Nil /\ flow["dstPort"] # Nil

NewMatchTcpFlags(flags) ==
    Element("MatchTcpFlags",
            [tag \in Tags("MatchTcpFlags") |->
                IF tag = "tcpFlags" THEN Element("TcpFlags", flags) ELSE Bool(TRUE)])

(* The names of a flag in TcpFlags and in a flow.                           *)
FlowFlag == [ack |-> "tcpFlagsAck", cwr |-> "tcpFlagsCwr", ece |-> "tcpFlagsEce",
             fin |-> "tcpFlagsFin", psh |-> "tcpFlagsPsh", rst |-> "tcpFlagsRst",
             syn |-> "tcpFlagsSyn", urg |-> "tcpFlagsUrg"]
UseFlag == [ack |-> "useAck", cwr |-> "useCwr", ece |-> "useEce", fin |-> "useFin",
            psh |-> "usePsh", rst |-> "useRst", syn |-> "useSyn", urg |-> "useUrg"]
FlagsOf(flow) == [flag \in DOMAIN FlowFlag |-> Bool(flow[FlowFlag[flag]] \notin {Nil, Num(0)})]

(* Faulty: the ports are taken the wrong way round.                         *)
ConstraintsReversed(flow) ==
    [field \in HeaderFields |->
        CASE field = "srcPorts" -> IF HasPorts(flow) THEN Sprint(flow["dstPort"]) ELSE Nil
          [] field = "dstPorts" -> IF HasPorts(flow) THEN Sprint(flow["srcPort"]) ELSE Nil
          [] OTHER -> Nil]

HeaderConstraintsOf(flow) ==
    LET protocol == ToLowerProtocol(flow["ipProtocol"].parts[1])
        If(holds, v) == IF holds THEN v ELSE Nil
    IN  Normalize([field \in HeaderFields |->
            CASE field = "srcIps" -> flow["srcIp"]
              [] field = "dstIps" -> flow["dstIp"]
              [] field = "ipProtocols" -> List(<<flow["ipProtocol"]>>)
              [] field = "srcPorts" -> If(HasPorts(flow), Sprint(flow["srcPort"]))
              [] field = "dstPorts" -> If(HasPorts(flow), Sprint(flow["dstPort"]))
              [] field = "icmpCodes" -> If(protocol = "icmp", flow["icmpCode"])
              [] field = "icmpTypes" -> If(protocol = "icmp", flow["icmpVar"])
              [] field = "tcpFlags" -> If(protocol = "tcp", NewMatchTcpFlags(FlagsOf(flow)))
              [] field = "fragmentOffsets" -> flow["fragmentOffset"]
              [] field = "packetLengths" -> flow["packetLength"]
              [] OTHER -> Nil])

(* The arguments of a tool: an empty text constrains nothing.               *)
Arguments == {"dstIps", "srcIps", "applications", "ipProtocols", "srcPorts", "dstPorts"}
BuildHeaderConstraints(in) ==
    [field \in HeaderFields |->
        IF field \in Arguments /\ in[field] # Str("") THEN in[field] ELSE Nil]
=============================================================================
