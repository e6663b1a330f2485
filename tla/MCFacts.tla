------------------------------- MODULE MCFacts -------------------------------
(***************************************************************************)
(* Facts on two networks that both have snapshots s1 and s2: in the first, *)
(* r1 runs BGP in s1 and r2 in s2, r3 is only known to OSPF, and r9 only   *)
(* to the interfaces.  Rows share keys: two processes of a node, two peers *)
(* with one address.  In the second, s1 lists a process of a node that has *)
(* no properties.                                                          *)
(***************************************************************************)
EXTENDS FactsContract
LOCAL INSTANCE TLC

CONSTANTS n1, n2, s1, s2, c1, c2

Iface(node, name) == Element("Interface", [hostname |-> Str(node), interface |-> Str(name)])
Names(items) == Wrapper([i \in DOMAIN items |-> Str(items[i])])

NodeRow(node, servers) ==
    [Node |-> Str(node), Interfaces |-> Names(<<"e0">>), NTP_Servers |-> Names(servers),
     IP_Access_Lists |-> Names(<<"~generated", "acl">>)]
InterfaceRow(iface, bandwidth) == [Interface |-> iface, Bandwidth |-> Float(bandwidth)]
ProcessRow(node, vrf) == [Node |-> Str(node), VRF |-> Str(vrf), Router_ID |-> Str("1.1.1.1")]
PeerRow(node, ip, vrf) == [Node |-> Str(node), Remote_IP |-> Str(ip), VRF |-> Str(vrf)]
OSPFProcessRow(node, id) ==
    [Node |-> Str(node), Process_ID |-> Str(id), VRF |-> Str("default"),
     Reference_Bandwidth |-> Float(100)]
AreaRow(node, id, area) ==
    [Node |-> Str(node), Process_ID |-> Str(id), Area |-> Num(area), Area_Type |-> Str("NONE")]
OSPFInterfaceRow(iface, id, area, cost) ==
    [Interface |-> iface, Process_ID |-> Str(id), OSPF_Area_Name |-> Num(area),
     OSPF_Cost |-> Num(cost), OSPF_Passive |-> Bool(FALSE)]

TablesFirst ==
    <<<<NodeRow("r1", <<"a", "b">>), NodeRow("r2", <<"a", "a", "b">>)>>,
      <<InterfaceRow(Iface("r1", "e0"), 100), InterfaceRow(Iface("r9", "e0"), 5),
        InterfaceRow(Nil, 5)>>,
      <<ProcessRow("r1", "default"), ProcessRow("r1", "blue")>>,
      <<PeerRow("r1", "10.0.0.2", "default"), PeerRow("r1", "10.0.0.2", "blue"),
        PeerRow("r1", "10.0.0.3", "blue")>>,
      <<OSPFProcessRow("r1", "1")>>,
      <<AreaRow("r1", "1", 0), AreaRow("r1", "1", 1)>>,
      <<OSPFInterfaceRow(Iface("r1", "e0"), "1", 0, 10),
        OSPFInterfaceRow(Iface("r3", "e1"), "2", 0, 10), OSPFInterfaceRow(Nil, "1", 0, 10)>>>>

TablesSecond ==
    <<<<NodeRow("r1", <<"b", "a">>), NodeRow("r2", <<"a", "b", "b">>)>>,
      <<InterfaceRow(Iface("r2", "e0"), 5)>>,
      <<ProcessRow("r2", "default")>>,
      <<PeerRow("r2", "10.0.0.1", "default")>>,
      <<>>,
      <<AreaRow("r3", "2", 0)>>,
      <<OSPFInterfaceRow(Iface("r3", "e1"), "2", 0, 10)>>>>

TablesOrphaned ==
    <<<<NodeRow("r1", <<"c">>)>>,
      <<>>,
      <<ProcessRow("r1", "default"), ProcessRow("r2", "default")>>,
      <<>>, <<>>, <<>>, <<>>>>

TablesOther ==
    <<<<NodeRow("r2", <<"a", "b">>)>>,
      <<>>,
      <<ProcessRow("r2", "blue")>>,
      <<PeerRow("r2", "10.0.0.1", "blue")>>,
      <<>>, <<>>, <<>>>>

MCStarts == {<<n1, s1>>}
MCTables ==
    (<<n1, s1>> :> TablesFirst) @@ (<<n1, s2>> :> TablesSecond)
    @@ (<<n2, s1>> :> TablesOrphaned) @@ (<<n2, s2>> :> TablesOther)

MCConstructed == {Str("~generated")}

Call(op, named) == [op |-> op, named |-> named]
MCAlphabetical == <<"expected", "r1", "r2", "r3">>

MCCalls ==
    (c1 :> {Call("extract", None), Call("get", s1)}) @@ (c2 :> {Call("validate", s2)})

(* Expected facts may also come from somebody else, with another version or *)
(* with several nodes in a file.                                            *)
Expected == (<<"r2">> :> Branch) @@ (<<"r2", "Hostname">> :> Str("r2"))
            @@ (<<"r3">> :> Branch)
MCDirectories ==
    {[kind |-> "absent"], [kind |-> "file"],
     Directory([expected |-> File(Expected, None)]),
     Directory([expected |-> File(Expected, "other")])}

=============================================================================
