-------------------------------- MODULE Facts --------------------------------
(***************************************************************************)
(* Facts about nodes (client/facts.go): the tables of seven questions are  *)
(* merged into one tree per node, written to a directory as one file per   *)
(* node, and validated against a directory of files.  Calls share their    *)
(* session, with its current network and snapshot, and the directory.      *)
(* Between two questions, and between what a question reads of the session *)
(* and what it asks the service, others may change them.                   *)
(*                                                                         *)
(* A tree of maps is a function on paths: Branch where a map is, a value   *)
(* where something else is.                                                *)
(***************************************************************************)
EXTENDS DataModel, FiniteSets
LOCAL INSTANCE SequencesExt
LOCAL INSTANCE TLC

CONSTANTS
    Callers,        \* goroutines that extract or validate facts
    Networks,
    Snapshots,      \* the names of snapshots, which several networks may use
    Starts,         \* the network and snapshot of the session to begin with
    Tables,         \* Tables[<<n, s>>][i]: what question number i gives for s of n
    Constructed,    \* the items of lists whose names start with "~"
    Calls,          \* Calls[c]: what caller c may ask for, see CallType
    Directories,    \* what the directory may be to begin with
    Alphabetical,   \* the file names, in the order of os.ReadDir
    SmallFloat,     \* 10^6: YAML writes whole numbers below it without exponent
    MaxSwitches,    \* bound: changes of the session's network or snapshot
    None

Scopes == Networks \X Snapshots

(* ExtractFacts, with an output directory or without, or ValidateFacts, for *)
(* a snapshot or, with None, for the one the session has.                   *)
CallType == [op : {"get", "extract", "validate"}, named : Snapshots \cup {None}]

ASSUME CallsAssumption == Calls \in [Callers -> SUBSET CallType]
ASSUME StartsAssumption == Starts \subseteq Scopes
ASSUME BoundAssumption == MaxSwitches \in Nat
ASSUME SnapshotAssumption == None \notin Snapshots

BatfishFactVersion == "batfish_v0"

(* The questions of GetFacts, in the order in which they are asked.         *)
FactQuestions ==
    <<"nodeProperties", "interfaceProperties", "bgpProcessConfiguration",
      "bgpPeerConfiguration", "ospfProcessConfiguration", "ospfAreaConfiguration",
      "ospfInterfaceConfiguration">>
NumQuestions == 7

-----------------------------------------------------------------------------
(* Trees.                                                                   *)
Branch == [kind |-> "branch"]

(* The paths of the maps on the way to path, and path itself.               *)
Way(path) == {SubSeq(path, 1, k) : k \in 1..Len(path)}

(* tree with a map of cells at path, in place of all that was there.  Maps  *)
(* that are missing on the way are created; where the code does not create  *)
(* them (for BGP), they are there or it panics.                             *)
Put(tree, path, cells) ==
    LET kept == {p \in DOMAIN tree : path \notin Way(p)}
        below == {path \o c : c \in DOMAIN cells}
    IN  [p \in kept \cup Way(path) \cup below |->
            IF p \in Way(path) THEN Branch
            ELSE IF p \in below THEN cells[SubSeq(p, Len(path) + 1, Len(p))]
            ELSE tree[p]]

(* What one row does, and what all rows of a table do in their order.       *)
Patch(path, cells) == [on |-> TRUE, at |-> path, cells |-> cells]
Skipped == [on |-> FALSE]

Patched(tree, patches) ==
    LET after[k \in 0..Len(patches)] ==
            IF k = 0 THEN tree
            ELSE IF ~patches[k].on THEN after[k - 1]
            ELSE Put(after[k - 1], patches[k].at, patches[k].cells)
    IN  after[Len(patches)]

Cells(row, columns) == [p \in {<<c>> : c \in columns} |-> Lookup(row, p[1])]
Text1(v) == Sprint(v).parts[1]

Record(row, columns) == Cells(row, DOMAIN row \ columns)
NodeOf(row) == Text1(Lookup(row, "Node"))
HasInterface(row) == Lookup(row, "Interface").kind = "element"
InterfaceOf(row) == Lookup(row, "Interface").fields
HostOf(row) == InterfaceOf(row)["hostname"].parts[1]
PortOf(row) == InterfaceOf(row)["interface"].parts[1]
-----------------------------------------------------------------------------
(* processNodes.                                                            *)
NodePropertiesReorg ==
    [DNS_Servers |-> "DNS", DNS_Source_Interface |-> "DNS", IKE_Phase1_Keys |-> "IPsec",
     IKE_Phase1_Policies |-> "IPsec", IKE_Phase1_Proposals |-> "IPsec",
     IPsec_Peer_Configs |-> "IPsec", IPsec_Phase2_Policies |-> "IPsec",
     IPsec_Phase2_Proposals |-> "IPsec", NTP_Servers |-> "NTP",
     NTP_Source_Interface |-> "NTP", Logging_Servers |-> "Syslog",
     Logging_Source_Interface |-> "Syslog", SNMP_Source_Interface |-> "SNMP",
     SNMP_Trap_Servers |-> "SNMP", TACACS_Servers |-> "TACACS",
     TACACS_Source_Interface |-> "TACACS"]

Unconstructed(items) == SelectSeq(items, LAMBDA item : item \notin Constructed)
WithoutConstructed(v) == IF v.kind = "wrapper" THEN Wrapper(Unconstructed(v.items)) ELSE v

ReorgDict(cells) ==
    LET moved == {c \in DOMAIN cells : c[1] \in DOMAIN NodePropertiesReorg}
        parents == {<<NodePropertiesReorg[c[1]]>> : c \in moved}
        places == {<<NodePropertiesReorg[c[1]], c[1]>> : c \in moved}
    IN  [p \in parents \cup places \cup (DOMAIN cells \ moved) |->
            IF p \in parents THEN Branch ELSE cells[<<p[Len(p)]>>]]

NodePatch(row) ==
    LET record == Record(row, {"Node", "Interfaces"})
    IN  Patch(<<NodeOf(row)>>,
              ReorgDict([p \in DOMAIN record |-> WithoutConstructed(record[p])]))
ProcessNodes(rows) == Patched(EmptyMap, [k \in DOMAIN rows |-> NodePatch(rows[k])])

(* processInterfaces: interfaces of nodes that are not there are left out.  *)
InterfacePatch(nodes, row) ==
    IF HasInterface(row) /\ <<HostOf(row)>> \in DOMAIN nodes
    THEN Patch(<<HostOf(row), "Interfaces", PortOf(row)>>, Record(row, {"Interface"}))
    ELSE Skipped
ProcessInterfaces(nodes, rows) ==
    Patched(nodes, [k \in DOMAIN rows |-> InterfacePatch(nodes, rows[k])])

(* processBGPProcesses and processBGPPeers, where their type assertions     *)
(* hold; elsewhere they panic.                                              *)
HasNodes(tree, rows) == \A k \in DOMAIN rows : <<NodeOf(rows[k])>> \in DOMAIN tree
BGPProcessPatch(row) ==
    LET record == Record(row, {"Node"})
    IN  Patch(<<NodeOf(row), "BGP">>,
              [p \in DOMAIN record \cup {<<"Neighbors">>} |->
                  IF p = <<"Neighbors">> THEN Branch ELSE record[p]])
ProcessBGPProcesses(nodes, rows) ==
    Patched(nodes, [k \in DOMAIN rows |-> BGPProcessPatch(rows[k])])

HasProcesses(tree, rows) == \A k \in DOMAIN rows : <<NodeOf(rows[k]), "BGP">> \in DOMAIN tree
BGPPeerPatch(row) ==
    Patch(<<NodeOf(row), "BGP", "Neighbors", Text1(Lookup(row, "Remote_IP"))>>,
          Record(row, {"Node"}))
ProcessBGPPeers(nodes, rows) ==
    Patched(nodes, [k \in DOMAIN rows |-> BGPPeerPatch(rows[k])])
-----------------------------------------------------------------------------
(* processOSPFProcesses, processOSPFAreas and processOSPFInterfaces, which  *)
(* create what is missing on the way, nodes too.                            *)
Process(node, row) == <<node, "OSPF", "Processes", Text1(Lookup(row, "Process_ID"))>>

OSPFProcessPatch(row) ==
    Patch(Process(NodeOf(row), row), Cells(row, {"VRF", "Reference_Bandwidth", "Router_ID"}))
ProcessOSPFProcesses(nodes, rows) ==
    Patched(nodes, [k \in DOMAIN rows |-> OSPFProcessPatch(rows[k])])

OSPFAreaPatch(row) ==
    Patch(Process(NodeOf(row), row) \o <<"Areas", Text1(Lookup(row, "Area"))>>,
          Cells(row, {"Area_Type"}))
ProcessOSPFAreas(nodes, rows) ==
    Patched(nodes, [k \in DOMAIN rows |-> OSPFAreaPatch(rows[k])])

OSPFColumns ==
    [Enabled |-> "OSPF_Enabled", Passive |-> "OSPF_Passive", Cost |-> "OSPF_Cost",
     Dead_Interval |-> "OSPF_Dead_Interval", Hello_Interval |-> "OSPF_Hello_Interval",
     Network_Type |-> "OSPF_Network_Type"]

OSPFInterfacePatch(row) ==
    IF HasInterface(row)
    THEN Patch(Process(HostOf(row), row)
                   \o <<"Areas", Text1(Lookup(row, "OSPF_Area_Name")), "Interfaces", PortOf(row)>>,
               [p \in {<<c>> : c \in DOMAIN OSPFColumns} |-> Lookup(row, OSPFColumns[p[1]])])
    ELSE Skipped
ProcessOSPFInterfaces(nodes, rows) ==
    Patched(nodes, [k \in DOMAIN rows |-> OSPFInterfacePatch(rows[k])])

ConvertListWrapper(tree) ==
    [p \in DOMAIN tree |-> IF tree[p].kind = "wrapper" THEN List(tree[p].items) ELSE tree[p]]

(* processFacts on the tables of the seven questions.                       *)
WithInterfaces(t) == ProcessInterfaces(ProcessNodes(t[1]), t[2])
WithProcesses(t) == ProcessBGPProcesses(WithInterfaces(t), t[3])
Panics(t) ==
    ~HasNodes(WithInterfaces(t), t[3]) \/ ~HasProcesses(WithProcesses(t), t[4])

(* Faulty: the areas come before their processes.                           *)
ProcessFactsAreasFirst(t) ==
    LET areas == ProcessOSPFAreas(ProcessBGPPeers(WithProcesses(t), t[4]), t[6])
    IN  ConvertListWrapper(ProcessOSPFInterfaces(ProcessOSPFProcesses(areas, t[5]), t[7]))

ProcessFacts(t) ==
    LET processes == ProcessOSPFProcesses(ProcessBGPPeers(WithProcesses(t), t[4]), t[5])
    IN  ConvertListWrapper(ProcessOSPFInterfaces(ProcessOSPFAreas(processes, t[6]), t[7]))
-----------------------------------------------------------------------------
(* Files.  What YAML makes of a value: a float that is whole is written     *)
(* without a point and read back as an integer, an element is written as a  *)
(* map.  A file that os.WriteFile has truncated reads as no map at all.     *)
Yaml(tree) ==
    LET elements == {p \in DOMAIN tree : tree[p].kind = "element"}
        entries == UNION {{Append(p, f) : f \in DOMAIN tree[p].fields} : p \in elements}
    IN  [p \in DOMAIN tree \cup entries |->
            CASE p \in entries -> tree[Front(p)].fields[Last(p)]
              [] p \in elements -> Branch
              [] tree[p].kind = "float" /\ tree[p].value < SmallFloat -> Num(tree[p].value)
              [] OTHER -> tree[p]]

File(nodes, version) == [nodes |-> nodes, version |-> version]
Truncated == File(EmptyMap, None)

Nodes(tree) == {p[1] : p \in DOMAIN tree}
Of(tree, nodes) == [p \in {q \in DOMAIN tree : q[1] \in nodes} |-> tree[p]]

(* What LoadFacts has after one more file; an error if the versions differ. *)
FileVersion(file) == IF file.version = None THEN BatfishFactVersion ELSE file.version
Mismatch(loaded, file) == loaded.version \notin {None, FileVersion(file)}
Merged(loaded, file) ==
    File(file.nodes @@ Of(loaded.nodes, Nodes(loaded.nodes) \ Nodes(file.nodes)),
         FileVersion(file))

-----------------------------------------------------------------------------
(* ValidateFacts.  Lists in facts have scalar items: the greedy matching of *)
(* valueMatches then compares how often each occurs.                        *)
Times(item, items) == Cardinality({i \in DOMAIN items : items[i] = item})
ValueMatches(actual, expected) ==
    IF expected.kind = "list"
    THEN /\ actual.kind = "list"
         /\ Len(actual.items) = Len(expected.items)
         /\ \A item \in ToSet(expected.items) :
               Times(item, actual.items) = Times(item, expected.items)
    ELSE actual = expected

(* Faulty: only the keys that both have are compared.                       *)
AssertDictSubsetCommon(actual, expected, node) ==
    {p \in DOMAIN expected \cap DOMAIN actual :
        p[1] = node /\ Len(p) > 1 /\ expected[p] # Branch /\ ~ValueMatches(actual[p], expected[p])}

(* assertDictSubset for the facts of a node: the paths that it reports.  It *)
(* does not go below a key that is missing.                                 *)
AssertDictSubset(actual, expected, node) ==
    {p \in DOMAIN expected :
        /\ p[1] = node /\ Len(p) > 1
        /\ Len(p) = 2 \/ Front(p) \in DOMAIN actual
        /\ p \in DOMAIN actual =>
              expected[p] # Branch /\ ~ValueMatches(actual[p], expected[p])}

ValidateFacts(expected, actual) ==
    IF expected.version # BatfishFactVersion THEN Nodes(expected.nodes)
    ELSE {n \in Nodes(expected.nodes) : AssertDictSubset(actual, expected.nodes, n) # {}}

-----------------------------------------------------------------------------
VARIABLES
    network,        \* Session.Network
    snapshot,       \* Session.Snapshot
    switches,       \* changes of them so far
    directory,      \* absent, something else, or a directory with its files
    call            \* the call of each caller

session == <<network, snapshot, switches>>
vars == <<network, snapshot, switches, directory, call>>

(* The history of a call: the networks and the snapshots that its session   *)
(* had while the call asked its questions; a named snapshot is the only one.*)
Idle == [phase |-> "idle", op |-> "get", named |-> None, resolved |-> None,
         asked |-> <<>>, networks |-> {}, snapshots |-> {}, todo |-> {},
         writing |-> None, loaded |-> File(EmptyMap, None), failures |-> {}]

IsDirectory == directory.kind = "directory"
Directory(files) == [kind |-> "directory", files |-> files]

TablesOf(asked) == [i \in 1..Len(asked) |-> Tables[asked[i]][i]]
FactsOf(c) == ProcessFacts(TablesOf(call[c].asked))

Init ==
    /\ \E start \in Starts : network = start[1] /\ snapshot = start[2]
    /\ switches = 0
    /\ directory \in Directories
    /\ call = [c \in Callers |-> Idle]

Asking(c) == call[c].phase = "ask"

(* Another user of the session makes another network its network, which     *)
(* leaves the snapshot as it is, or another snapshot its snapshot.          *)
SetNetwork(n) ==
    /\ switches < MaxSwitches
    /\ n # network
    /\ network' = n
    /\ switches' = switches + 1
    /\ call' = [c \in Callers |->
                   [call[c] EXCEPT !.networks = IF Asking(c) THEN @ \cup {n} ELSE @]]
    /\ UNCHANGED <<snapshot, directory>>

SetSnapshot(s) ==
    /\ switches < MaxSwitches
    /\ s # snapshot
    /\ snapshot' = s
    /\ switches' = switches + 1
    /\ call' = [c \in Callers |->
                   [call[c] EXCEPT !.snapshots =
                       IF Asking(c) /\ call[c].named = None THEN @ \cup {s} ELSE @]]
    /\ UNCHANGED <<network, directory>>

Begin(c, op, named) ==
    /\ call[c].phase = "idle"
    /\ call' = [call EXCEPT ![c] = [Idle EXCEPT !.phase = "ask", !.op = op, !.named = named,
                                       !.networks = {network},
                                       !.snapshots = {IF named = None THEN snapshot ELSE named}]]
    /\ UNCHANGED <<session, directory>>

(* A question of a call that names no snapshot first reads the session's,   *)
(* GetSnapshot; what a named one asks about is fixed.                       *)
CanAsk(c) == Asking(c) /\ Len(call[c].asked) < NumQuestions
GetSnapshot(c) ==
    /\ CanAsk(c) /\ call[c].named = None /\ call[c].resolved = None
    /\ call' = [call EXCEPT ![c].resolved = snapshot]
    /\ UNCHANGED <<session, directory>>

(* Faulty: the questions are always about the session's snapshot.           *)
AskedSnapshotCurrent(c) == IF call[c].named = None THEN call[c].resolved ELSE snapshot

AskedSnapshot(c) == IF call[c].named = None THEN call[c].resolved ELSE call[c].named

(* The rest of answerQuestionFrame, whose requests read the network anew.   *)
(* The question is only where it was uploaded: if the network changes       *)
(* between its requests, it fails, as it may in many ways (ClientSession).  *)
Ask(c) ==
    /\ CanAsk(c) /\ AskedSnapshot(c) # None
    /\ call' = [call EXCEPT ![c].asked = Append(@, <<network, AskedSnapshot(c)>>),
                            ![c].resolved = None]
    /\ UNCHANGED <<session, directory>>

Failed == [Idle EXCEPT !.phase = "error"]
AskFails(c) ==
    /\ CanAsk(c)
    /\ call' = [call EXCEPT ![c] = Failed]
    /\ UNCHANGED <<session, directory>>

Asked(c) == Asking(c) /\ Len(call[c].asked) = NumQuestions

(* GetFacts ends, and what follows it begins.                               *)
Panic(c) ==
    /\ Asked(c) /\ Panics(TablesOf(call[c].asked))
    /\ call' = [call EXCEPT ![c].phase = "panic"]
    /\ UNCHANGED <<session, directory>>

GetFacts(c) ==
    /\ Asked(c) /\ ~Panics(TablesOf(call[c].asked))
    /\ LET refused == call[c].op = "extract" /\ directory.kind = "file"
           phase == CASE call[c].op = "extract" -> "write"
                      [] call[c].op = "validate" -> "list"
                      [] OTHER -> "done"
           nodes == IF call[c].op = "extract" THEN Nodes(FactsOf(c)) ELSE {}
       IN  call' = [call EXCEPT ![c] = IF refused THEN Failed
                                       ELSE [@ EXCEPT !.phase = phase, !.todo = nodes]]
    /\ directory' = IF call[c].op = "extract" /\ directory.kind = "absent"
                    THEN Directory(EmptyMap) ELSE directory
    /\ UNCHANGED session

(* WriteFacts: os.WriteFile truncates a file and then fills it; the nodes   *)
(* come in any order, and an error leaves the files written so far.         *)
Truncate(c, n) ==
    /\ call[c].phase = "write" /\ call[c].writing = None /\ n \in call[c].todo
    /\ directory' = Directory((n :> Truncated) @@ directory.files)
    /\ call' = [call EXCEPT ![c].writing = n]
    /\ UNCHANGED session

Fill(c) ==
    /\ call[c].phase = "write" /\ call[c].writing # None
    /\ LET n == call[c].writing
       IN  /\ directory' = Directory((n :> File(Of(FactsOf(c), {n}), BatfishFactVersion))
                                        @@ directory.files)
           /\ call' = [call EXCEPT ![c].writing = None, ![c].todo = @ \ {n}]
    /\ UNCHANGED session

WriteFails(c) ==
    /\ call[c].phase = "write" /\ call[c].todo # {}
    /\ call' = [call EXCEPT ![c] = Failed]
    /\ UNCHANGED <<session, directory>>

WriteFacts(c) ==
    /\ call[c].phase = "write" /\ call[c].todo = {}
    /\ call' = [call EXCEPT ![c].phase = "done"]
    /\ UNCHANGED <<session, directory>>

(* LoadFacts: os.ReadDir lists the files, which are then read one by one.   *)
ListFiles(c) ==
    /\ call[c].phase = "list"
    /\ LET names == IF IsDirectory THEN DOMAIN directory.files ELSE {}
       IN  call' = [call EXCEPT ![c] = IF names = {} THEN Failed
                                       ELSE [@ EXCEPT !.phase = "read", !.todo = names]]
    /\ UNCHANGED <<session, directory>>

NextFile(names) == SelectSeq(Alphabetical, LAMBDA name : name \in names)[1]

ReadFile(c) ==
    /\ call[c].phase = "read" /\ call[c].todo # {}
    /\ LET name == NextFile(call[c].todo)
           file == directory.files[name]
           read == File(Yaml(file.nodes), file.version)
       IN  call' = IF Mismatch(call[c].loaded, read)
                   THEN [call EXCEPT ![c] = Failed]
                   ELSE [call EXCEPT ![c].todo = @ \ {name},
                                     ![c].loaded = Merged(@, read)]
    /\ UNCHANGED <<session, directory>>

Validate(c) ==
    /\ call[c].phase = "read" /\ call[c].todo = {}
    /\ call' = [call EXCEPT ![c].phase = "done",
                            ![c].failures = ValidateFacts(call[c].loaded, FactsOf(c))]
    /\ UNCHANGED <<session, directory>>

Next ==
    \/ \E n \in Networks : SetNetwork(n)
    \/ \E s \in Snapshots : SetSnapshot(s)
    \/ \E c \in Callers :
          \/ \E k \in Calls[c] : Begin(c, k.op, k.named)
          \/ GetSnapshot(c) \/ Ask(c) \/ AskFails(c)
          \/ Panic(c) \/ GetFacts(c)
          \/ \E n \in call[c].todo : Truncate(c, n)
          \/ Fill(c) \/ WriteFails(c) \/ WriteFacts(c)
          \/ ListFiles(c) \/ ReadFile(c) \/ Validate(c)

Spec == Init /\ [][Next]_vars

=============================================================================
