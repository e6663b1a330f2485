---------------------------- MODULE FactsContract ----------------------------
(***************************************************************************)
(* What facts promise: of the tables they were made from, and of the files *)
(* that a validation compares them with, told without the merge, the walk  *)
(* through the trees and the order of the rows.                            *)
(***************************************************************************)
EXTENDS Facts

-----------------------------------------------------------------------------
(* What the tables say, as pairs of a path and a value: of the rows with    *)
(* one key the last, each cell under the key of its row.                    *)
Column(row, c) == Text1(Lookup(row, c))
Key(i, row) ==
    CASE i = 1 -> <<Column(row, "Node")>>
      [] i = 2 -> <<HostOf(row), "Interfaces", PortOf(row)>>
      [] i = 3 -> <<Column(row, "Node"), "BGP">>
      [] i = 4 -> <<Column(row, "Node"), "BGP", "Neighbors", Column(row, "Remote_IP")>>
      [] i = 5 -> <<Column(row, "Node"), "OSPF", "Processes", Column(row, "Process_ID")>>
      [] i = 6 -> <<Column(row, "Node"), "OSPF", "Processes", Column(row, "Process_ID"),
                    "Areas", Column(row, "Area")>>
      [] i = 7 -> <<HostOf(row), "OSPF", "Processes", Column(row, "Process_ID"), "Areas",
                    Column(row, "OSPF_Area_Name"), "Interfaces", PortOf(row)>>

(* The columns, and where they are put; some go under a heading.            *)
Headings == {NodePropertiesReorg[c] : c \in DOMAIN NodePropertiesReorg}
Heading(c) ==
    IF c \in DOMAIN NodePropertiesReorg THEN <<NodePropertiesReorg[c], c>> ELSE <<c>>
OSPFNames == [OSPF_Enabled |-> "Enabled", OSPF_Passive |-> "Passive", OSPF_Cost |-> "Cost",
              OSPF_Dead_Interval |-> "Dead_Interval",
              OSPF_Hello_Interval |-> "Hello_Interval", OSPF_Network_Type |-> "Network_Type"]
Places(i, row) ==
    CASE i = 1 -> {<<c, Heading(c)>> : c \in DOMAIN row \ {"Node", "Interfaces"}}
      [] i = 2 -> {<<c, <<c>>>> : c \in DOMAIN row \ {"Interface"}}
      [] i \in {3, 4} -> {<<c, <<c>>>> : c \in DOMAIN row \ {"Node"}}
      [] i = 5 -> {<<c, <<c>>>> : c \in {"VRF", "Reference_Bandwidth", "Router_ID"}}
      [] i = 6 -> {<<"Area_Type", <<"Area_Type">>>>}
      [] i = 7 -> {<<c, <<OSPFNames[c]>>>> : c \in DOMAIN OSPFNames}

Shown(i, v) ==
    IF v.kind # "wrapper" THEN v
    ELSE List(IF i = 1 THEN Unconstructed(v.items) ELSE v.items)

Listed(t, node) == \E k \in DOMAIN t[1] : Column(t[1][k], "Node") = node
Counts(t, i, row) ==
    /\ i \in {2, 7} => HasInterface(row)
    /\ i = 2 => Listed(t, HostOf(row))
Superseded(t, i, k) ==
    \E j \in DOMAIN t[i] : j > k /\ Counts(t, i, t[i][j]) /\ Key(i, t[i][j]) = Key(i, t[i][k])

SaidBy(t, i) ==
    UNION {{<<Key(i, t[i][k]) \o place[2], Shown(i, Lookup(t[i][k], place[1]))>> :
               place \in Places(i, t[i][k])} :
           k \in {j \in DOMAIN t[i] : Counts(t, i, t[i][j]) /\ ~Superseded(t, i, j)}}
Said(t) == UNION {SaidBy(t, i) : i \in 1..NumQuestions}

(* A BGP process of a node without properties, or a peer of a node without  *)
(* a process.                                                               *)
Orphan(t) ==
    \/ \E k \in DOMAIN t[3] : ~Listed(t, Column(t[3][k], "Node"))
    \/ \E k \in DOMAIN t[4] : \A j \in DOMAIN t[3] :
          Column(t[4][k], "Node") # Column(t[3][j], "Node")

(* What is known of the tables of a snapshot: their rows have columns       *)
(* besides their keys, with cells that are not maps; elements have fields;  *)
(* and no column has the name of a map that the merge makes beside it.      *)
WellFormed(i, rows) ==
    /\ Len(rows) \in Nat /\ DOMAIN rows = 1..Len(rows)
    /\ \A k \in DOMAIN rows :
          /\ Places(i, rows[k]) # {}
          /\ \A c \in DOMAIN rows[k] :
                /\ rows[k][c] # Branch
                /\ rows[k][c].kind = "element" => DOMAIN rows[k][c].fields # {}
                /\ i = 1 => c \notin Headings \cup {"BGP", "OSPF"}
                /\ i = 3 => c # "Neighbors"

ASSUME TablesAssumption ==
    \A scope \in Scopes, i \in 1..NumQuestions : WellFormed(i, Tables[scope][i])

-----------------------------------------------------------------------------
(* What facts say: the cells of the tree, with their paths.                 *)
Settled == {"write", "list", "read", "done"}
FactLines(c) ==
    LET tree == FactsOf(c)
    IN  {<<p, tree[p]>> : p \in {q \in DOMAIN tree : tree[q] # Branch}}

(* The networks and snapshots that a call may have asked about.             *)
ScopesOf(c) == call[c].networks \X call[c].snapshots

(* GetFacts promises no snapshot of one moment: its seven questions each    *)
(* read the session anew, and are about what it had at some moment of the   *)
(* call, a named snapshot apart.  But if nobody changed the network, nor    *)
(* the snapshot of a call that names none, while the questions were asked,  *)
(* the facts are those of the one snapshot of the one network, and the call *)
(* panics only if the tables of that one have orphans.                      *)
FactsAreOfOneSnapshot ==
    \A c \in Callers :
        /\ \A i \in DOMAIN call[c].asked : call[c].asked[i] \in ScopesOf(c)
        /\ \A scope \in Scopes : ScopesOf(c) = {scope} =>
              /\ call[c].phase = "panic" => Orphan(Tables[scope])
              /\ call[c].phase \in Settled =>
                    ~Orphan(Tables[scope]) /\ FactLines(c) = Said(Tables[scope])

(* GetFacts panics if the answers have a BGP process of a node without      *)
(* properties, or a peer of a node without a process, and only then.        *)
(* Otherwise the facts hold the cells of the last row of every key of every *)
(* table, and no others: the merge of one table undoes nothing of another,  *)
(* whatever their order.  What is lost are the earlier rows of a key; as    *)
(* BGP processes and peers are not kept apart by VRF, these are the         *)
(* processes of a node but for one, and peers of one address but for one.   *)
FactsHoldLastRows ==
    \A c \in Callers :
        LET t == TablesOf(call[c].asked)
        IN  /\ call[c].phase = "panic" => Orphan(t)
            /\ call[c].phase \in Settled => ~Orphan(t) /\ FactLines(c) = Said(t)

(* Two values that validation takes for the same; and what a value is once  *)
(* it was in a file.                                                        *)
Alike(v, w) ==
    \/ v = w
    \/ /\ v.kind = "list" /\ w.kind = "list" /\ Len(v.items) = Len(w.items)
       /\ \A i \in DOMAIN v.items :
             Cardinality({j \in DOMAIN v.items : v.items[j] = v.items[i]})
                = Cardinality({j \in DOMAIN w.items : w.items[j] = v.items[i]})
Stored(v) == IF v.kind = "float" /\ v.value < SmallFloat THEN Num(v.value) ELSE v

(* A cell that tables do not say, once it was in a file: an element is none *)
(* then, but a map of its fields.                                           *)
NotSaid(line, tables) ==
    \/ line[2].kind = "element"
    \/ \A other \in Said(tables) : other[1] = line[1] => ~Alike(Stored(line[2]), other[2])

(* Validation reports a node whose file holds the facts of some snapshot    *)
(* exactly if a cell of its tables for that snapshot, as the file holds it, *)
(* is not in those of the validated one, in a list in any order.  It        *)
(* reports no node that the files do not have: those of an extraction that  *)
(* failed, or is not over, are not looked at.                               *)
ValidationFindsEveryDifference ==
    \A c \in Callers :
        LET mine == call[c].loaded.nodes
        IN  call[c].phase = "done" /\ call[c].op = "validate"
                /\ call[c].loaded.version = BatfishFactVersion =>
            /\ call[c].failures \subseteq Nodes(mine)
            /\ \A scope \in Scopes, n \in Nodes(mine) :
                  Of(mine, {n}) = Yaml(Of(ProcessFacts(Tables[scope]), {n})) =>
                  (n \in call[c].failures <=>
                     \E line \in Said(Tables[scope]) :
                         line[1][1] = n /\ NotSaid(line, TablesOf(call[c].asked)))
=============================================================================
