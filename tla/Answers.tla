------------------------------- MODULE Answers -------------------------------
(***************************************************************************)
(* Table answers (package datamodel/answer): the metadata, the rows and    *)
(* the excluded rows of an answer, and its cells parsed by the schema of   *)
(* their column.  A schema is a text of words: <<"List", "Ip">> is List<Ip>.*)
(***************************************************************************)
EXTENDS Elements, Frames
LOCAL INSTANCE SequencesExt

Panic == [kind |-> "panic"]
AsMap(v) == CASE v.kind = "map" -> v.entries
              [] v.kind = "element" -> Dict(v)
              [] OTHER -> EmptyMap

(* The pattern ignores case, but what is in the brackets is not folded.     *)
IterableWords == {"List", "list", "LIST", "Set", "set", "SET"}
IsIterableSchema(schema) == Len(schema) > 1 /\ schema[1] \in IterableWords
GetBaseSchema(schema) == IF IsIterableSchema(schema) THEN Tail(schema) ELSE schema

(* What the parse of a list comes to when that of some element fails.       *)
FirstFailure(parsed) ==
    LET Fails(i) == parsed[i] \in {Invalid, Panic}
        first == {i \in DOMAIN parsed : Fails(i) /\ \A j \in 1..(i - 1) : ~Fails(j)}
    IN  IF first = {} THEN Nil ELSE parsed[CHOOSE i \in first : TRUE]

ElementSchemas == {"AclTrace", "FileLines", "Flow", "FlowTrace", "Interface",
                   "BgpRoute", "BgpRouteDiffs", "Trace", "TraceTree"}

(* toInt of this package: fmt.Sscan reads a number at the beginning of a    *)
(* text and leaves what follows it.                                         *)
ScanInt(v) == IF v.kind = "text" THEN Atoi(v.parts[1]) ELSE ToInt(v)

RECURSIVE ParseJSONWithSchema(_, _)

(* parsed.(datamodel.TraceTree) panics on the nil that a null is parsed to. *)
ListOf(base, parsed) ==
    CASE FirstFailure(parsed) # Nil -> FirstFailure(parsed)
      [] base = <<"TraceTree">> -> List(parsed)
      [] OTHER -> Wrapper(parsed)

ParseList(base, items) ==
    ListOf(base, [i \in DOMAIN items |->
                     IF base = <<"TraceTree">> /\ items[i] = Nil THEN Panic
                     ELSE ParseJSONWithSchema(base, items[i])])

ParseJSONWithSchema(schema, json) ==
    LET map == AsMap(json)
    IN  CASE json = Nil -> Nil
          [] IsIterableSchema(schema) ->
                IF json.kind = "list" THEN ParseList(GetBaseSchema(schema), json.items)
                ELSE Invalid
          [] schema \in {<<t>> : t \in ElementSchemas} -> FromDict(schema[1], map)
          [] schema \in {<<"Integer">>, <<"Long">>} -> Num(ScanInt(json))
          [] schema \in {<<"Ip">>, <<"Prefix">>, <<"String">>} -> Sprint(json)
          [] schema = <<"NextHop">> ->
                IF VariantOf("NextHop", map) = "none" THEN Invalid
                ELSE FromDict(VariantOf("NextHop", map), map)
          [] schema = <<"Node">> -> Lookup(map, "name")
          [] schema = <<"SelfDescribing">> ->
                ParseJSONWithSchema(Sprint(Lookup(map, "schema")).parts, Lookup(map, "value"))
          [] OTHER -> json

-----------------------------------------------------------------------------
AsBool(v) == v = Bool(TRUE) \/ v \in {Str("true"), Str("True"), Str("1")}
Flag(map, key) == Lookup(map, key) = Nil \/ AsBool(Lookup(map, key))

NewColumnMetadata(map) ==
    IF {"name", "schema"} \subseteq DOMAIN map
    THEN [name |-> Sprint(map["name"]), schema |-> Sprint(map["schema"]).parts,
          isKey |-> Flag(map, "isKey"), isValue |-> Flag(map, "isValue")]
    ELSE Invalid

NewTableMetadata(map) ==
    LET columns == [i \in DOMAIN SliceField(map, "columnMetadata") |->
                       NewColumnMetadata(AsMap(SliceField(map, "columnMetadata")[i]))]
    IN  IF FirstFailure(columns) = Invalid THEN Invalid ELSE List(columns)

RowsOf(map) == [i \in DOMAIN SliceField(map, "rows") |-> AsMap(SliceField(map, "rows")[i])]

ParseCell(column, row) ==
    ParseJSONWithSchema(column.schema, Lookup(row, column.name.parts[1]))

(* Faulty: one cell that does not parse ends the column.                    *)
Stopped(parsed) ==
    IF Panic \in ToSet(parsed) THEN <<Panic>>
    ELSE IF Invalid \in ToSet(parsed) THEN <<>> ELSE parsed
ParseColumnOrStop(column, rows) ==
    Stopped([i \in DOMAIN rows |-> ParseCell(column, rows[i])])

(* A cell that does not parse is nil.                                       *)
NilIfInvalid(v) == IF v = Invalid THEN Nil ELSE v
ParseColumn(column, rows) ==
    [i \in DOMAIN rows |-> NilIfInvalid(ParseCell(column, rows[i]))]

RowsToFrame(metadata, rows) ==
    LET order == [i \in DOMAIN metadata |-> metadata[i].name.parts[1]]
        (* Of columns with one name the last is the one whose cells stay.   *)
        LastOf(name) == CHOOSE i \in DOMAIN order :
                           order[i] = name /\ \A j \in DOMAIN order : order[j] = name => j <= i
    IN  New(order, [name \in ToSet(order) |-> ParseColumn(metadata[LastOf(name)], rows)])

FramePanics(df) == \E c \in DOMAIN df.cols : Panic \in ToSet(df.cols[c])

Table(metadata, frame, exclusions) ==
    IF FramePanics(frame) THEN Panic
    ELSE [kind |-> "table", metadata |-> metadata, frame |-> frame,
          excluded |-> [i \in DOMAIN exclusions |->
                           [name |-> Sprint(exclusions[i]["exclusionName"]),
                            rows |-> RowsOf(exclusions[i])]]]

(* One that has all it must have, read from an answer element.              *)
TableOfElement(element, metadata, exclusions) ==
    IF \/ metadata = Invalid
       \/ \E i \in DOMAIN exclusions : "exclusionName" \notin DOMAIN exclusions[i]
    THEN Invalid
    ELSE Table(metadata.items, RowsToFrame(metadata.items, RowsOf(element)), exclusions)

FirstElement(dictionary) == AsMap(SliceField(dictionary, "answerElements")[1])

(* An error, a panic, or the table.                                         *)
NewTableAnswer(dictionary) ==
    IF \/ SliceField(dictionary, "answerElements") = <<>>
       \/ "metadata" \notin DOMAIN FirstElement(dictionary)
    THEN Invalid
    ELSE LET element == FirstElement(dictionary)
         IN  TableOfElement(element, NewTableMetadata(AsMap(element["metadata"])),
                            [i \in DOMAIN SliceField(element, "excludedRows") |->
                                AsMap(SliceField(element, "excludedRows")[i])])

(* The rows of the last exclusion with the name.                            *)
ExcludedFrame(table, name) ==
    LET named == SelectSeq(table.excluded, LAMBDA e : e.name = name)
    IN  IF named = <<>> THEN Invalid
        ELSE RowsToFrame(table.metadata, named[Len(named)].rows)

TableClass == Str("org.batfish.datamodel.table.TableAnswerElement")
IsTableAns(dictionary) ==
    /\ SliceField(dictionary, "answerElements") # <<>>
    /\ Lookup(FirstElement(dictionary), "class") = TableClass

(* Session.GetAnswer: any other answer stays the dictionary that it was.    *)
GetAnswer(dictionary) ==
    IF IsTableAns(dictionary) THEN NewTableAnswer(dictionary) ELSE Map(dictionary)
=============================================================================
