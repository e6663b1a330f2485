----------------------------- MODULE DataModel -----------------------------
(***************************************************************************)
(* JSON values and the typed accessors of package datamodel, with which    *)
(* every FromDict constructor reads them (datamodel.go).  A text is the    *)
(* sequence of its comma-separated parts, a map a function on its keys.    *)
(***************************************************************************)
EXTENDS Naturals, Sequences
LOCAL INSTANCE TLC

-----------------------------------------------------------------------------
(* JSON values, and the Go values that stand in the fields of elements.     *)
Nil == [kind |-> "nil"]
Text(parts) == [kind |-> "text", parts |-> parts]
Str(s) == Text(<<s>>)
Num(n) == [kind |-> "number", value |-> n]
Float(n) == [kind |-> "float", value |-> n]     \* a float64 that a table holds as it came
Bool(b) == [kind |-> "bool", truth |-> b]
List(items) == [kind |-> "list", items |-> items]
Wrapper(items) == [kind |-> "wrapper", items |-> items]     \* ListWrapper
Map(entries) == [kind |-> "map", entries |-> entries]
Element(type, fields) == [kind |-> "element", type |-> type, fields |-> fields]
NilPointer(type) == [kind |-> "nil pointer", type |-> type]

EmptyMap == [k \in {} |-> Nil]
Lookup(map, key) == IF key \in DOMAIN map THEN map[key] ELSE Nil
Items(v) == IF v.kind = "list" THEN v.items ELSE <<>>
Entries(v) == IF v.kind = "map" THEN v.entries ELSE EmptyMap

(* fmt.Sprint; what it makes of a composite value is one more text.         *)
Sprint(v) ==
    CASE v.kind = "text" -> v
      [] v.kind \in {"number", "float"} -> Str(ToString(v.value))
      [] v.kind = "bool" -> Str(IF v.truth THEN "true" ELSE "false")
      [] v.kind = "nil" -> Str("<nil>")
      [] OTHER -> Str("[composite]")

(* strconv.Atoi, for the numbers that occur.                                *)
Atoi(s) == IF \E n \in 0..255 : ToString(n) = s
           THEN CHOOSE n \in 0..255 : ToString(n) = s ELSE 0

ToInt(v) ==
    CASE v.kind \in {"number", "float"} -> v.value
      [] v.kind = "text" /\ Len(v.parts) = 1 -> Atoi(v.parts[1])
      [] OTHER -> 0

(* strconv.ParseBool; a text that it does not know is false.                *)
TrueWords == {"1", "t", "T", "TRUE", "true", "True"}
ToBool(v) == v = Bool(TRUE) \/ v \in {Str(word) : word \in TrueWords}

StrField(map, key) ==
    IF Lookup(map, key) = Nil THEN Str("") ELSE Sprint(Lookup(map, key))
OptStrField(map, key) ==
    IF Lookup(map, key) = Nil THEN Nil ELSE Sprint(Lookup(map, key))
OptIntField(map, key) ==
    IF Lookup(map, key) = Nil THEN Nil ELSE Num(ToInt(Lookup(map, key)))
OptBoolField(map, key) ==
    IF Lookup(map, key) = Nil THEN Nil ELSE Bool(ToBool(Lookup(map, key)))
SliceField(map, key) == Items(Lookup(map, key))
MapField(map, key) == Entries(Lookup(map, key))

StringSliceField(map, key) ==
    List([i \in DOMAIN SliceField(map, key) |-> Sprint(SliceField(map, key)[i])])
IntSliceField(map, key) ==
    List([i \in DOMAIN SliceField(map, key) |-> Num(ToInt(SliceField(map, key)[i]))])
IntListMapField(map, key) ==
    Map([k \in DOMAIN MapField(map, key) |-> IntSliceField(MapField(map, key), k)])
StringMapMapField(map, key) ==
    Map([k \in DOMAIN MapField(map, key) |->
            Map([j \in DOMAIN MapField(MapField(map, key), k) |->
                    Sprint(MapField(MapField(map, key), k)[j])])])
=============================================================================
