------------------------------- MODULE Frames -------------------------------
(***************************************************************************)
(* The data frames of package dataframe: columns of cells, which need not  *)
(* be equally long.  Sorting and the rendering of frames are left out.     *)
(***************************************************************************)
EXTENDS DataModel, FiniteSets
LOCAL INSTANCE SequencesExt
LOCAL INSTANCE FiniteSetsExt

Longest(cols) == Max({0} \cup {Len(cols[c]) : c \in DOMAIN cols})
Frame(columns, cols, rows) == [columns |-> columns, cols |-> cols, rows |-> rows]

(* New: the columns of order, each once, then those that only data has.     *)
FirstTimes(order) == SelectSeq([i \in DOMAIN order |-> <<i, order[i]>>],
                               LAMBDA c : \A j \in 1..(c[1] - 1) : order[j] # c[2])
New(order, data) ==
    LET listed == [i \in DOMAIN FirstTimes(order) |-> FirstTimes(order)[i][2]]
        columns == listed \o SetToSeq(DOMAIN data \ ToSet(listed))
        cols == [c \in ToSet(columns) |-> IF c \in DOMAIN data THEN data[c] ELSE <<>>]
    IN  Frame(columns, cols, Longest(cols))
EmptyFrame == New(<<>>, EmptyMap)

HasColumn(df, c) == c \in DOMAIN df.cols
Col(df, c) == df.cols[c]
At(series, i) == IF i \in DOMAIN series THEN series[i] ELSE Nil
Records(df) == [i \in 1..df.rows |-> [c \in DOMAIN df.cols |-> At(df.cols[c], i)]]

(* take; the frame is as long as its first column then.                     *)
Take(df, rows) ==
    Frame(df.columns,
          [c \in DOMAIN df.cols |-> [i \in DOMAIN rows |-> At(df.cols[c], rows[i])]],
          IF df.columns = <<>> THEN 0 ELSE Len(rows))

(* Filter: with a mask of another length every row stays.                   *)
Filter(df, mask) ==
    IF Len(mask) # df.rows THEN df
    ELSE Take(df, SelectSeq([i \in 1..df.rows |-> i], LAMBDA i : mask[i] = Bool(TRUE)))

Reindex(df, columns) ==
    Frame(columns,
          [c \in ToSet(columns) |->
              IF HasColumn(df, c) THEN df.cols[c] ELSE [i \in 1..df.rows |-> Nil]],
          df.rows)
Drop(df, names) == Reindex(df, SelectSeq(df.columns, LAMBDA c : c \notin names))

-----------------------------------------------------------------------------
(* Equal: numbers by their value, everything else by reflect.DeepEqual.     *)
IsNumeric(v) == v.kind \in {"number", "float"}
Equal(a, b) == IF IsNumeric(a) /\ IsNumeric(b) THEN a.value = b.value ELSE a = b

Eq(series, v) == [i \in DOMAIN series |-> Bool(Equal(series[i], v))]
NotIn(series, vs) == [i \in DOMAIN series |-> Bool(\A v \in vs : ~Equal(series[i], v))]

(* hashKey tells values apart like Equal does, nil included.                *)
HashKey(v) == IF IsNumeric(v) THEN Num(v.value) ELSE v
NUnique(series) == Cardinality({HashKey(series[i]) : i \in DOMAIN series} \ {Nil})

RowKey(df, columns, i) ==
    [k \in DOMAIN columns |->
        IF HasColumn(df, columns[k]) THEN <<HashKey(At(df.cols[columns[k]], i))>> ELSE <<>>]
SameKey(df, columns, i) == {j \in 1..df.rows : RowKey(df, columns, j) = RowKey(df, columns, i)}

(* Duplicated with keep = false: every one of several rows with one key.    *)
Duplicated(df, columns) ==
    [i \in 1..df.rows |-> Bool(Cardinality(SameKey(df, columns, i)) > 1)]

(* GroupBy, and Filter of the groups whose numbers are kept.                *)
GroupBy(df, columns) == {SameKey(df, columns, i) : i \in 1..df.rows}
Group(df, rows) == Take(df, SetToSortSeq(rows, <))
KeepGroups(df, groups) == Group(df, UNION groups)
=============================================================================
