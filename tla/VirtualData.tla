---------------------------- MODULE VirtualData ----------------------------
(***************************************************************************)
(* The data of a virtual view (perspective-client virtual_server/data.rs): *)
(* a handler fills a slice with the page of rows it was asked for, either  *)
(* from an Arrow stream of the database or cell by cell with set_col()     *)
(* from JavaScript or Python, and the server renders it as rows, as        *)
(* columns or as Arrow, which the JavaScript client shows as typed arrays  *)
(* (perspective-js typed_array.rs).                                        *)
(*                                                                         *)
(* A page has one data column "c", and one column per level of its group   *)
(* by, all of one type. An Arrow array is [type, values, dict]: of a       *)
(* dictionary the values are keys, counted from 0, in dict.                *)
(***************************************************************************)
EXTENDS Integers, Sequences, FiniteSets
LOCAL INSTANCE SequencesExt

CONSTANTS
    SlicePages,    \* type -> the pages asked for: [levels, flat, type, rows]
    Nothing,       \* null
    Thousand,      \* 1000, the ratio of the units of time
    DayMs,         \* 86_400_000, the milliseconds of a day
    MaxI32         \* 2^31 - 1, the largest integer of a cell

VARIABLES page, hostLanguage, slice, written, lost, answer
dataVars == <<page, hostLanguage, slice, written, lost, answer>>

LevelNames == <<"__ROW_PATH_0__", "__ROW_PATH_1__">>
Levels == {LevelNames[i] : i \in 1..page.levels}
NumRows == Len(page.rows)
MaxGid(level) == 2 ^ (page.levels - level) - 1

-----------------------------------------------------------------------------
(* Arrow: what a database sends, and coerce_column                         *)

Flat(type, values) == [type |-> type, values |-> values, dict |-> <<>>]
Each(values, Op(_)) == [i \in DOMAIN values |-> IF values[i] = Nothing THEN Nothing ELSE Op(values[i])]
Position(dict, v) == (CHOOSE i \in DOMAIN dict : dict[i] = v) - 1

\* StringDictionaryBuilder: the values in the order they are first seen.
AppendNew(dict, v) == IF v = Nothing \/ v \in {dict[i] : i \in DOMAIN dict} THEN dict ELSE Append(dict, v)
Dictionary(values) ==
    LET dict == FoldLeft(AppendNew, <<>>, values)
    IN  [type |-> "Dictionary", values |-> Each(values, LAMBDA v : Position(dict, v)), dict |-> dict]

\* The Arrow types a database may send a type of column with.
CellSources ==
    [boolean |-> {"Boolean"},
     string |-> {"Dictionary", "Utf8", "SmallDictionary"},
     float |-> {"Float64", "UInt32", "Decimal128"},
     integer |-> {"Int32", "Int8", "IntegerDictionary"},
     datetime |-> {"Millisecond", "Second", "Microsecond", "Time64"},
     date |-> {"Date32", "Date64"}]

\* A small dictionary holds the null itself.
NullInDictionary(values) ==
    LET dict == Append(FoldLeft(AppendNew, <<>>, values), Nothing)
    IN  [type |-> "SmallDictionary", values |-> [i \in DOMAIN values |-> Position(dict, values[i])], dict |-> dict]
Encode(source, values) ==
    CASE source = "Dictionary" -> Dictionary(values)
      [] source = "SmallDictionary" -> NullInDictionary(values)
      [] source = "IntegerDictionary" -> [NullInDictionary(values) EXCEPT !.type = source]
      [] source = "Decimal128" -> Flat(source, Each(values, LAMBDA v : v * 10))
      [] source = "Second" -> Flat(source, Each(values, LAMBDA v : v \div Thousand))
      [] source \in {"Microsecond", "Time64"} -> Flat(source, Each(values, LAMBDA v : v * Thousand))
      [] source = "Date64" -> Flat(source, Each(values, LAMBDA v : v * DayMs))
      [] OTHER -> Flat(source, values)

CanonicalTypes == {"Boolean", "Float64", "Int32", "Date32", "Millisecond", "Dictionary"}
CoerceStrings(array) == Dictionary(array.values)
CoerceIntegers(array) == Flat("Int32", array.values)
CoerceFloats(array) ==
    Flat("Float64", IF array.type = "Decimal128" THEN Each(array.values, LAMBDA v : v \div 10) ELSE array.values)
CoerceDates(array) == Flat("Date32", Each(array.values, LAMBDA v : v \div DayMs))
TimestampToMillis(array) ==
    Flat("Millisecond", Each(array.values, LAMBDA v : IF array.type = "Second" THEN v * Thousand ELSE v \div Thousand))
TimeToMillis(array) == Flat("Millisecond", Each(array.values, LAMBDA v : v \div Thousand))

CoerceValues(array) ==
    CASE array.type \in CanonicalTypes -> array
      [] array.type = "Utf8" -> CoerceStrings(array)
      [] array.type = "Int8" -> CoerceIntegers(array)
      [] array.type \in {"UInt32", "Decimal128"} -> CoerceFloats(array)
      [] array.type = "Date64" -> CoerceDates(array)
      [] array.type \in {"Second", "Microsecond"} -> TimestampToMillis(array)
      [] array.type = "Time64" -> TimeToMillis(array)
\* Any other dictionary is taken apart, and its values coerced.
TakenApart(array) ==
    Flat(IF array.type = "SmallDictionary" THEN "Utf8" ELSE "Int8", Each(array.values, LAMBDA k : array.dict[k + 1]))
CoerceColumn(array) ==
    IF array.type \in {"SmallDictionary", "IntegerDictionary"} THEN CoerceValues(TakenApart(array)) ELSE CoerceValues(array)

-----------------------------------------------------------------------------
(* Slices: the columns, and the path of every row once there is one        *)

EmptySlice == [columns |-> [n \in {} |-> <<>>], paths |-> <<>>, hasPaths |-> FALSE, frozen |-> FALSE]

\* dict_str_value, extract_scalar
CellOf(array, i) ==
    IF array.values[i] # Nothing /\ array.type = "Dictionary" THEN array.dict[array.values[i] + 1] ELSE array.values[i]
Millis(array, v) == IF v # Nothing /\ array.type = "Date32" THEN v * DayMs ELSE v
ExtractScalar(array, i) == Millis(array, CellOf(array, i))

ColumnOf(name) == [r \in 1..NumRows |->
    IF name = "c" THEN page.rows[r].value ELSE page.rows[r].path[CHOOSE l \in 1..page.levels : LevelNames[l] = name]]
ArrowSlice(source) ==
    LET coerced == [n \in Levels \cup {"c"} |-> CoerceColumn(Encode(source, ColumnOf(n)))]
        shown(r) == {l \in 1..page.levels : page.flat \/ page.rows[r].gid < MaxGid(l - 1)}
        path(r) == [l \in 1..Cardinality(shown(r)) |-> ExtractScalar(coerced[LevelNames[l]], r)]
    IN  [columns |-> coerced, paths |-> IF page.levels > 0 THEN [r \in 1..NumRows |-> path(r)] ELSE <<>>,
         hasPaths |-> page.levels > 0, frozen |-> TRUE]

\* set_col(): a cell of a level is appended to the path of its row, any other
\* to its column, wherever its row is.
MutPadded(paths, index) == paths
Padded(paths, index) == IF Len(paths) < index THEN paths \o [i \in 1..(index - Len(paths)) |-> <<>>] ELSE paths
SetPath(s, level, gid, index, v) ==
    IF gid >= MaxGid(level) THEN s
    ELSE IF index < Len(s.paths) THEN [s EXCEPT !.paths[index + 1] = Append(@, v)]
    ELSE [s EXCEPT !.paths = Append(Padded(@, index), <<v>>), !.hasPaths = TRUE]
SetCell(s, v) ==
    LET old == IF "c" \in DOMAIN s.columns THEN s.columns["c"] ELSE <<>>
    IN  [s EXCEPT !.columns = [n \in {"c"} |-> Append(old, v)]]

\* The builders of the columns, finished when the slice is first read.
BuilderType == [boolean |-> "Boolean", string |-> "Dictionary", float |-> "Float64", integer |-> "Int32",
                datetime |-> "Millisecond", date |-> "Millisecond"]
Finished(type, values) == IF type = "string" THEN Dictionary(values) ELSE Flat(BuilderType[type], values)
Frozen(s) ==
    IF s.frozen THEN s
    ELSE [s EXCEPT !.columns = [n \in DOMAIN @ |-> Finished(page.type, @[n])], !.frozen = TRUE]

-----------------------------------------------------------------------------
(* Hosts: what setCol() makes of the value of a language                   *)

\* A date is given as the instant it begins.
Given(type, v) == IF v # Nothing /\ type = "date" THEN v * DayMs ELSE v
Accepts(language, type, v) == ~(language = "python" /\ type = "integer" /\ v # Nothing /\ v > MaxI32)
JsIntegerCell(v) == IF v > MaxI32 THEN MaxI32 ELSE v
\* A datetime is a date in Python, and of a date only the day is read.
PyDatetimeCell(v) == (v \div DayMs) * DayMs
CellFor(language, type, v) ==
    IF v = Nothing THEN v
    ELSE CASE type = "integer" -> JsIntegerCell(v)
           [] type = "datetime" /\ language = "python" -> PyDatetimeCell(v)
           [] OTHER -> v

-----------------------------------------------------------------------------
(* Readers                                                                 *)

\* render_to_rows: with the path of the row, or with a cell for each level.
\* A null date is left out.
LevelCells(s, r) == [n \in Levels |-> LET l == CHOOSE l \in 1..page.levels : LevelNames[l] = n
                                      IN  IF l <= Len(s.paths[r]) THEN s.paths[r][l] ELSE Nothing]
Merge(f, g) == [k \in DOMAIN f \cup DOMAIN g |-> IF k \in DOMAIN f THEN f[k] ELSE g[k]]
SliceRows(s, sidecar) ==
    LET numRows == IF DOMAIN s.columns = {} THEN Len(s.paths) ELSE Len(s.columns["c"].values)
        names(r) == {n \in DOMAIN s.columns : ~(sidecar /\ n # "c") /\
                         ~(s.columns[n].type = "Date32" /\ s.columns[n].values[r] = Nothing)}
        cells(r) == [n \in names(r) |-> Millis(s.columns[n], CellOf(s.columns[n], r))]
        path(r) == IF ~s.hasPaths \/ r > Len(s.paths) THEN [n \in {} |-> Nothing]
                   ELSE IF sidecar THEN [n \in {"__ROW_PATH__"} |-> s.paths[r]]
                   ELSE IF DOMAIN s.columns \cap Levels = {} THEN LevelCells(s, r)
                   ELSE [n \in {} |-> Nothing]
    IN  [r \in 1..numRows |-> Merge(path(r), cells(r))]

\* render_to_columns_json
SliceColumns(s, id) ==
    LET keys == (IF s.hasPaths THEN {"__ROW_PATH__"} ELSE {}) \cup (IF s.hasPaths /\ id THEN {"__ID__"} ELSE {})
        column(array) == [r \in DOMAIN array.values |-> Millis(array, CellOf(array, r))]
    IN  Merge([k \in keys |-> s.paths], [n \in DOMAIN s.columns \ Levels |-> column(s.columns[n])])

\* decode_and_call: views of the arrays, 0 where there is no value.
ZeroInvalidSlots(values) == [i \in DOMAIN values |-> IF values[i] = Nothing THEN 0 ELSE values[i]]
TypedArray(array) ==
    [values |-> IF array.type = "Date32" THEN [i \in DOMAIN array.values |-> ZeroInvalidSlots(array.values)[i] * DayMs]
                ELSE ZeroInvalidSlots(array.values),
     valid |-> [i \in DOMAIN array.values |-> array.values[i] # Nothing], dict |-> array.dict]
Typed(s) == [n \in DOMAIN s.columns |-> TypedArray(s.columns[n])]
Untyped == [n \in {"error"} |-> "Unsupported column type for typed array: Boolean"]

Render(kind, s) ==
    CASE kind = "rows" -> SliceRows(s, TRUE)
      [] kind = "csv" -> SliceRows(s, FALSE)
      [] kind = "columns" -> SliceColumns(s, FALSE)
      [] kind = "columns with ids" -> SliceColumns(s, TRUE)
      [] kind = "typed" /\ page.type = "boolean" -> Untyped
      [] kind = "typed" /\ page.type # "boolean" -> Typed(s)

-----------------------------------------------------------------------------
(* Behaviour                                                               *)

NoAnswer == [kind |-> "none"]
DataInit ==
    /\ \E type \in DOMAIN SlicePages : page \in SlicePages[type]
    /\ hostLanguage \in {"arrow", "js", "python"}
    /\ slice = EmptySlice /\ written = 0 /\ lost = FALSE /\ answer = NoAnswer

Full == written = NumRows * (page.levels + 1)

FromArrowIpc ==
    /\ hostLanguage = "arrow" /\ ~Full
    /\ \E source \in CellSources[page.type] : slice' = ArrowSlice(source)
    /\ written' = NumRows * (page.levels + 1)
    /\ UNCHANGED <<page, hostLanguage, lost, answer>>

\* The handlers write column by column, the levels first.
NextColumn == written \div NumRows
NextRow == written % NumRows
NextValue == Given(page.type, IF NextColumn < page.levels THEN page.rows[NextRow + 1].path[NextColumn + 1]
                              ELSE page.rows[NextRow + 1].value)
SetCol ==
    /\ hostLanguage # "arrow" /\ ~Full
    /\ Accepts(hostLanguage, page.type, NextValue)
    /\ LET v == CellFor(hostLanguage, page.type, NextValue)
       IN  /\ slice' = IF NextColumn < page.levels
                       THEN SetPath(slice, NextColumn, page.rows[NextRow + 1].gid, NextRow, v)
                       ELSE SetCell(slice, v)
           /\ lost' = (lost \/ v # NextValue)
    /\ written' = written + 1
    /\ UNCHANGED <<page, hostLanguage, answer>>
\* A value of another type is logged, and the cell is not written.
UnhandledValue ==
    /\ hostLanguage # "arrow" /\ ~Full
    /\ ~Accepts(hostLanguage, page.type, NextValue)
    /\ written' = written + 1 /\ lost' = TRUE
    /\ UNCHANGED <<page, hostLanguage, slice, answer>>

RenderSlice ==
    /\ Full /\ answer = NoAnswer
    /\ slice' = Frozen(slice)
    /\ \E kind \in {"rows", "csv", "columns", "columns with ids", "typed"} :
         answer' = [kind |-> kind, value |-> Render(kind, slice')]
    /\ UNCHANGED <<page, hostLanguage, written, lost>>

DataNext == FromArrowIpc \/ SetCol \/ UnhandledValue \/ RenderSlice
DataSpec == DataInit /\ [][DataNext]_dataVars

-----------------------------------------------------------------------------
(* What is checked                                                         *)

\* The page as each kind of answer shows it: a row of the tree has the keys
\* down to its level, a date is an instant.
PathOf(r) ==
    LET depth == IF page.flat THEN page.levels
                 ELSE CHOOSE d \in 0..page.levels : page.rows[r].gid + 1 = 2 ^ (page.levels - d)
    IN  [l \in 1..depth |-> Given(page.type, page.rows[r].path[l])]
ValueOf(r) == Given(page.type, page.rows[r].value)
Expected(kind) ==
    LET path(r) == IF page.levels = 0 THEN [k \in {} |-> Nothing] ELSE [k \in {"__ROW_PATH__"} |-> PathOf(r)]
        levels(r) == [n \in Levels |-> LET l == CHOOSE l \in 1..page.levels : LevelNames[l] = n
                                       IN  IF l <= Len(PathOf(r)) THEN PathOf(r)[l] ELSE Nothing]
        value(r) == [k \in {"c"} |-> ValueOf(r)]
        keys == IF page.levels = 0 THEN {} ELSE IF kind = "columns" THEN {"__ROW_PATH__"} ELSE {"__ROW_PATH__", "__ID__"}
    IN  CASE kind = "rows" -> [r \in 1..NumRows |-> Merge(path(r), value(r))]
          [] kind = "csv" -> [r \in 1..NumRows |-> Merge(levels(r), value(r))]
          [] OTHER -> Merge([k \in keys |-> [r \in 1..NumRows |-> PathOf(r)]], [k \in {"c"} |-> [r \in 1..NumRows |-> ValueOf(r)]])

\* A typed array shows the column: what a consumer reads of a valid slot is the
\* value, and an invalid one holds 0.
Shows(typed, values) ==
    \A i \in DOMAIN values :
        /\ typed.valid[i] = (values[i] # Nothing)
        /\ values[i] = Nothing => typed.values[i] = 0
        /\ values[i] # Nothing => values[i] = IF typed.dict = <<>> THEN typed.values[i] ELSE typed.dict[typed.values[i] + 1]
NullDates == page.type = "date" /\ \E r \in 1..NumRows : page.rows[r].value = Nothing \/ \E l \in 1..page.levels : page.rows[r].path[l] = Nothing

\* However the page was sent and whatever it is read as, it is the page, unless
\* a cell did not fit its column (set_col) or, in rows, a date is null
\* (render_to_rows leaves it out).
AnswersAreThePage ==
    answer.kind # "none" /\ ~lost =>
        CASE answer.kind = "typed" -> page.type # "boolean" => Shows(answer.value["c"], [r \in 1..NumRows |-> ValueOf(r)])
          [] answer.kind \in {"rows", "csv"} /\ hostLanguage = "arrow" /\ NullDates -> TRUE
          [] OTHER -> answer.value = Expected(answer.kind)

\* By hand: every cell is kept; rows have a cell for every column.
NothingIsLost == ~lost
RowsAreComplete == answer.kind = "csv" => \A r \in DOMAIN answer.value : DOMAIN answer.value[r] = Levels \cup {"c"}
=============================================================================
