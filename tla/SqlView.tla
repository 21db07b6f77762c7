------------------------------- MODULE SqlView -------------------------------
(***************************************************************************)
(* perspective-client/src/rust/virtual_server/generic_sql_model.rs,        *)
(* generic_sql_model/table_make_view.rs and data.rs: a view of a virtual   *)
(* server as one SQL query, CREATE TABLE view AS (SELECT ... ORDER BY      *)
(* ...), the pages that are read of it with LIMIT and OFFSET, and the row  *)
(* paths that are recovered from the keys of the ROLLUP.                   *)
(*                                                                         *)
(* The query is modelled by what the database makes of it, not by its      *)
(* text: NULL is 0, below every value, and databases are used with         *)
(* NULLS_FIRST_ON_ASC_LAST_ON_DESC, so a DESC key is the negated value.    *)
(* Windows, and abs sorts, which become plain ones, are left out.          *)
(***************************************************************************)
EXTENDS Integers, Sequences, FiniteSets
LOCAL INSTANCE FiniteSetsExt
LOCAL INSTANCE SequencesExt

CONSTANTS
    Sources,       \* tables: sequences of rows, in rowid order
    SqlConfigs,    \* [group, split, columns, sort, filter, mode, splitRollup]
    AggregateOf,   \* the aggregate of each column: "sum" or "max"
    PageRows       \* rows of a page

VARIABLES source, shape,
          result,   \* the rows of the view's table, in order; <<>> before it is made
          pages,    \* what the client has read: rows with their paths
          stage     \* "new" or "made"

sqlVars == <<source, shape, result, pages, stage>>

SqlNull == 0
-----------------------------------------------------------------------------
(* Rows and aggregates.                                                    *)

\* is_col_sort: a sort of columns orders no rows.
RowSorts(c) == SelectSeq(c.sort, LAMBDA k : k.dir \in {"asc", "desc"})
Directed(k, v) == IF k.dir = "desc" THEN -v ELSE v

\* filter_clause_sql: a comparison with a null is dropped, a comparison of a
\* null row value is not true.
Holds(f, row) ==
    CASE f.op = "is null" -> row[f.column] = SqlNull
      [] f.op = "is not null" -> row[f.column] # SqlNull
      [] f.op = "==" -> row[f.column] # SqlNull /\ row[f.column] = f.term
      [] f.op = "!=" -> row[f.column] # SqlNull /\ row[f.column] # f.term
Clauses(c) == {f \in c.filter : f.op \in {"is null", "is not null"} \/ f.term # SqlNull}

\* The rowids that WHERE keeps.
Where(src, c) == {r \in DOMAIN src : \A f \in Clauses(c) : Holds(f, src[r])}

Aggregate(src, col, ids) ==
    LET values == {r \in ids : src[r][col] # SqlNull} IN
    IF values = {} THEN SqlNull
    ELSE IF AggregateOf[col] = "sum" THEN MapThenSumSet(LAMBDA r : src[r][col], values)
    ELSE Max({src[r][col] : r \in values})

\* get_aggregate and col_name: a column of a view with no rows to aggregate.
Value(src, col, r) == src[r][col]
-----------------------------------------------------------------------------
(* Columns: a column of the view is a path of split values and the name.   *)

SplitPath(src, c, r, kept) == [i \in 1 .. kept |-> src[r][c.split[i]]]

\* pivot_on_expr_for: the leaf's values, and for a rollup every prefix too.
KeptSplits(c) == IF c.splitRollup THEN 0 .. Len(c.split) ELSE {Len(c.split)}
ColumnPaths(src, c) ==
    UNION {{<<SplitPath(src, c, r, k), i>> : i \in DOMAIN c.columns} : r \in Where(src, c), k \in KeptSplits(c)}

\* sort_column_paths: by split values, then by the order of the columns.
Smaller(a, b) ==
    \/ \E i \in DOMAIN a \cap DOMAIN b : a[i] < b[i] /\ \A j \in 1 .. i - 1 : a[j] = b[j]
    \/ Len(a) < Len(b) /\ \A i \in DOMAIN a : a[i] = b[i]
PathBefore(p, q) == Smaller(p[1], q[1]) \/ (p[1] = q[1] /\ p[2] < q[2])
DataColumns(src, c) == SetToSortSeq(ColumnPaths(src, c), PathBefore)

InSplit(src, c, path, ids) == {r \in ids : SplitPath(src, c, r, Len(path)) = path}

\* select_clauses: the rows of a view without groups hold values, all others
\* aggregates of them.
Aggregated(c) == c.mode = "total" \/ c.group # <<>>
Cell(src, c, col, ids) ==
    IF ids = {} THEN SqlNull
    ELSE IF Aggregated(c) THEN Aggregate(src, col, ids) ELSE Value(src, col, Min(ids))
Cells(src, c, ids) ==
    [p \in ColumnPaths(src, c) |-> Cell(src, c, c.columns[p[2]], InSplit(src, c, p[1], ids))]
-----------------------------------------------------------------------------
(* Rows of the view: [keys, grouping, ids, cells, sorts].                  *)

Grouped(c) == c.group # <<>> /\ c.mode # "total"
FlatMode(c) == c.mode = "flat"
Depth(c) == Len(c.group)

KeysOf(src, c, r, d) == [i \in 1 .. d |-> src[r][c.group[i]]]

\* GROUPING_ID over the group columns: the bits of those rolled up.
GroupingId(c, d) == 2 ^ (Depth(c) - d) - 1

\* sort_source_expr: under a split, the sum over the splits of the aggregate.
SortSource(src, c, k, ids) ==
    IF c.split = <<>> THEN Aggregate(src, k.column, ids)
    ELSE MapThenSumSet(LAMBDA p : Aggregate(src, k.column, InSplit(src, c, p, ids)),
                       {SplitPath(src, c, r, Len(c.split)) : r \in ids})

\* row_path_select_clauses and grouping_id_clause: a key that is rolled up is
\* a NULL, like a key that is NULL.
GroupRow(src, c, d, ids) ==
    LET r == CHOOSE x \in ids : TRUE IN
    [keys |-> [i \in 1 .. Depth(c) |-> IF i <= d THEN src[r][c.group[i]] ELSE SqlNull],
     grouping |-> GroupingId(c, d),
     ids |-> ids,
     cells |-> Cells(src, c, ids),
     sorts |-> [j \in DOMAIN RowSorts(c) |-> SortSource(src, c, RowSorts(c)[j], ids)]]

\* GROUP BY ROLLUP (group columns), or in flat mode GROUP BY alone.
GroupRows(src, c) ==
    LET all == Where(src, c)
        depths == IF FlatMode(c) THEN {Depth(c)} ELSE 0 .. Depth(c)
    IN  UNION {{GroupRow(src, c, d, {x \in all : KeysOf(src, c, x, d) = KeysOf(src, c, r, d)}) : r \in all} : d \in depths}

\* A row of its own for each source row, or one for all of them.
PlainRow(src, c, ids) ==
    [keys |-> <<>>, grouping |-> 0, ids |-> ids, cells |-> Cells(src, c, ids),
     sorts |-> [j \in DOMAIN RowSorts(c) |-> Value(src, RowSorts(c)[j].column, Min(ids))]]
FlatRows(src, c) == {PlainRow(src, c, {r}) : r \in Where(src, c)}
TotalRows(src, c) == IF Where(src, c) = {} THEN {} ELSE {PlainRow(src, c, Where(src, c))}

\* query_orientation and the arms of build_query.
QueryRows(src, c) ==
    IF c.mode = "total" THEN TotalRows(src, c)
    ELSE IF c.group = <<>> THEN FlatRows(src, c)
    ELSE GroupRows(src, c)
-----------------------------------------------------------------------------
(* ORDER BY.                                                               *)

\* GROUPING of the first n group columns, or __GROUPING_ID__ >> shift.
Shifted(row, c, n) == row.grouping \div (2 ^ (Depth(c) - n))
Prefix(row, n) == SubSeq(row.keys, 1, n)

\* __WINDOW_n__: the rows of the same group at level n, the group's own total
\* among them; its first row is the first by the group columns.  Where a key
\* is NULL that is a tie of the total and a group below it: "tie" says which
\* of them the database takes.
WindowRows(rows, row, c, n) ==
    {q \in rows : Prefix(q, n) = Prefix(row, n) /\ (FlatMode(c) \/ Shifted(q, c, n) = Shifted(row, c, n))}
FirstOf(rows, tie) ==
    LET firsts == {q \in rows : \A p \in rows : ~Smaller(p.keys, q.keys)} IN
    CHOOSE q \in firsts : \A p \in firsts : IF tie = "total" THEN p.grouping <= q.grouping ELSE p.grouping >= q.grouping

SortKeys(row, c) == [j \in DOMAIN row.sorts |-> Directed(RowSorts(c)[j], row.sorts[j])]

\* The total's own sort value orders the groups at every level but the last.
LevelSort(rows, row, c, n, tie) ==
    SortKeys(IF n = Depth(c) THEN row ELSE FirstOf(WindowRows(rows, row, c, n), tie), c)

LevelKeys(rows, row, c, n, tie) ==
    (IF FlatMode(c) THEN <<>> ELSE <<-Shifted(row, c, n)>>) \o LevelSort(rows, row, c, n, tie) \o <<row.keys[n]>>

FlatModeKeys(rows, row, c, tie) ==
    IF RowSorts(c) = <<>> THEN row.keys
    ELSE IF Depth(c) > 1 THEN FlattenSeq([n \in 1 .. Depth(c) |-> LevelKeys(rows, row, c, n, tie)])
    ELSE SortKeys(row, c)

\* The rowid breaks ties of the rows of a pivot only; elsewhere any order will do.
OrderKeys(rows, row, c, tie) ==
    CASE ~Grouped(c) -> SortKeys(row, c) \o <<Min(row.ids)>>
      [] Grouped(c) /\ FlatMode(c) -> FlatModeKeys(rows, row, c, tie)
      [] OTHER -> FlattenSeq([n \in 1 .. Depth(c) |-> LevelKeys(rows, row, c, n, tie)])

OrderedRows(src, c, tie) ==
    LET rows == QueryRows(src, c) IN
    SetToSortSeq(rows, LAMBDA p, q : Smaller(OrderKeys(rows, p, c, tie), OrderKeys(rows, q, c, tie)))
-----------------------------------------------------------------------------
(* Reading.                                                                *)

\* The levels of the path a row has: those that are not rolled up.
MutMaxGroupingId(c, n) == 2 ^ (Depth(c) - n + 1)
MaxGroupingId(c, n) == 2 ^ (Depth(c) - n + 1) - 1

Unrolled(row, c) ==
    LET levels == SelectSeq([n \in DOMAIN row.keys |-> n], LAMBDA n : row.grouping < MaxGroupingId(c, n))
    IN  [i \in DOMAIN levels |-> row.keys[levels[i]]]

\* from_arrow_ipc: without a __GROUPING_ID__ in flat mode every level counts.
ArrowPath(row, c) == IF FlatMode(c) THEN row.keys ELSE Unrolled(row, c)

\* set_col: cell by cell; a level with no grouping id is no level.
SetColPath(row, c) == IF FlatMode(c) THEN <<>> ELSE Unrolled(row, c)

\* render_to_rows: the rows of the slice, each with its path beside it.
RenderToRows(slice, c, columns) ==
    [i \in DOMAIN slice |->
        [path |-> SetColPath(slice[i], c), cells |-> [k \in DOMAIN columns |-> slice[i].cells[columns[k]]]]]

\* render_to_columns_json: the same, column by column, and the rows a reader
\* makes of it.
RenderToColumns(slice, c, columns) ==
    [paths |-> [i \in DOMAIN slice |-> ArrowPath(slice[i], c)],
     cells |-> [k \in DOMAIN columns |-> [i \in DOMAIN slice |-> slice[i].cells[columns[k]]]]]
RowsOfColumns(r) ==
    [i \in DOMAIN r.paths |-> [path |-> r.paths[i], cells |-> [k \in DOMAIN r.cells |-> r.cells[k][i]]]]
-----------------------------------------------------------------------------
SqlInit ==
    /\ source \in Sources /\ shape \in SqlConfigs
    /\ result = <<>> /\ pages = <<>> /\ stage = "new"

\* table_make_view: the table is made once, in order.
TableMakeViewSql ==
    /\ stage = "new" /\ stage' = "made"
    /\ \E tie \in {"total", "group"} : result' = OrderedRows(source, shape, tie)
    /\ UNCHANGED <<source, shape, pages>>

\* view_get_data: LIMIT and OFFSET of the rows; the columns in the order of the
\* column paths, or of their names when columns are sorted.
Page == SubSeq(result, Len(pages) + 1, Min({Len(result), Len(pages) + PageRows}))
PageColumns ==
    LET paths == DataColumns(source, shape) IN
    IF \E i \in DOMAIN shape.sort : shape.sort[i].dir = "col desc" THEN Reverse(paths) ELSE paths

\* The next page is read as Arrow and asked for as columns, or is filled in
\* cell by cell and asked for as rows.
ViewGetDataSql ==
    /\ stage = "made" /\ Len(pages) < Len(result)
    /\ \/ pages' = pages \o RowsOfColumns(RenderToColumns(Page, shape, PageColumns))
       \/ pages' = pages \o RenderToRows(Page, shape, PageColumns)
    /\ UNCHANGED <<source, shape, result, stage>>

SqlNext == TableMakeViewSql \/ ViewGetDataSql
SqlSpec == SqlInit /\ [][SqlNext]_sqlVars
-----------------------------------------------------------------------------
Rollup == Grouped(shape) /\ ~FlatMode(shape)
Above(p, q) == Len(p) < Len(q) /\ SubSeq(q, 1, Len(p)) = p

(* The pages of a grouped view are its tree in order: no group twice, and  *)
(* every group right under its parent, before anything outside the parent  *)
(* (table_make_view.rs:948-1131, data.rs:675-717).                         *)
PagesAreTheTree ==
    Rollup => \A j \in DOMAIN pages :
        LET path == pages[j].path IN
        /\ \A i \in DOMAIN pages : pages[i].path = path => i = j
        /\ path # <<>> =>
              \E i \in 1 .. j - 1 : /\ pages[i].path = SubSeq(path, 1, Len(path) - 1)
                                    /\ \A k \in i + 1 .. j : Above(pages[i].path, pages[k].path)

(* Groups of one parent are in the order of their own totals               *)
(* (table_make_view.rs:1012-1063), where no key is NULL: there the         *)
(* database may sort a group by one of its children instead.               *)
NoNullKeys == \A i \in DOMAIN source, n \in DOMAIN shape.group : source[i][shape.group[n]] # SqlNull
SiblingsAreSorted ==
    Rollup /\ NoNullKeys /\ shape.sort # <<>> =>
        \A i, j \in DOMAIN result :
            /\ i < j /\ result[i].grouping = result[j].grouping
            /\ \E n \in 1 .. Depth(shape) : /\ result[i].grouping = GroupingId(shape, n)
                                            /\ Prefix(result[i], n - 1) = Prefix(result[j], n - 1)
            => ~Smaller(SortKeys(result[j], shape), SortKeys(result[i], shape))

(* The rows that the SQL of a view yields, page after page, are its tree   *)
(* in the order of its sort.                                               *)
PagesAreTheSortedTree == PagesAreTheTree /\ SiblingsAreSorted
=============================================================================
