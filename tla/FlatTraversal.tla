--------------------------- MODULE FlatTraversal ---------------------------
(***************************************************************************)
(* t_ftrav and t_ctx0: the rows of a View that filters and sorts, kept up  *)
(* to date batch by batch. m_index holds the rows in order; m_pkeyidx      *)
(* remembers where each key was put, so that a later batch can find it.    *)
(*                                                                         *)
(* A view is a record [filters, sortBy, index, pkeyidx]: filters sends a   *)
(* column to the cells that pass, sortBy lists columns, all ascending.     *)
(***************************************************************************)
EXTENDS GState

LOCAL INSTANCE SequencesExt

----------------------------------------------------------------------------
(* Elements and their order: t_mselem and cmp_mselem. An unset cell sorts  *)
(* before every value; rows with equal cells are ordered by their key.     *)

CellLess(x, y) == IF x = Null THEN y # Null ELSE y # Null /\ x < y

ElemLess(e, f) ==
    \/ \E i \in DOMAIN e.row : /\ CellLess(e.row[i], f.row[i])
                               /\ \A j \in 1..(i - 1) : e.row[j] = f.row[j]
    \/ e.row = f.row /\ e.pkey < f.pkey

\* fill_sort_elem: the cells are read from the master table, after the batch.
SortElem(sortBy, k, cells) ==
    [pkey |-> k, row |-> [i \in DOMAIN sortBy |-> cells[sortBy[i]]]]

Passes(filters, cells) == \A c \in DOMAIN filters : cells[c] \in filters[c]

----------------------------------------------------------------------------
(* step_end, after the batch called delete_row for the keys in deleted,    *)
(* update_row or add_row for the elements in new. Old rows are found       *)
(* through pkeyidx, whatever row is there now; a place behind the last row *)
(* is memory that the merge does not read.                                 *)

MarkedRows(view, keys) == {view.pkeyidx[k] : k \in keys \cap DOMAIN view.pkeyidx}
                            \cap DOMAIN view.index

\* Mutant: an updated row is not taken out of its old place.
MutGoneRows(view, deleted, updated) == MarkedRows(view, deleted)

\* The rows that the merge skips.
GoneRows(view, deleted, updated) == MarkedRows(view, deleted \cup updated)

\* The merge of the rows that stay and the new ones: both are in order.
Merged(view, gone, new) ==
    LET stay == SetToSortSeq(DOMAIN view.index \ gone, LAMBDA i, j : i < j)
    IN  SortSeq([n \in DOMAIN stay |-> view.index[stay[n]]]
                  \o SetToSortSeq(new, ElemLess), ElemLess)

\* Mutant: deleted rows keep their place in pkeyidx.
MutLostKeys(view, gone, erased, new) == {}

\* The merge forgets the key of a deleted row when it passes that row: the
\* key is lost unless a row of the key is pushed afterwards.
LostKeys(view, gone, erased, new) ==
    {view.index[i].pkey : i \in {d \in erased :
       LET pushedBefore == {j \in 1..(d - 1) : j \notin gone}
           sameKey(e) == e.pkey = view.index[d].pkey
       IN  /\ \A e \in new : sameKey(e) =>
                \E j \in pushedBefore : ~ElemLess(view.index[j], e)
           /\ \A j \in DOMAIN view.index \ gone :
                sameKey(view.index[j]) => j \in pushedBefore}}

LastPlace(index, k) ==
    CHOOSE i \in DOMAIN index :
       /\ index[i].pkey = k
       /\ \A j \in DOMAIN index : index[j].pkey = k => j <= i

StepEnd(view, deleted, updated, new) ==
    LET erased == MarkedRows(view, deleted)
        gone == GoneRows(view, deleted, updated)
        index == Merged(view, gone, new)
        placed == {index[i].pkey : i \in DOMAIN index}
        known == (DOMAIN view.pkeyidx \cup placed) \ LostKeys(view, gone, erased, new)
    IN  IF deleted \cap DOMAIN view.pkeyidx = {} /\ new = {} THEN view
        ELSE [view EXCEPT
                !.index = index,
                !.pkeyidx = [k \in known |-> IF k \in placed THEN LastPlace(index, k)
                                             ELSE view.pkeyidx[k]]]

----------------------------------------------------------------------------
(* t_ctx0.                                                                 *)

EmptyView(config) == [filters |-> config.filters, sortBy |-> config.sortBy,
                      index |-> <<>>, pkeyidx |-> <<>>]

Elems(view, contents, keys) ==
    {SortElem(view.sortBy, k, contents[k]) : k \in keys}

PassingKeys(view, contents) ==
    {k \in DOMAIN contents : Passes(view.filters, contents[k])}

\* notify(flattened): the rows of a Table that was empty, or that the view
\* is made on. A key that was looked up before may still be in pkeyidx.
Load(view, contents) ==
    StepEnd(view, {}, {}, Elems(view, contents, PassingKeys(view, contents)))

\* reset: the index is emptied, pkeyidx is not.
ResetView(view) == [view EXCEPT !.index = <<>>]

\* psp_existed: whether the row of an INSERT was there, and not deleted by the
\* row before it in the batch.
Existed(fl, old, k) == k \in DOMAIN old /\ k \notin KeysOf(Deletes(fl))

\* _process_column: the cells of a row before and after the batch, as the
\* filter reads them. A cell without a value, cleared or not sent, is shown
\* with the value it had.
PrevCells(fl, old, k) ==
    IF Existed(fl, old, k) THEN old[k] ELSE [c \in Cols |-> Null]

CurrCells(fl, old, r) ==
    [c \in Cols |-> IF r.cells[c] \in Vals THEN r.cells[c]
                    ELSE PrevCells(fl, old, r.pkey)[c]]

\* What becomes of the rows of the batch fl, applied to a Table that held old.
Changes(view, fl, old) ==
    LET was(r) == /\ Existed(fl, old, r.pkey)
                  /\ Passes(view.filters, PrevCells(fl, old, r.pkey))
        is(r) == Passes(view.filters, CurrCells(fl, old, r))
    IN  [deleted |-> KeysOf(Deletes(fl)) \cup KeysOf({r \in Inserts(fl) : was(r) /\ ~is(r)}),
         updated |-> IF view.sortBy = <<>> THEN {}
                     ELSE KeysOf({r \in Inserts(fl) : was(r) /\ is(r)}),
         added |-> KeysOf({r \in Inserts(fl) : ~was(r) /\ is(r)})]

\* step_end makes room for as many rows as it counts, and throws if it counts
\* more deletes than rows.
CountsItsRows(view, fl, old) ==
    LET rows == Changes(view, fl, old)
    IN  Cardinality(rows.deleted \cap DOMAIN view.pkeyidx)
          <= Len(view.index) + Cardinality(rows.added \cup (rows.updated \ DOMAIN view.pkeyidx))

\* notify(flattened, ..., existed), for a Table that now holds contents.
Notify(view, fl, old, contents) ==
    LET rows == Changes(view, fl, old)
    IN  StepEnd(view, rows.deleted, rows.updated,
                Elems(view, contents, rows.updated \cup rows.added))

----------------------------------------------------------------------------
(* What a View shows: the keys of the rows that pass its filters, in       *)
(* order.                                                                  *)

QueryResult(view, contents) ==
    SetToSortSeq(Elems(view, contents, PassingKeys(view, contents)), ElemLess)
============================================================================
