------------------------------- MODULE GState -------------------------------
(***************************************************************************)
(* t_gstate: the master table of a Table. m_mapping sends each primary key *)
(* to a row of the table, m_free holds the rows that an erased key left    *)
(* behind, for the next new key to take. Rows are numbered from 1.         *)
(***************************************************************************)
EXTENDS Batch

CONSTANT Null   \* a cell with no value; a psp_pkey that was erased

ASSUME NullAssumption == Null \notin Vals /\ Null \notin Keys

VARIABLES m_mapping,  \* key -> row
          m_free,     \* rows without a key
          m_table     \* sequence of [pkey, cells]

gstateVars == <<m_mapping, m_free, m_table>>

ValueOf(cell) == IF cell \in Vals THEN cell ELSE Null

MasterRow == [pkey : Keys \cup {Null}, cells : [Cols -> Vals \cup {Null}]]
ErasedRow == [pkey |-> Null, cells |-> [c \in Cols |-> Null]]

GStateTypeOK ==
    /\ m_table \in Seq(MasterRow)
    /\ DOMAIN m_mapping \subseteq Keys
    /\ m_mapping \in [DOMAIN m_mapping -> 1..Len(m_table)]
    /\ m_free \subseteq 1..Len(m_table)

GStateInit ==
    /\ m_mapping = <<>>
    /\ m_free = {}
    /\ m_table = <<>>

----------------------------------------------------------------------------
(* Reading.                                                                *)

HasKey(k) == k \in DOMAIN m_mapping

\* The table as its readers see it: get_pkeyed_table masks out the rows that
\* no key maps to.
Contents == [k \in DOMAIN m_mapping |-> m_table[m_mapping[k]].cells]

----------------------------------------------------------------------------
(* fill_master_table: the first batch into an empty table becomes the      *)
(* table: its columns are aliased, its DELETE rows are free rows.          *)

FillMasterTable(fl) ==
    LET rowAt(i) == CHOOSE r \in fl : Position(fl, r) = i - 1
    IN  /\ m_table' = [i \in 1..Cardinality(fl) |->
                         [pkey |-> rowAt(i).pkey,
                          cells |-> [c \in Cols |-> ValueOf(rowAt(i).cells[c])]]]
        /\ m_mapping' = [k \in KeysOf(Inserts(fl)) |->
                           1 + Position(fl, CHOOSE r \in Inserts(fl) : r.pkey = k)]
        /\ m_free' = {1 + Position(fl, r) : r \in Deletes(fl)}

----------------------------------------------------------------------------
(* update_master_table on a table that has rows. It walks the batch in its *)
(* order: a DELETE erases its key, an INSERT finds or creates its row.     *)

ErasedKeys(fl) == KeysOf(Deletes(fl)) \cap DOMAIN m_mapping
ErasedRows(fl) == {m_mapping[k] : k \in ErasedKeys(fl)}

\* The inserted keys that lookup_or_create does not find.
NewKeys(fl) == KeysOf(Inserts(fl)) \ (DOMAIN m_mapping \ ErasedKeys(fl))

\* The free rows that lookup_or_create can choose from when the walk reaches
\* the new key k: those free before, or erased on the way, and not taken.
FreeAt(fl, rowOf, k) ==
    (m_free \cup {m_mapping[d] : d \in {e \in ErasedKeys(fl) : e <= k}})
      \ {rowOf[j] : j \in {i \in NewKeys(fl) : i < k}}

\* The new keys before k that found no free row and were appended.
AppendedBefore(rowOf, new, k) == {j \in new : j < k /\ rowOf[j] > Len(m_table)}

\* rowOf is a possible outcome of the walk's calls of lookup_or_create. The
\* code takes m_free.begin(), an unspecified element of a hash set.
Allocates(fl, rowOf) ==
    \A k \in NewKeys(fl) :
       IF FreeAt(fl, rowOf, k) # {}
       THEN rowOf[k] \in FreeAt(fl, rowOf, k)
       ELSE rowOf[k] = 1 + Len(m_table)
                         + Cardinality(AppendedBefore(rowOf, NewKeys(fl), k))

\* update_master_column: a value is written, a cleared cell clears, a cell
\* that was not sent leaves the master cell as it is.
WriteCell(old, cell) ==
    CASE cell \in Vals  -> cell
      [] cell = Clear   -> Null
      [] OTHER          -> old

\* The row i after the walk: erased if it lost its key, then written by the
\* INSERT row that was given it.
UpdatedRow(fl, mapping, i) ==
    LET base == IF i \in 1..Len(m_table) /\ i \notin ErasedRows(fl)
                THEN m_table[i] ELSE ErasedRow
        writers == {r \in Inserts(fl) : mapping[r.pkey] = i}
    IN  IF writers = {} THEN base
        ELSE LET r == CHOOSE r \in writers : TRUE
             IN  [pkey |-> r.pkey,
                  cells |-> [c \in Cols |-> WriteCell(base.cells[c], r.cells[c])]]

\* Mutant: erase does not mark the row deleted.
MutErasedLost(fl, rowOf) == m_free \ {rowOf[k] : k \in NewKeys(fl)}

\* m_free after the walk.
FreeAfter(fl, rowOf) ==
    (m_free \cup ErasedRows(fl)) \ {rowOf[k] : k \in NewKeys(fl)}

UpdateExisting(fl) ==
    \E rowOf \in [NewKeys(fl) -> 1..(Len(m_table) + Cardinality(NewKeys(fl)))] :
       LET kept == DOMAIN m_mapping \ ErasedKeys(fl)
           mapping == [k \in kept \cup NewKeys(fl) |->
                         IF k \in NewKeys(fl) THEN rowOf[k] ELSE m_mapping[k]]
           appended == {k \in NewKeys(fl) : rowOf[k] > Len(m_table)}
       IN  /\ Allocates(fl, rowOf)
           /\ m_mapping' = mapping
           /\ m_free' = FreeAfter(fl, rowOf)
           /\ m_table' = [i \in 1..(Len(m_table) + Cardinality(appended)) |->
                            UpdatedRow(fl, mapping, i)]

UpdateMasterTable(fl) ==
    IF m_table = <<>> THEN FillMasterTable(fl) ELSE UpdateExisting(fl)

----------------------------------------------------------------------------
(* The other operations.                                                   *)

\* init_from_table: the rows of the source become the table, each mapped by
\* its key; of two rows with one key the first is mapped.
InitFromTable(rows) ==
    LET rowsOf(k) == {i \in DOMAIN rows : rows[i].pkey = k}
    IN  /\ m_table' = [i \in DOMAIN rows |->
                         [pkey |-> rows[i].pkey,
                          cells |-> [c \in Cols |-> ValueOf(rows[i].cells[c])]]]
        /\ m_mapping' = [k \in {rows[i].pkey : i \in DOMAIN rows} |->
                           CHOOSE i \in rowsOf(k) : \A j \in rowsOf(k) : i <= j]
        /\ m_free' = {}

GStateReset ==
    /\ m_table' = <<>>
    /\ m_mapping' = <<>>
    /\ m_free' = {}

----------------------------------------------------------------------------
(* The master table by itself, under any flattened batch.                  *)

GStateNext ==
    \/ \E fl \in FlattenedBatches : UpdateMasterTable(fl)
    \/ GStateReset

GStateSpec == GStateInit /\ [][GStateNext]_gstateVars

----------------------------------------------------------------------------
(* What keeps it correct.                                                  *)

\* No two keys share a row: erase and lookup_or_create never hand out a row
\* that a live key still reads (m_mapping and m_free in gnode_state.cpp).
KeysHaveOwnRows ==
    \A j, k \in DOMAIN m_mapping : m_mapping[j] = m_mapping[k] => j = k

\* A row is free or some key's, never both, so the next new key cannot take
\* the row of a key that is still there.
FreeRowsHaveNoKey == m_free \cap {m_mapping[k] : k \in DOMAIN m_mapping} = {}

\* Every row of the table is accounted for: no row leaks across updates.
EveryRowIsFreeOrMapped ==
    1..Len(m_table) = m_free \cup {m_mapping[k] : k \in DOMAIN m_mapping}

\* A free row holds no cell of the key it had: a partial update that reuses
\* the row would show them as values of the new key.
FreeRowsAreBlank ==
    \A i \in m_free : m_table[i].cells = ErasedRow.cells

\* A mapped row carries its key in psp_pkey, the column from which a context
\* that registers later reads the keys.
RowsKnowTheirKey ==
    \A k \in DOMAIN m_mapping : m_table[m_mapping[k]].pkey = k

\* The rows of the master table belong to one key or to nobody, whatever was
\* erased and taken again: the parts above together, which is inductive.
GStateInv ==
    /\ GStateTypeOK
    /\ KeysHaveOwnRows
    /\ FreeRowsHaveNoKey
    /\ EveryRowIsFreeOrMapped
    /\ FreeRowsAreBlank
    /\ RowsKnowTheirKey
============================================================================
