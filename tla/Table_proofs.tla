---------------------------- MODULE Table_proofs ----------------------------
(***************************************************************************)
(* Proofs about the master table and about a Table, for any keys, columns  *)
(* and values.                                                             *)
(*                                                                         *)
(* t_gstate, for any sequence of batches: no two keys share a row of the   *)
(* master table, no free row is a key's, every row is one or the other,    *)
(* free rows are blank and mapped rows carry their key.                    *)
(*                                                                         *)
(* A Table, for any ports, batch sizes and limit: what flatten and the     *)
(* mask make of the queued rows is a batch such as the proofs about        *)
(* t_gstate assume, so the master table keeps its invariant under every    *)
(* request and run, and no queued row is forgotten.  And what callers rely *)
(* on: a Table implements the keyed table, and one with a limit keeps the  *)
(* rows that were inserted last.                                           *)
(***************************************************************************)
EXTENDS TableProperties, FiniteSetTheorems, TLAPS

----------------------------------------------------------------------------
(* Batches.                                                                *)

(* A row of a batch has a key, one of two operations, and a cell for every *)
(* column; a DELETE row carries no cell.                                   *)
LEMMA RowTypes ==
    ASSUME NEW r \in Rows
    PROVE  /\ r.pkey \in Keys /\ r.pkey \in Nat
           /\ r.op \in {"INSERT", "DELETE"}
           /\ r.cells \in RowCells
           /\ r.op = "DELETE" => r.cells = NoCells
  BY KeysAssumption DEF Rows, Insert, Delete, NoCells, RowCells, Cell

(* The rows of a flattened batch are totally ordered.                      *)
LEMMA BeforeIsTotal ==
    ASSUME NEW fl \in FlattenedBatches, NEW r \in fl, NEW q \in fl, r # q
    PROVE  Before(r, q) \/ Before(q, r)
  <1>1. r \in Rows /\ q \in Rows
    BY DEF FlattenedBatches
  <1> QED
    BY <1>1, RowTypes DEF FlattenedBatches, OneRowPerKeyAndOp, Before

(* A row that comes before another one has the smaller position.           *)
LEMMA PositionIsMonotone ==
    ASSUME NEW fl \in FlattenedBatches, NEW r \in fl, NEW q \in fl, Before(r, q)
    PROVE  Position(fl, r) < Position(fl, q)
  <1> DEFINE R == {s \in fl : Before(s, r)}
             Q == {s \in fl : Before(s, q)}
  <1>1. IsFiniteSet(fl) /\ fl \subseteq Rows
    BY DEF FlattenedBatches
  <1>2. \A s \in fl : s.pkey \in Nat /\ s.op \in {"INSERT", "DELETE"}
    BY <1>1, RowTypes
  <1>3. R \subseteq Q
    BY <1>2 DEF Before
  <1>4. r \in Q /\ r \notin R
    BY <1>2 DEF Before
  <1>5. IsFiniteSet(Q) /\ Cardinality(Q) \in Nat
    BY <1>1, FS_Subset, FS_CardinalityType
  <1>6. Cardinality(R) <= Cardinality(Q) /\ Cardinality(R) # Cardinality(Q)
    BY <1>3, <1>4, <1>5, FS_Subset
  <1>7. Cardinality(R) \in Nat
    BY <1>3, <1>5, FS_Subset, FS_CardinalityType
  <1> QED
    BY <1>5, <1>6, <1>7 DEF Position

(* No two rows of a batch have the same position.                          *)
LEMMA PositionIsInjective ==
    ASSUME NEW fl \in FlattenedBatches, NEW r \in fl, NEW q \in fl, r # q
    PROVE  Position(fl, r) # Position(fl, q)
  <1>1. \A s \in fl : Position(fl, s) \in Nat
    BY FS_Subset, FS_CardinalityType DEF FlattenedBatches, Position
  <1> QED
    BY <1>1, BeforeIsTotal, PositionIsMonotone

(* A batch of n rows has the positions 0 to n - 1.                         *)
LEMMA PositionRange ==
    ASSUME NEW fl \in FlattenedBatches
    PROVE  /\ Cardinality(fl) \in Nat
           /\ \A r \in fl : 1 + Position(fl, r) \in 1..Cardinality(fl)
           /\ \A i \in 1..Cardinality(fl) : \E r \in fl : Position(fl, r) = i - 1
  <1> DEFINE n == Cardinality(fl)
             f == [r \in fl |-> 1 + Position(fl, r)]
  <1>1. IsFiniteSet(fl) /\ fl \subseteq Rows /\ n \in Nat
    BY FS_CardinalityType DEF FlattenedBatches
  <1>2. ASSUME NEW r \in fl
        PROVE  Position(fl, r) \in Nat /\ Position(fl, r) < n
    <2> DEFINE R == {s \in fl : Before(s, r)}
    <2>1. r \notin R
      BY <1>1, RowTypes DEF Before
    <2>2. IsFiniteSet(R) /\ Cardinality(R) <= n /\ Cardinality(R) # n
      BY <1>1, <2>1, FS_Subset
    <2> QED
      BY <1>1, <2>2, FS_CardinalityType DEF Position
  <1>3. f \in Injection(fl, 1..n)
    BY <1>1, <1>2, PositionIsInjective DEF Injection, IsInjective
  <1>4. IsFiniteSet(1..n) /\ Cardinality(1..n) = n
    BY <1>1, FS_Interval
  <1>5. f \in Surjection(fl, 1..n)
    BY <1>3, <1>4, FS_Injection
  <1>6. ASSUME NEW i \in 1..n
        PROVE  \E r \in fl : Position(fl, r) = i - 1
    <2>1. PICK r \in fl : f[r] = i
      BY <1>5 DEF Surjection
    <2> QED
      BY <1>1, <1>2, <2>1
  <1> QED
    BY <1>1, <1>2, <1>6

(* A key has at most one INSERT row in a batch.                            *)
LEMMA OneInsertPerKey ==
    ASSUME NEW fl \in FlattenedBatches,
           NEW r \in Inserts(fl), NEW q \in Inserts(fl), r.pkey = q.pkey
    PROVE  r = q
  BY DEF FlattenedBatches, OneRowPerKeyAndOp, Inserts

(* The keys that a batch inserts are finitely many.                        *)
LEMMA InsertedKeysFinite ==
    ASSUME NEW fl \in FlattenedBatches
    PROVE  KeysOf(Inserts(fl)) \subseteq Keys /\ IsFiniteSet(KeysOf(Inserts(fl)))
  <1> DEFINE f == [r \in Inserts(fl) |-> r.pkey]
  <1>1. IsFiniteSet(Inserts(fl)) /\ Inserts(fl) \subseteq Rows
    BY FS_Subset DEF FlattenedBatches, Inserts
  <1>2. f \in Surjection(Inserts(fl), KeysOf(Inserts(fl)))
    BY DEF Surjection, KeysOf
  <1>3. IsFiniteSet(KeysOf(Inserts(fl)))
    BY <1>1, <1>2, FS_Surjection
  <1> QED
    BY <1>1, <1>3, RowTypes DEF KeysOf

----------------------------------------------------------------------------
(* The inductive invariant: the invariants need each other. A key that is  *)
(* given a free row stays alone in it because no free row is a key's; an   *)
(* erased row can be freed because it was one key's only.                  *)

LEMMA InitInv == GStateInit => GStateInv
  BY DEF GStateInit, GStateInv, GStateTypeOK, KeysHaveOwnRows, FreeRowsHaveNoKey,
         EveryRowIsFreeOrMapped, FreeRowsAreBlank, RowsKnowTheirKey

LEMMA ResetInv == GStateReset => GStateInv'
  BY DEF GStateReset, GStateInv, GStateTypeOK, KeysHaveOwnRows, FreeRowsHaveNoKey,
         EveryRowIsFreeOrMapped, FreeRowsAreBlank, RowsKnowTheirKey

(* ValueOf and WriteCell yield cells of the master table.                  *)
LEMMA CellTypes ==
    ASSUME NEW cell \in Cell, NEW old \in Vals \cup {Null}
    PROVE  /\ ValueOf(cell) \in Vals \cup {Null}
           /\ WriteCell(old, cell) \in Vals \cup {Null}
  BY DEF Cell, ValueOf, WriteCell

(* A function on 1..n is a sequence of length n.                           *)
LEMMA SequenceOf ==
    ASSUME NEW S, NEW n \in Nat, NEW f \in [1..n -> S]
    PROVE  f \in Seq(S) /\ Len(f) = n
  OBVIOUS

(* The first batch of an empty table establishes the invariant: row i of   *)
(* the table is the row of the batch with position i - 1.                  *)
LEMMA FillInv ==
    ASSUME NEW fl \in FlattenedBatches, FillMasterTable(fl)
    PROVE  GStateInv'
  <1> DEFINE n == Cardinality(fl)
             rowAt(i) == CHOOSE r \in fl : Position(fl, r) = i - 1
             insertOf(k) == CHOOSE r \in Inserts(fl) : r.pkey = k
  <1>1. n \in Nat /\ fl \subseteq Rows /\ DOMAIN m_table' = 1..n
    BY PositionRange DEF FlattenedBatches, FillMasterTable
  <1>2. \A i \in 1..n : rowAt(i) \in fl /\ Position(fl, rowAt(i)) = i - 1
    BY PositionRange
  <1>3. \A r \in fl : rowAt(1 + Position(fl, r)) = r
    <2> SUFFICES ASSUME NEW r \in fl
                 PROVE  rowAt(1 + Position(fl, r)) = r
      OBVIOUS
    <2>1. 1 + Position(fl, r) \in 1..n
      BY PositionRange
    <2>2. Position(fl, r) \in Int
      BY <1>1, FS_Subset, FS_CardinalityType DEF Position, FlattenedBatches
    <2> QED
      BY <1>2, <2>1, <2>2, PositionIsInjective
  <1>4. \A k \in KeysOf(Inserts(fl)) : insertOf(k) \in Inserts(fl) /\ insertOf(k).pkey = k
    BY DEF KeysOf
  <1>5. /\ m_table' = [i \in 1..n |->
                         [pkey |-> rowAt(i).pkey,
                          cells |-> [c \in Cols |-> ValueOf(rowAt(i).cells[c])]]]
        /\ m_mapping' = [k \in KeysOf(Inserts(fl)) |-> 1 + Position(fl, insertOf(k))]
        /\ m_free' = {1 + Position(fl, r) : r \in Deletes(fl)}
    BY DEF FillMasterTable
  <1>6. Inserts(fl) \subseteq fl /\ Deletes(fl) \subseteq fl /\ Inserts(fl) \cap Deletes(fl) = {}
    BY DEF Inserts, Deletes
  <1>7. \A r \in fl : 1 + Position(fl, r) \in 1..n /\ Position(fl, r) \in Nat
    BY <1>1, PositionRange, FS_Subset, FS_CardinalityType DEF Position, FlattenedBatches
  <1>8. m_table' \in Seq(MasterRow) /\ Len(m_table') = n
    <2>1. ASSUME NEW i \in 1..n
          PROVE  [pkey |-> rowAt(i).pkey,
                  cells |-> [c \in Cols |-> ValueOf(rowAt(i).cells[c])]] \in MasterRow
      <3>1. rowAt(i) \in Rows
        BY <1>1, <1>2
      <3>2. rowAt(i).pkey \in Keys /\ rowAt(i).cells \in RowCells
        BY <3>1, RowTypes
      <3> QED
        BY <3>2, CellTypes DEF MasterRow, RowCells
    <2>2. m_table' \in [1..n -> MasterRow]
      BY <1>5, <2>1
    <2> HIDE DEF n
    <2> QED
      BY <1>1, <2>2, SequenceOf
  <1>9. GStateTypeOK'
    <2>1. DOMAIN m_mapping' \subseteq Keys
      BY <1>5, InsertedKeysFinite
    <2> QED
      BY <1>4, <1>5, <1>6, <1>7, <1>8, <2>1 DEF GStateTypeOK
  <1>10. KeysHaveOwnRows'
    BY <1>4, <1>5, <1>6, <1>7, PositionIsInjective DEF KeysHaveOwnRows
  <1>11. FreeRowsHaveNoKey'
    BY <1>4, <1>5, <1>6, <1>7, PositionIsInjective DEF FreeRowsHaveNoKey
  <1>12. EveryRowIsFreeOrMapped'
    <2>1. ASSUME NEW i \in 1..n
          PROVE  i \in m_free' \cup {m_mapping'[k] : k \in DOMAIN m_mapping'}
      <3>1. rowAt(i) \in fl /\ 1 + Position(fl, rowAt(i)) = i
        BY <1>1, <1>2, <1>7
      <3>2. CASE rowAt(i) \in Deletes(fl)
        BY <1>5, <3>1, <3>2
      <3>3. CASE rowAt(i) \in Inserts(fl)
        <4>1. rowAt(i).pkey \in KeysOf(Inserts(fl))
          BY <3>3 DEF KeysOf
        <4>2. insertOf(rowAt(i).pkey) = rowAt(i)
          BY <1>4, <3>3, <4>1, OneInsertPerKey
        <4> QED
          BY <1>5, <3>1, <4>1, <4>2
      <3> QED
        BY <1>1, <3>1, <3>2, <3>3, RowTypes DEF Inserts, Deletes
    <2>2. m_free' \cup {m_mapping'[k] : k \in DOMAIN m_mapping'} \subseteq 1..n
      BY <1>4, <1>5, <1>6, <1>7
    <2> QED
      BY <1>8, <2>1, <2>2 DEF EveryRowIsFreeOrMapped
  <1>13. FreeRowsAreBlank'
    <2> SUFFICES ASSUME NEW r \in Deletes(fl)
                 PROVE  m_table'[1 + Position(fl, r)].cells = ErasedRow.cells
      BY <1>5 DEF FreeRowsAreBlank, ErasedRow
    <2>1. r \in fl /\ r.cells = NoCells
      BY <1>1, <1>6, RowTypes DEF Deletes
    <2>2. m_table'[1 + Position(fl, r)].cells = [c \in Cols |-> ValueOf(r.cells[c])]
      BY <1>3, <1>5, <1>7, <2>1
    <2> QED
      BY <2>1, <2>2, StatusAssumption DEF ErasedRow, NoCells, ValueOf
  <1>14. RowsKnowTheirKey'
    <2> SUFFICES ASSUME NEW k \in KeysOf(Inserts(fl))
                 PROVE  m_table'[1 + Position(fl, insertOf(k))].pkey = k
      BY <1>5 DEF RowsKnowTheirKey
    <2>1. insertOf(k) \in fl /\ insertOf(k).pkey = k
      BY <1>4, <1>6
    <2>2. m_table'[1 + Position(fl, insertOf(k))].pkey = rowAt(1 + Position(fl, insertOf(k))).pkey
      BY <1>5, <1>7, <2>1
    <2> QED
      BY <1>3, <2>1, <2>2
  <1> QED
    BY <1>9, <1>10, <1>11, <1>12, <1>13, <1>14 DEF GStateInv

----------------------------------------------------------------------------
(* Later batches.                                                          *)

Appended(fl, rowOf) == {k \in NewKeys(fl) : rowOf[k] > Len(m_table)}

(* What lookup_or_create hands out in one walk: rows that were free or     *)
(* have been erased, and the rows next after the table's last; each to one *)
(* key.                                                                    *)
LEMMA AllocatedRows ==
    ASSUME GStateTypeOK,
           NEW fl \in FlattenedBatches,
           NEW rowOf \in [NewKeys(fl) -> 1..(Len(m_table) + Cardinality(NewKeys(fl)))],
           Allocates(fl, rowOf)
    PROVE  LET len == Len(m_table)
               extra == Cardinality(Appended(fl, rowOf))
           IN  /\ extra \in Nat
               /\ \A k \in NewKeys(fl) : \/ rowOf[k] \in m_free \cup ErasedRows(fl)
                                         \/ rowOf[k] \in (len + 1)..(len + extra)
               /\ \A j, k \in NewKeys(fl) : rowOf[j] = rowOf[k] => j = k
               /\ \A i \in (len + 1)..(len + extra) :
                     \E k \in NewKeys(fl) : rowOf[k] = i
  <1> DEFINE new == NewKeys(fl)
             len == Len(m_table)
             app == Appended(fl, rowOf)
             extra == Cardinality(app)
             before(k) == AppendedBefore(rowOf, new, k)
  <1>1. len \in Nat /\ m_free \subseteq 1..len /\ ErasedRows(fl) \subseteq 1..len
    BY DEF GStateTypeOK, ErasedRows, ErasedKeys
  <1>2. new \subseteq Keys /\ new \subseteq Nat /\ IsFiniteSet(new) /\ Cardinality(new) \in Nat
    BY InsertedKeysFinite, FS_Subset, FS_CardinalityType, KeysAssumption DEF NewKeys
  <1>3. app \subseteq new /\ IsFiniteSet(app) /\ extra \in Nat
    BY <1>2, FS_Subset, FS_CardinalityType DEF Appended
  <1>4. \A k \in new : rowOf[k] \in Nat
    BY <1>1, <1>2
  <1>5. \A k \in new : FreeAt(fl, rowOf, k) \subseteq m_free \cup ErasedRows(fl)
    BY DEF FreeAt, ErasedRows, ErasedKeys
  <1>6. \A k \in new : before(k) \subseteq app /\ IsFiniteSet(before(k))
                         /\ Cardinality(before(k)) \in Nat
    BY <1>3, FS_Subset, FS_CardinalityType DEF AppendedBefore, Appended
  <1>7. ASSUME NEW k \in app
        PROVE  /\ FreeAt(fl, rowOf, k) = {}
               /\ rowOf[k] = 1 + len + Cardinality(before(k))
    <2>1. k \in new /\ rowOf[k] > len
      BY DEF Appended
    <2>2. rowOf[k] \notin FreeAt(fl, rowOf, k)
      BY <1>1, <1>4, <1>5, <2>1
    <2> QED
      BY <2>1, <2>2 DEF Allocates
  <1>8. ASSUME NEW k \in app
        PROVE  Cardinality(before(k)) < extra
    <2>1. k \in new /\ k \notin before(k)
      BY <1>2, <1>3 DEF AppendedBefore
    <2> QED
      BY <1>3, <1>6, <2>1, FS_Subset
  <1>9. \A k \in app : rowOf[k] \in (len + 1)..(len + extra)
    BY <1>1, <1>3, <1>6, <1>7, <1>8
  <1>10. \A k \in new \ app : rowOf[k] \in FreeAt(fl, rowOf, k)
    <2> SUFFICES ASSUME NEW k \in new \ app
                 PROVE  rowOf[k] \in FreeAt(fl, rowOf, k)
      OBVIOUS
    <2>1. rowOf[k] <= len
      BY <1>1, <1>4 DEF Appended
    <2>2. rowOf[k] # 1 + len + Cardinality(before(k))
      BY <1>1, <1>4, <1>6, <2>1
    <2> QED
      BY <2>2 DEF Allocates
  <1>11. ASSUME NEW j \in app, NEW k \in app, j < k
         PROVE  rowOf[j] # rowOf[k]
    <2>1. before(j) \subseteq before(k)
      BY <1>2, <1>3, <1>11 DEF AppendedBefore
    <2>2. j \in before(k) /\ j \notin before(j)
      BY <1>2, <1>3, <1>11 DEF AppendedBefore, Appended
    <2>3. Cardinality(before(j)) # Cardinality(before(k))
      BY <1>3, <1>6, <2>1, <2>2, FS_Subset
    <2> QED
      BY <1>1, <1>3, <1>6, <1>7, <2>3
  <1>12. ASSUME NEW j \in new, NEW k \in new, j < k
         PROVE  rowOf[j] # rowOf[k]
    <2>1. CASE k \in app /\ j \in app
      BY <1>11, <1>12, <2>1
    <2>2. CASE k \in app /\ j \notin app
      BY <1>4, <1>1, <2>2 DEF Appended
    <2>3. CASE k \notin app
      BY <1>10, <1>12, <2>3 DEF FreeAt
    <2> QED
      BY <2>1, <2>2, <2>3
  <1>13. \A j, k \in new : rowOf[j] = rowOf[k] => j = k
    BY <1>2, <1>12
  <1>14. \A i \in (len + 1)..(len + extra) : \E k \in app : rowOf[k] = i
    <2> DEFINE T == (len + 1)..(len + extra)
               g == [k \in app |-> rowOf[k]]
    <2>1. g \in Injection(app, T)
      BY <1>3, <1>9, <1>13 DEF Injection, IsInjective
    <2>2. IsFiniteSet(T) /\ Cardinality(T) = extra
      <3>1. len + 1 \in Int /\ len + extra \in Int
        BY <1>1, <1>3
      <3>2. /\ IsFiniteSet(T)
            /\ Cardinality(T) = IF len + 1 > len + extra THEN 0
                                ELSE (len + extra) - (len + 1) + 1
        BY <3>1, FS_Interval
      <3> HIDE DEF T, len, extra
      <3> QED
        BY <1>1, <1>3, <3>2
    <2>3. g \in Surjection(app, T)
      BY <2>1, <2>2, FS_Injection
    <2> QED
      BY <2>3 DEF Surjection
  <1>15. \A k \in new : \/ rowOf[k] \in m_free \cup ErasedRows(fl)
                        \/ rowOf[k] \in (len + 1)..(len + extra)
    BY <1>5, <1>9, <1>10
  <1> QED
    BY <1>3, <1>13, <1>14, <1>15

(* The row that a batch makes of a row is a row of the master table.       *)
LEMMA UpdatedRowType ==
    ASSUME GStateTypeOK, NEW fl \in FlattenedBatches, NEW mapping, NEW i
    PROVE  UpdatedRow(fl, mapping, i) \in MasterRow
  <1> DEFINE base == IF i \in 1..Len(m_table) /\ i \notin ErasedRows(fl)
                     THEN m_table[i] ELSE ErasedRow
             writers == {r \in Inserts(fl) : mapping[r.pkey] = i}
             writer == CHOOSE r \in writers : TRUE
  <1>1. ErasedRow \in MasterRow
    BY DEF ErasedRow, MasterRow
  <1>2. base \in MasterRow
    BY <1>1 DEF GStateTypeOK
  <1>3. CASE writers = {}
    <2>1. UpdatedRow(fl, mapping, i) = base
      BY <1>3 DEF UpdatedRow
    <2> QED
      BY <1>2, <2>1
  <1>4. CASE writers # {}
    <2>1. writer \in writers
      BY <1>4
    <2>2. writer \in Rows
      BY <2>1 DEF Inserts, FlattenedBatches
    <2>3. writer.pkey \in Keys /\ writer.cells \in [Cols -> Cell]
      BY <2>2, RowTypes DEF RowCells
    <2> HIDE DEF base, writer
    <2>4. base.cells \in [Cols -> Vals \cup {Null}]
      BY <1>2 DEF MasterRow
    <2>5. [c \in Cols |-> WriteCell(base.cells[c], writer.cells[c])]
            \in [Cols -> Vals \cup {Null}]
      BY <2>3, <2>4, CellTypes
    <2>6. UpdatedRow(fl, mapping, i) =
            [pkey |-> writer.pkey,
             cells |-> [c \in Cols |-> WriteCell(base.cells[c], writer.cells[c])]]
      BY <1>4 DEF UpdatedRow, base, writer
    <2> QED
      BY <2>3, <2>5, <2>6 DEF MasterRow
  <1> QED
    BY <1>3, <1>4

(* A later batch preserves the invariant.                                  *)
LEMMA UpdateInv ==
    ASSUME GStateInv, NEW fl \in FlattenedBatches, UpdateExisting(fl)
    PROVE  GStateInv'
  <1> DEFINE len == Len(m_table)
             new == NewKeys(fl)
             kept == DOMAIN m_mapping \ ErasedKeys(fl)
  <1>1. PICK rowOf \in [new -> 1..(len + Cardinality(new))] :
          /\ Allocates(fl, rowOf)
          /\ m_mapping' = [k \in kept \cup new |->
                             IF k \in new THEN rowOf[k] ELSE m_mapping[k]]
          /\ m_free' = (m_free \cup ErasedRows(fl)) \ {rowOf[k] : k \in new}
          /\ m_table' = [i \in 1..(len + Cardinality(Appended(fl, rowOf))) |->
                           UpdatedRow(fl, m_mapping', i)]
    BY DEF UpdateExisting, FreeAfter, Appended
  <1> DEFINE extra == Cardinality(Appended(fl, rowOf))
             freed == m_free \cup ErasedRows(fl)
  <1>2. /\ GStateTypeOK /\ KeysHaveOwnRows /\ FreeRowsHaveNoKey
        /\ EveryRowIsFreeOrMapped /\ FreeRowsAreBlank /\ RowsKnowTheirKey
    BY DEF GStateInv
  <1>3. /\ extra \in Nat
        /\ \A k \in new : rowOf[k] \in freed \/ rowOf[k] \in (len + 1)..(len + extra)
        /\ \A j, k \in new : rowOf[j] = rowOf[k] => j = k
        /\ \A i \in (len + 1)..(len + extra) : \E k \in new : rowOf[k] = i
    BY <1>1, <1>2, AllocatedRows
  <1>4. len \in Nat /\ freed \subseteq 1..len /\ \A k \in kept : m_mapping[k] \in 1..len
    BY <1>2 DEF GStateTypeOK, ErasedRows, ErasedKeys
  <1>5. kept \cap new = {} /\ KeysOf(Inserts(fl)) \subseteq kept \cup new
        /\ kept \cup new \subseteq Keys
    BY <1>2, InsertedKeysFinite DEF NewKeys, GStateTypeOK
  <1>6. \A k \in kept : m_mapping[k] \notin freed
    BY <1>2 DEF KeysHaveOwnRows, FreeRowsHaveNoKey, ErasedRows, ErasedKeys
  <1>7. /\ \A k \in new : m_mapping'[k] = rowOf[k]
        /\ \A k \in kept : m_mapping'[k] = m_mapping[k]
        /\ DOMAIN m_mapping' = kept \cup new
    BY <1>1, <1>5
  <1> HIDE DEF new, kept, freed, extra, len
  <1>8. DOMAIN m_table' = 1..(len + extra) /\ len + extra \in Nat
    BY <1>1, <1>3, <1>4 DEF extra
  <1>9. m_table' \in Seq(MasterRow) /\ Len(m_table') = len + extra
    <2>1. m_table' \in [1..(len + extra) -> MasterRow]
      BY <1>1, <1>2, UpdatedRowType DEF extra
    <2> QED
      BY <1>8, <2>1, SequenceOf
  <1>10. \A k \in kept \cup new : m_mapping'[k] \in 1..(len + extra)
    BY <1>3, <1>4, <1>7
  <1>11. m_free' = freed \ {rowOf[k] : k \in new}
    BY <1>1 DEF freed, new
  <1>12. m_free' \subseteq 1..(len + extra)
    <2>1. m_free' \subseteq 1..len
      BY <1>4, <1>11
    <2>2. len \in Nat /\ extra \in Nat
      BY <1>3, <1>4
    <2> QED
      BY <2>1, <2>2
  <1>13. GStateTypeOK'
    <2>1. m_mapping' \in [DOMAIN m_mapping' -> 1..(len + extra)]
      BY <1>1, <1>7, <1>10 DEF new, kept
    <2> QED
      BY <1>5, <1>7, <1>9, <1>12, <2>1 DEF GStateTypeOK
  <1>14. KeysHaveOwnRows'
    <2>1. ASSUME NEW j \in kept, NEW k \in new
          PROVE  m_mapping[j] # rowOf[k]
      BY <1>3, <1>4, <1>6
    <2> QED
      BY <1>2, <1>3, <1>7, <2>1 DEF KeysHaveOwnRows, kept
  <1>15. FreeRowsHaveNoKey'
    BY <1>6, <1>7, <1>11 DEF FreeRowsHaveNoKey
  <1>16. EveryRowIsFreeOrMapped'
    <2> DEFINE mapped == {m_mapping'[k] : k \in kept \cup new}
    <2>1. ASSUME NEW i \in 1..len
          PROVE  i \in m_free' \cup mapped
      <3>1. i \in m_free \/ \E k \in DOMAIN m_mapping : m_mapping[k] = i
        BY <1>2 DEF EveryRowIsFreeOrMapped, len
      <3>2. i \in freed \/ \E k \in kept : m_mapping[k] = i
        BY <3>1 DEF freed, kept, ErasedRows
      <3> QED
        BY <1>7, <1>11, <3>2
    <2>2. ASSUME NEW i \in (len + 1)..(len + extra)
          PROVE  i \in mapped
      BY <1>3, <1>7
    <2>3. m_free' \cup mapped \subseteq 1..(len + extra)
      BY <1>10, <1>12
    <2>4. 1..(len + extra) \subseteq m_free' \cup mapped
      <3> HIDE DEF mapped
      <3>1. \A i \in 1..(len + extra) : i \in 1..len \/ i \in (len + 1)..(len + extra)
        BY <1>3, <1>4
      <3> QED
        BY <2>1, <2>2, <3>1
    <2> QED
      BY <1>7, <1>9, <2>3, <2>4 DEF EveryRowIsFreeOrMapped
  <1>17. \A i \in 1..(len + extra) : m_table'[i] = UpdatedRow(fl, m_mapping', i)
    BY <1>1 DEF extra, len
  <1>18. FreeRowsAreBlank'
    <2> SUFFICES ASSUME NEW i \in m_free'
                 PROVE  m_table'[i].cells = ErasedRow.cells
      BY DEF FreeRowsAreBlank, ErasedRow
    <2>1. i \in 1..len /\ i \in 1..(len + extra) /\ i \in freed
      BY <1>4, <1>11, <1>12
    <2>2. {r \in Inserts(fl) : m_mapping'[r.pkey] = i} = {}
      BY <1>5, <1>7, <1>15 DEF FreeRowsHaveNoKey, KeysOf
    <2>3. m_table'[i] = IF i \notin ErasedRows(fl) THEN m_table[i] ELSE ErasedRow
      BY <1>17, <2>1, <2>2 DEF UpdatedRow, len
    <2> QED
      BY <1>2, <2>1, <2>3 DEF FreeRowsAreBlank, freed
  <1>19. RowsKnowTheirKey'
    <2> SUFFICES ASSUME NEW k \in kept \cup new
                 PROVE  m_table'[m_mapping'[k]].pkey = k
      BY <1>7 DEF RowsKnowTheirKey
    <2> DEFINE i == m_mapping'[k]
               writers == {r \in Inserts(fl) : m_mapping'[r.pkey] = i}
    <2>1. i \in 1..(len + extra) /\ m_table'[i] = UpdatedRow(fl, m_mapping', i)
      BY <1>10, <1>17
    <2>2. \A r \in writers : r.pkey = k
      BY <1>5, <1>7, <1>14 DEF KeysHaveOwnRows, KeysOf
    <2>3. CASE writers # {}
      <3>1. (CHOOSE r \in writers : TRUE) \in writers
        BY <2>3
      <3>2. m_table'[i].pkey = (CHOOSE r \in writers : TRUE).pkey
        BY <2>1, <2>3 DEF UpdatedRow
      <3> QED
        BY <2>2, <3>1, <3>2
    <2>4. CASE writers = {}
      <3>1. k \in kept /\ i = m_mapping[k]
        BY <1>7, <2>4 DEF KeysOf, new, NewKeys
      <3>2. i \in 1..len /\ i \notin ErasedRows(fl)
        BY <1>4, <1>6, <3>1 DEF freed
      <3>3. m_table'[i] = m_table[i]
        BY <2>1, <2>4, <3>2 DEF UpdatedRow, len
      <3> QED
        BY <1>2, <3>1, <3>3 DEF RowsKnowTheirKey, kept
    <2> QED
      BY <2>3, <2>4
  <1> QED
    BY <1>13, <1>14, <1>15, <1>16, <1>18, <1>19 DEF GStateInv

----------------------------------------------------------------------------
(* What a batch makes of the table as its readers see it.                  *)

KeptKeys(fl) == DOMAIN m_mapping \ KeysOf(Deletes(fl))

InsertOf(fl, k) == CHOOSE r \in Inserts(fl) : r.pkey = k

\* A key that the batch inserts has the cells that the batch writes over the
\* old ones, or over nothing; a key that it only deletes is gone.
SeenAfter(fl) ==
    [k \in KeptKeys(fl) \cup KeysOf(Inserts(fl)) |->
       IF k \in KeysOf(Inserts(fl))
       THEN [c \in Cols |-> WriteCell(IF k \in KeptKeys(fl) THEN Contents[k][c] ELSE Null,
                                      InsertOf(fl, k).cells[c])]
       ELSE Contents[k]]

(* The INSERT row of an inserted key.                                      *)
LEMMA InsertOfKey ==
    ASSUME NEW fl \in FlattenedBatches, NEW k \in KeysOf(Inserts(fl))
    PROVE  /\ InsertOf(fl, k) \in Inserts(fl) /\ InsertOf(fl, k) \in fl
           /\ InsertOf(fl, k).pkey = k
           /\ \A r \in Inserts(fl) : r.pkey = k => r = InsertOf(fl, k)
           /\ InsertOf(fl, k).cells \in [Cols -> Cell]
  <1>1. InsertOf(fl, k) \in Inserts(fl) /\ InsertOf(fl, k).pkey = k
    BY DEF KeysOf, InsertOf
  <1>2. InsertOf(fl, k) \in Rows
    BY <1>1 DEF FlattenedBatches, Inserts
  <1> QED
    BY <1>1, <1>2, OneInsertPerKey, RowTypes DEF Inserts, RowCells

(* A value written over nothing is itself.                                 *)
LEMMA WriteOverNothing ==
    ASSUME NEW cell \in Cell
    PROVE  WriteCell(Null, cell) = ValueOf(cell)
  BY StatusAssumption DEF WriteCell, ValueOf, Cell

(* The first batch of an empty table.                                      *)
LEMMA FillContents ==
    ASSUME GStateTypeOK, m_table = <<>>, NEW fl \in FlattenedBatches, FillMasterTable(fl)
    PROVE  Contents' = SeenAfter(fl)
  <1> DEFINE n == Cardinality(fl)
             rowAt(i) == CHOOSE r \in fl : Position(fl, r) = i - 1
  <1>1. DOMAIN m_mapping = {}
    BY DEF GStateTypeOK
  <1>2. /\ m_table' = [i \in 1..n |->
                         [pkey |-> rowAt(i).pkey,
                          cells |-> [c \in Cols |-> ValueOf(rowAt(i).cells[c])]]]
        /\ m_mapping' = [k \in KeysOf(Inserts(fl)) |-> 1 + Position(fl, InsertOf(fl, k))]
    BY DEF FillMasterTable, InsertOf
  <1>3. ASSUME NEW k \in KeysOf(Inserts(fl))
        PROVE  Contents'[k] = SeenAfter(fl)[k]
    <2> DEFINE r == InsertOf(fl, k)
               i == 1 + Position(fl, r)
    <2>1. r \in fl /\ r.cells \in [Cols -> Cell]
      BY InsertOfKey
    <2>2. i \in 1..n /\ Position(fl, r) \in Nat
      BY <2>1, PositionRange, FS_Subset, FS_CardinalityType DEF Position, FlattenedBatches
    <2>3. rowAt(i) \in fl /\ Position(fl, rowAt(i)) = i - 1
      BY <2>2, PositionRange
    <2>4. rowAt(i) = r
      BY <2>1, <2>2, <2>3, PositionIsInjective
    <2> HIDE DEF r, rowAt, n
    <2>5. Contents'[k] = [c \in Cols |-> ValueOf(r.cells[c])]
      BY <1>2, <2>2, <2>4 DEF Contents, r
    <2>6. \A c \in Cols : WriteCell(Null, r.cells[c]) = ValueOf(r.cells[c])
      BY <2>1, WriteOverNothing
    <2>7. SeenAfter(fl)[k] = [c \in Cols |-> WriteCell(Null, r.cells[c])]
      BY <1>1 DEF SeenAfter, KeptKeys, r
    <2> QED
      BY <2>5, <2>6, <2>7
  <1>4. DOMAIN Contents' = KeysOf(Inserts(fl)) /\ Contents' = [k \in DOMAIN Contents' |-> Contents'[k]]
    BY <1>2 DEF Contents
  <1>5. DOMAIN SeenAfter(fl) = KeysOf(Inserts(fl)) /\ SeenAfter(fl) = [k \in DOMAIN SeenAfter(fl) |-> SeenAfter(fl)[k]]
    BY <1>1 DEF SeenAfter, KeptKeys
  <1> QED
    BY <1>3, <1>4, <1>5

(* A later batch.                                                          *)
LEMMA UpdateContents ==
    ASSUME GStateInv, NEW fl \in FlattenedBatches, UpdateExisting(fl)
    PROVE  Contents' = SeenAfter(fl)
  <1> DEFINE len == Len(m_table)
             new == NewKeys(fl)
             kept == KeptKeys(fl)
             ins == KeysOf(Inserts(fl))
             row(k) == m_mapping'[k]
  <1>1. PICK rowOf \in [new -> 1..(len + Cardinality(new))] :
          /\ Allocates(fl, rowOf)
          /\ m_mapping' = [k \in (DOMAIN m_mapping \ ErasedKeys(fl)) \cup new |->
                             IF k \in new THEN rowOf[k] ELSE m_mapping[k]]
          /\ m_table' = [i \in 1..(len + Cardinality(Appended(fl, rowOf))) |->
                           UpdatedRow(fl, m_mapping', i)]
    BY DEF UpdateExisting, FreeAfter, Appended
  <1>2. kept = DOMAIN m_mapping \ ErasedKeys(fl) /\ kept \cup new = kept \cup ins
        /\ kept \cap new = {}
    BY DEF KeptKeys, ErasedKeys, NewKeys
  <1>3. DOMAIN m_mapping' = kept \cup ins /\ \A k \in kept : row(k) = m_mapping[k]
    BY <1>1, <1>2
  <1>4. GStateInv'
    BY UpdateInv
  <1>5. \A k \in kept \cup ins : row(k) \in DOMAIN m_table' /\ row(k) \in Nat
    BY <1>3, <1>4 DEF GStateInv, GStateTypeOK
  <1>6. \A k \in kept \cup ins : m_table'[row(k)] = UpdatedRow(fl, m_mapping', row(k))
    BY <1>1, <1>5
  <1>7. ASSUME NEW k \in new
        PROVE  row(k) \in m_free \cup ErasedRows(fl) \/ row(k) > len
    <2>1. \/ rowOf[k] \in m_free \cup ErasedRows(fl)
          \/ rowOf[k] \in (len + 1)..(len + Cardinality(Appended(fl, rowOf)))
      BY <1>1, AllocatedRows DEF GStateInv
    <2>2. row(k) = rowOf[k] /\ len \in Nat
      BY <1>1 DEF GStateInv, GStateTypeOK
    <2> HIDE DEF len
    <2> QED
      BY <2>1, <2>2
  <1>8. \A j, k \in kept \cup ins : row(j) = row(k) => j = k
    BY <1>3, <1>4 DEF GStateInv, KeysHaveOwnRows
  <1>9. \A k \in kept : row(k) \in 1..len /\ row(k) \notin ErasedRows(fl)
    BY <1>3, <1>2 DEF GStateInv, GStateTypeOK, KeysHaveOwnRows, ErasedRows, ErasedKeys
  <1> DEFINE base(k) == IF row(k) \in 1..len /\ row(k) \notin ErasedRows(fl)
                        THEN m_table[row(k)] ELSE ErasedRow
  <1>10. \A k \in kept : base(k).cells = Contents[k]
    BY <1>3, <1>9 DEF Contents, KeptKeys
  <1>11. \A k \in new : base(k).cells = [c \in Cols |-> Null]
    BY <1>7 DEF GStateInv, GStateTypeOK, FreeRowsAreBlank, ErasedRow
  <1>12. ASSUME NEW k \in kept \cup ins
         PROVE  {r \in Inserts(fl) : m_mapping'[r.pkey] = row(k)} =
                  {r \in Inserts(fl) : r.pkey = k}
    <2>1. \A r \in Inserts(fl) : r.pkey \in kept \cup ins
      BY DEF KeysOf
    <2> QED
      BY <1>8, <2>1
  <1>13. ASSUME NEW k \in ins
         PROVE  m_table'[row(k)].cells =
                  [c \in Cols |-> WriteCell(base(k).cells[c], InsertOf(fl, k).cells[c])]
    <2>1. {r \in Inserts(fl) : m_mapping'[r.pkey] = row(k)} = {InsertOf(fl, k)}
      BY <1>12, InsertOfKey
    <2>2. (CHOOSE r \in {InsertOf(fl, k)} : TRUE) = InsertOf(fl, k)
      OBVIOUS
    <2>3. UpdatedRow(fl, m_mapping', row(k)) =
            [pkey |-> InsertOf(fl, k).pkey,
             cells |-> [c \in Cols |-> WriteCell(base(k).cells[c], InsertOf(fl, k).cells[c])]]
      <3> HIDE DEF row
      <3> QED
        BY <2>1, <2>2 DEF UpdatedRow
    <2> HIDE DEF base, row
    <2> QED
      BY <1>6, <2>3
  <1>14. ASSUME NEW k \in kept \ ins
         PROVE  m_table'[row(k)].cells = base(k).cells
    <2>1. {r \in Inserts(fl) : m_mapping'[r.pkey] = row(k)} = {}
      BY <1>12 DEF KeysOf
    <2> HIDE DEF row
    <2> QED
      BY <1>6, <2>1 DEF UpdatedRow
  <1>15. ASSUME NEW k \in kept \cup ins
         PROVE  m_table'[row(k)].cells = SeenAfter(fl)[k]
    <2>1. \A c \in Cols : k \in ins => base(k).cells[c] = IF k \in kept THEN Contents[k][c] ELSE Null
      <3> HIDE DEF base, row, kept, ins, new
      <3> SUFFICES ASSUME NEW c \in Cols, k \in ins
                   PROVE  base(k).cells[c] = IF k \in kept THEN Contents[k][c] ELSE Null
        OBVIOUS
      <3>1. CASE k \in kept
        BY <1>10, <3>1
      <3>2. CASE k \in new
        <4>1. base(k).cells = [d \in Cols |-> Null] /\ k \notin kept
          BY <1>2, <1>11, <3>2
        <4> QED
          BY <4>1
      <3> QED
        BY <1>2, <3>1, <3>2
    <2> HIDE DEF base, row, kept, ins
    <2>2. CASE k \in ins
      <3>1. SeenAfter(fl)[k] =
              [c \in Cols |-> WriteCell(IF k \in kept THEN Contents[k][c] ELSE Null,
                                        InsertOf(fl, k).cells[c])]
        BY <2>2 DEF SeenAfter, kept, ins
      <3>2. \A c \in Cols : WriteCell(base(k).cells[c], InsertOf(fl, k).cells[c]) =
                            WriteCell(IF k \in kept THEN Contents[k][c] ELSE Null,
                                      InsertOf(fl, k).cells[c])
        BY <2>1, <2>2
      <3> QED
        BY <1>13, <2>2, <3>1, <3>2
    <2>3. CASE k \in kept \ ins
      <3>1. SeenAfter(fl)[k] = Contents[k]
        BY <2>3 DEF SeenAfter, kept, ins
      <3> QED
        BY <1>10, <1>14, <2>3, <3>1
    <2> QED
      BY <2>2, <2>3
  <1> HIDE DEF base, kept, ins
  <1>16. /\ DOMAIN Contents' = kept \cup ins /\ Contents' = [k \in DOMAIN Contents' |-> Contents'[k]]
         /\ \A k \in kept \cup ins : Contents'[k] = m_table'[row(k)].cells
    BY <1>3 DEF Contents
  <1>17. /\ DOMAIN SeenAfter(fl) = kept \cup ins
         /\ SeenAfter(fl) = [k \in DOMAIN SeenAfter(fl) |-> SeenAfter(fl)[k]]
    BY DEF SeenAfter, kept, ins
  <1> QED
    BY <1>15, <1>16, <1>17

(* What readers see after any batch.                                       *)
LEMMA BatchContents ==
    ASSUME GStateInv, NEW fl \in FlattenedBatches, UpdateMasterTable(fl)
    PROVE  Contents' = SeenAfter(fl)
  BY FillContents, UpdateContents DEF UpdateMasterTable, GStateInv

----------------------------------------------------------------------------
(* Every step preserves the invariant.                                     *)

LEMMA StutterInv ==
    ASSUME GStateInv, UNCHANGED gstateVars
    PROVE  GStateInv'
  BY DEF gstateVars, GStateInv, GStateTypeOK, KeysHaveOwnRows, FreeRowsHaveNoKey,
         EveryRowIsFreeOrMapped, FreeRowsAreBlank, RowsKnowTheirKey

LEMMA BatchInv ==
    ASSUME GStateInv, NEW fl \in FlattenedBatches, UpdateMasterTable(fl)
    PROVE  GStateInv'
  BY FillInv, UpdateInv DEF UpdateMasterTable

LEMMA StepInv == GStateInv /\ [GStateNext]_gstateVars => GStateInv'
  BY BatchInv, ResetInv, StutterInv DEF GStateNext

THEOREM GStateInvariant == GStateSpec => []GStateInv
  BY InitInv, StepInv, PTL DEF GStateSpec

(* The master table is always well formed: every key maps to a row of it.  *)
THEOREM TypeCorrect == GStateSpec => []GStateTypeOK
  BY GStateInvariant, PTL DEF GStateInv

(* Two keys never read or write the same row (lookup_or_create, erase).    *)
THEOREM OwnRows == GStateSpec => []KeysHaveOwnRows
  BY GStateInvariant, PTL DEF GStateInv

(* The free list and the mapping are disjoint and cover the table: a new   *)
(* key never takes a live row, and no row is lost to both.                 *)
THEOREM FreeOrMapped == GStateSpec => [](FreeRowsHaveNoKey /\ EveryRowIsFreeOrMapped)
  BY GStateInvariant, PTL DEF GStateInv

(* What a removed key leaves behind cannot be read through the next one.   *)
THEOREM BlankFreeRows == GStateSpec => []FreeRowsAreBlank
  BY GStateInvariant, PTL DEF GStateInv

(* Every key finds its own key in psp_pkey.                                *)
THEOREM KnownKeys == GStateSpec => []RowsKnowTheirKey
  BY GStateInvariant, PTL DEF GStateInv

----------------------------------------------------------------------------
(* flatten.                                                                *)

(* A non-empty set of row numbers has a greatest one.                      *)
LEMMA GreatestIndex ==
    ASSUME NEW n \in Nat, NEW S \in SUBSET (1..n), S # {}
    PROVE  \E i \in S : \A j \in S : j <= i
  <1> DEFINE below(x) == {y \in S : y < x}
             m == Cardinality(S)
             f == [i \in S |-> 1 + Cardinality(below(i))]
  <1> \A i \in S : i \in Int
    OBVIOUS
  <1>1. IsFiniteSet(S) /\ m \in Nat /\ m # 0
    <2>1. IsFiniteSet(1..n)
      BY FS_Interval
    <2>2. IsFiniteSet(S)
      BY <2>1, FS_Subset
    <2> QED
      BY <2>2, FS_CardinalityType, FS_EmptySet
  <1>2. ASSUME NEW i \in S
        PROVE  /\ IsFiniteSet(below(i)) /\ Cardinality(below(i)) \in Nat
               /\ Cardinality(below(i)) < m
    <2>1. below(i) \subseteq S /\ i \notin below(i)
      OBVIOUS
    <2> QED
      BY <1>1, <2>1, FS_Subset, FS_CardinalityType
  <1>3. ASSUME NEW i \in S, NEW j \in S, i < j
        PROVE  Cardinality(below(i)) # Cardinality(below(j))
    <2>1. below(i) \subseteq below(j) /\ i \in below(j) /\ i \notin below(i)
      <3>1. \A y \in S : y < i => y < j
        BY <1>3
      <3>2. ~(i < i)
        OBVIOUS
      <3>3. below(i) \subseteq below(j)
        BY <3>1
      <3>4. i \in below(j)
        BY <1>3
      <3>5. i \notin below(i)
        BY <3>2
      <3> QED
        BY <3>3, <3>4, <3>5
    <2> QED
      BY <1>2, <2>1, FS_Subset
  <1>4. f \in Injection(S, 1..m)
    <2>1. \A i \in S : f[i] \in 1..m
      BY <1>1, <1>2
    <2>2. \A i, j \in S : i # j => f[i] # f[j]
      <3>1. \A i, j \in S : i < j => f[i] # f[j]
        BY <1>2, <1>3
      <3>2. \A i, j \in S : i < j \/ j < i \/ i = j
        OBVIOUS
      <3> HIDE DEF f
      <3> QED
        BY <3>1, <3>2
    <2> QED
      BY <2>1, <2>2 DEF Injection, IsInjective
  <1>5. IsFiniteSet(1..m) /\ Cardinality(1..m) = m
    BY <1>1, FS_Interval
  <1>6. f \in Surjection(S, 1..m)
    BY <1>4, <1>5, FS_Injection
  <1>7. PICK i \in S : f[i] = m
    <2>1. m \in 1..m
      BY <1>1
    <2> HIDE DEF f, m
    <2> QED
      BY <1>6, <2>1 DEF Surjection
  <1>8. Cardinality(below(i)) = m - 1
    BY <1>1, <1>2, <1>7
  <1>9. ASSUME NEW j \in S, i < j
        PROVE  FALSE
    <2>1. below(i) \subseteq below(j) /\ i \in below(j) /\ i \notin below(i)
      <3>1. \A y \in S : y < i => y < j
        BY <1>9
      <3>2. ~(i < i)
        OBVIOUS
      <3>3. below(i) \subseteq below(j)
        BY <3>1
      <3>4. i \in below(j)
        BY <1>9
      <3>5. i \notin below(i)
        BY <3>2
      <3> QED
        BY <3>3, <3>4, <3>5
    <2>2. Cardinality(below(i)) < Cardinality(below(j))
      BY <1>2, <2>1, FS_Subset
    <2> QED
      BY <1>1, <1>2, <1>8, <2>2
  <1> QED
    BY <1>9

(* The cell that flatten keeps is one that was sent, or Invalid.           *)
LEMMA MergedCellType ==
    ASSUME NEW rows \in Seq(Rows), NEW k, NEW c \in Cols
    PROVE  MergedCell(rows, k, c) \in Cell
  <1> DEFINE sent == {i \in Live(rows, k) : rows[i].cells[c] # Invalid}
             last == CHOOSE i \in sent : \A j \in sent : j <= i
  <1>1. sent \subseteq 1..Len(rows) /\ Len(rows) \in Nat
    BY DEF Live, Span
  <1>2. CASE sent = {}
    BY <1>2 DEF MergedCell, Cell
  <1>3. CASE sent # {}
    <2>1. last \in sent
      BY <1>1, <1>3, GreatestIndex
    <2>2. rows[last] \in Rows
      <3>1. last \in 1..Len(rows)
        BY <1>1, <2>1
      <3> HIDE DEF last
      <3> QED
        BY <3>1
    <2>3. rows[last].cells[c] \in Cell
      BY <2>2, RowTypes DEF RowCells
    <2> QED
      BY <1>3, <2>3 DEF MergedCell
  <1> QED
    BY <1>2, <1>3

(* Rows are built from a key and cells.                                    *)
LEMMA BuiltRows ==
    ASSUME NEW k \in Keys
    PROVE  /\ Delete(k) \in Rows
           /\ \A cells \in RowCells : Insert(k, cells) \in Rows
  BY DEF Rows

(* The keys of the queued rows are finitely many.                          *)
LEMMA QueuedKeysFinite ==
    ASSUME NEW rows \in Seq(Rows)
    PROVE  IsFiniteSet({rows[i].pkey : i \in DOMAIN rows})
  <1> DEFINE I == 1..Len(rows)
             K == {rows[i].pkey : i \in I}
             f == [i \in I |-> rows[i].pkey]
  <1>1. DOMAIN rows = I /\ IsFiniteSet(I)
    BY FS_Interval
  <1>2. f \in Surjection(I, K)
    BY DEF Surjection
  <1>3. IsFiniteSet(K)
    BY <1>1, <1>2, FS_Surjection
  <1> HIDE DEF I
  <1> QED
    BY <1>1, <1>3

(* Whatever is queued, flatten makes of it a batch: finitely many rows, of *)
(* each key at most one DELETE and one INSERT.                             *)
LEMMA FlattenYieldsBatch ==
    ASSUME NEW rows \in Seq(Rows)
    PROVE  Flatten(rows) \in FlattenedBatches
  <1> DEFINE K == {rows[i].pkey : i \in DOMAIN rows}
             ds == {Delete(k) : k \in DeletedKeys(rows)}
             is == {Insert(k, MergedCells(rows, k)) : k \in InsertedKeys(rows)}
  <1>1. \A k \in Keys : MergedCells(rows, k) \in RowCells
    BY MergedCellType DEF MergedCells, RowCells
  <1>2. ds \subseteq Rows /\ is \subseteq Rows
    BY <1>1, BuiltRows DEF DeletedKeys, InsertedKeys
  <1>3. DeletedKeys(rows) \subseteq K /\ InsertedKeys(rows) \subseteq K
    BY DEF DeletedKeys, InsertedKeys, DeletesOf, Live, Span
  <1>4. IsFiniteSet(DeletedKeys(rows)) /\ IsFiniteSet(InsertedKeys(rows))
    BY <1>3, QueuedKeysFinite, FS_Subset
  <1>5. IsFiniteSet(ds)
    <2> DEFINE f == [k \in DeletedKeys(rows) |-> Delete(k)]
    <2>1. f \in Surjection(DeletedKeys(rows), ds)
      BY DEF Surjection
    <2> QED
      BY <1>4, <2>1, FS_Surjection
  <1>6. IsFiniteSet(is)
    <2> DEFINE f == [k \in InsertedKeys(rows) |-> Insert(k, MergedCells(rows, k))]
    <2>1. f \in Surjection(InsertedKeys(rows), is)
      BY DEF Surjection
    <2> QED
      BY <1>4, <2>1, FS_Surjection
  <1>7. IsFiniteSet(ds \cup is)
    BY <1>5, <1>6, FS_Union
  <1>8. OneRowPerKeyAndOp(ds \cup is)
    <2>1. /\ \A r \in ds : r.op = "DELETE" /\ r = Delete(r.pkey)
          /\ \A r \in is : r.op = "INSERT" /\ r = Insert(r.pkey, MergedCells(rows, r.pkey))
      BY DEF Delete, Insert
    <2> HIDE DEF ds, is
    <2> QED
      BY <2>1 DEF OneRowPerKeyAndOp
  <1> QED
    BY <1>2, <1>7, <1>8 DEF Flatten, FlattenedBatches

(* The mask takes rows out of a batch and leaves a batch.                  *)
LEMMA MaskedIsBatch ==
    ASSUME NEW fl \in FlattenedBatches
    PROVE  Masked(fl) \in FlattenedBatches
  BY FS_Subset DEF Masked, FlattenedBatches, OneRowPerKeyAndOp

(* A port with well-formed rows updates the master table by a batch.       *)
LEMMA AppliedIsBatch ==
    ASSUME GnodeTypeOK, NEW p \in DOMAIN m_input_ports
    PROVE  AppliedBatch(p) \in FlattenedBatches
  <1>1. m_input_ports[p] \in Seq(Rows)
    BY DEF GnodeTypeOK
  <1> QED
    BY <1>1, FlattenYieldsBatch, MaskedIsBatch DEF AppliedBatch

----------------------------------------------------------------------------
(* Requests.                                                               *)

(* The rows of a request are well formed if their keys are keys.           *)
LEMMA InsertRowsType ==
    ASSUME NEW n \in Nat, NEW cells \in [1..n -> SentRows], NEW keys,
           \A i \in 1..n : RowKey(keys, i) \in Keys
    PROVE  InsertRows(keys, cells) \in Seq(Rows) /\ Len(InsertRows(keys, cells)) = n
  <1>1. \A i \in 1..n : cells[i] \in RowCells
    BY SentAssumption DEF SentRows, RowCells
  <1>2. InsertRows(keys, cells) \in [1..n -> Rows]
    BY <1>1, BuiltRows DEF InsertRows
  <1> QED
    BY <1>2, SequenceOf

(* So are the DELETE rows that evict keys of the Table.                    *)
LEMMA EvictionRowsType ==
    ASSUME NEW n \in Nat, m_offset \in Nat,
           \A i \in 1..Evictions(n) : OldestKey + i - 1 \in Keys
    PROVE  EvictionRows(n) \in Seq(Rows)
  <1>1. Evictions(n) \in Nat
    BY LimitAssumption DEF Evictions, AtLeastZero
  <1>2. EvictionRows(n) \in [1..Evictions(n) -> Rows]
    BY BuiltRows DEF EvictionRows
  <1> QED
    BY <1>1, <1>2, SequenceOf

(* Rows sent to a port leave the ports well formed.                        *)
LEMMA SendType ==
    ASSUME GnodeTypeOK, NEW p \in Ports, NEW rows \in Seq(Rows), Send(p, rows)
    PROVE  /\ DOMAIN m_input_ports' = DOMAIN m_input_ports
           /\ m_input_ports' \in [DOMAIN m_input_ports -> Seq(Rows)]
  <1>1. CASE p \in DOMAIN m_input_ports
    <2>1. m_input_ports[p] \o rows \in Seq(Rows)
      BY <1>1 DEF GnodeTypeOK
    <2>2. m_input_ports' = [m_input_ports EXCEPT ![p] = m_input_ports[p] \o rows]
      BY <1>1 DEF Send
    <2> QED
      BY <1>1, <2>1, <2>2 DEF GnodeTypeOK
  <1>2. CASE p \notin DOMAIN m_input_ports
    BY <1>2 DEF Send, GnodeTypeOK
  <1> QED
    BY <1>1, <1>2

(* A CSV whose rows have keys of their own becomes a master table in which *)
(* every row is mapped.                                                    *)
LEMMA InitFromTableInv ==
    ASSUME NEW n \in Nat, NEW rows \in [1..n -> Rows],
           \A i, j \in 1..n : rows[i].pkey = rows[j].pkey => i = j,
           InitFromTable(rows)
    PROVE  GStateInv'
  <1> DEFINE K == {rows[i].pkey : i \in 1..n}
             rowOf(k) == CHOOSE i \in {x \in DOMAIN rows : rows[x].pkey = k} :
                           \A j \in {x \in DOMAIN rows : rows[x].pkey = k} : i <= j
  <1>1. \A i \in 1..n : rows[i].pkey \in Keys /\ rows[i].cells \in [Cols -> Cell]
    BY RowTypes DEF RowCells
  <1>2. /\ m_table' = [i \in 1..n |-> [pkey |-> rows[i].pkey,
                                       cells |-> [c \in Cols |-> ValueOf(rows[i].cells[c])]]]
        /\ m_mapping' = [k \in K |-> rowOf(k)]
        /\ m_free' = {}
    BY DEF InitFromTable
  <1>3. \A i \in 1..n : rowOf(rows[i].pkey) = i
    <2> SUFFICES ASSUME NEW i \in 1..n PROVE rowOf(rows[i].pkey) = i
      OBVIOUS
    <2>1. {x \in DOMAIN rows : rows[x].pkey = rows[i].pkey} = {i}
      OBVIOUS
    <2> QED
      BY <2>1
  <1>4. DOMAIN m_mapping' = K /\ \A i \in 1..n : m_mapping'[rows[i].pkey] = i
    BY <1>2, <1>3
  <1>5. m_table' \in Seq(MasterRow) /\ Len(m_table') = n
    <2>1. \A i \in 1..n : [c \in Cols |-> ValueOf(rows[i].cells[c])] \in [Cols -> Vals \cup {Null}]
      BY <1>1 DEF ValueOf
    <2>2. m_table' \in [1..n -> MasterRow]
      BY <1>1, <1>2, <2>1 DEF MasterRow
    <2> QED
      BY <2>2, SequenceOf
  <1>6. m_mapping' \in [K -> 1..n]
    <2>1. \A k \in K : rowOf(k) \in 1..n
      BY <1>3
    <2> HIDE DEF rowOf, K
    <2> QED
      BY <1>2, <2>1
  <1> HIDE DEF rowOf
  <1>7. GStateTypeOK'
    BY <1>1, <1>2, <1>4, <1>5, <1>6 DEF GStateTypeOK
  <1>8. KeysHaveOwnRows'
    <2>1. \A j, k \in K : m_mapping'[j] = m_mapping'[k] => j = k
      BY <1>4
    <2> HIDE DEF K
    <2> QED
      BY <1>4, <2>1 DEF KeysHaveOwnRows
  <1>11. FreeRowsHaveNoKey' /\ FreeRowsAreBlank'
    BY <1>2 DEF FreeRowsHaveNoKey, FreeRowsAreBlank
  <1>9. EveryRowIsFreeOrMapped'
    <2>1. {m_mapping'[k] : k \in K} = 1..n
      BY <1>4
    <2> HIDE DEF K
    <2> QED
      BY <1>2, <1>4, <1>5, <2>1 DEF EveryRowIsFreeOrMapped
  <1>10. RowsKnowTheirKey'
    BY <1>2, <1>4 DEF RowsKnowTheirKey
  <1> QED
    BY <1>7, <1>8, <1>9, <1>10, <1>11 DEF GStateInv

----------------------------------------------------------------------------
(* The invariant of a Table. A CSV of more rows than the limit breaks it   *)
(* (LoadCsv takes the rows it evicts into the master table), so it is      *)
(* proved for CSVs within the limit.                                       *)

CsvFits == "load_csv" \in Ops => MaxLoad <= Limit /\ MaxLoad <= OffsetBound

\* No queued row is forgotten: a port with rows is still to be processed by
\* the current run, or the next poll starts one.
NoStrandedRows ==
    \A p \in DOMAIN m_input_ports :
      m_input_ports[p] # <<>> => m_data_remaining \/ p \in task

TableInv == TableTypeOK /\ GStateInv /\ NoStrandedRows

LEMMA TableInitInv == TableInit => TableInv
  <1> SUFFICES ASSUME TableInit PROVE TableInv
    OBVIOUS
  <1>1. GStateInv /\ GStateTypeOK
    BY InitInv DEF TableInit, GStateInv
  <1>2. DOMAIN m_input_ports = {0} /\ m_input_ports[0] = <<>>
    BY DEF TableInit
  <1>3. m_input_ports \in [{0} -> Seq(Rows)]
    BY DEF TableInit
  <1>4. GnodeTypeOK
    BY <1>1, <1>2, <1>3, PortsAssumption DEF GnodeTypeOK
  <1>5. TableTypeOK
    BY <1>4, LimitAssumption DEF TableInit, TableTypeOK
  <1>6. NoStrandedRows
    BY <1>2 DEF NoStrandedRows
  <1> QED
    BY <1>1, <1>5, <1>6 DEF TableInv

(* What a request leaves: ports with well-formed rows, and the mark that   *)
(* rows may be waiting.                                                    *)
LEMMA QueuedInv ==
    ASSUME TableInv, NEW p \in Ports, NEW rows \in Seq(Rows), Send(p, rows),
           GStateInv', m_offset' \in 0..(OffsetBound - 1), m_data_remaining' = TRUE,
           task' = task
    PROVE  TableInv'
  <1>1. /\ DOMAIN m_input_ports' = DOMAIN m_input_ports
        /\ m_input_ports' \in [DOMAIN m_input_ports -> Seq(Rows)]
    BY SendType DEF TableInv, TableTypeOK
  <1> QED
    BY <1>1 DEF TableInv, TableTypeOK, GnodeTypeOK, NoStrandedRows, GStateInv

(* The offset after a request.                                             *)
LEMMA OffsetRange ==
    ASSUME m_offset \in 0..(OffsetBound - 1), NEW n \in Nat
    PROVE  (m_offset + n) % OffsetBound \in 0..(OffsetBound - 1)
  BY LimitAssumption

LEMMA UpdateRequestInv ==
    ASSUME TableInv,
           NEW n \in Nat, NEW cells \in [1..n -> SentRows],
           NEW keys \in RequestKeys(cells), NEW p \in Ports,
           RoomFor(Len(cells)), Queue(p, keys, cells), GStateInv', task' = task
    PROVE  TableInv'
  <1>1. Len(cells) = n /\ DOMAIN cells = 1..n /\ m_offset \in Nat
    BY LimitAssumption DEF TableInv, TableTypeOK
  <1>2. \A i \in 1..n : RowKey(keys, i) \in Keys
    BY <1>1 DEF RoomFor, RowKey, RequestKeys
  <1>3. InsertRows(keys, cells) \in Seq(Rows)
    BY <1>2, InsertRowsType
  <1>4. EvictionRows(n) \in Seq(Rows)
    BY <1>1, EvictionRowsType DEF RoomFor
  <1>5. InsertRows(keys, cells) \o EvictionRows(n) \in Seq(Rows)
    BY <1>3, <1>4
  <1>6. m_offset' \in 0..(OffsetBound - 1)
    BY <1>1, OffsetRange DEF Queue, TableInv, TableTypeOK
  <1> QED
    BY <1>1, <1>5, <1>6, QueuedInv DEF Queue

----------------------------------------------------------------------------
(* Every step preserves the invariant.                                     *)

(* A request of n rows is a function on 1..n.                              *)
LEMMA BatchType ==
    ASSUME NEW S, NEW max \in Nat, NEW b \in Batches(S, max)
    PROVE  \E n \in 1..max : b \in [1..n -> S]
  BY DEF Batches

LEMMA UpdateInvT ==
    ASSUME TableInv, NEW cells \in Batches(SentRows, MaxBatch),
           NEW keys \in RequestKeys(cells), NEW p \in Ports, Update(p, keys, cells)
    PROVE  TableInv'
  <1>1. PICK n \in 1..MaxBatch : cells \in [1..n -> SentRows]
    BY BatchType, BoundAssumption
  <1>2. n \in Nat /\ GStateInv'
    BY StutterInv DEF Update, TableInv
  <1> QED
    BY <1>1, <1>2, UpdateRequestInv DEF Update

LEMMA ReplaceInv ==
    ASSUME TableInv, NEW cells \in Batches(SentRows, MaxBatch),
           NEW keys \in RequestKeys(cells), Replace(keys, cells)
    PROVE  TableInv'
  <1>1. PICK n \in 1..MaxBatch : cells \in [1..n -> SentRows]
    BY BatchType, BoundAssumption
  <1>2. n \in Nat /\ 0 \in Ports /\ GStateInv'
    BY ResetInv, PortsAssumption DEF Replace
  <1> QED
    BY <1>1, <1>2, UpdateRequestInv DEF Replace

LEMMA RemoveInv ==
    ASSUME TableInv, NEW keys \in Batches(Keys, MaxBatch), NEW counted \in BOOLEAN,
           Remove(keys, counted)
    PROVE  TableInv'
  <1> DEFINE rows == [i \in DOMAIN keys |-> Delete(keys[i])]
  <1>1. PICK n \in 1..MaxBatch : keys \in [1..n -> Keys]
    BY BatchType, BoundAssumption
  <1>2. n \in Nat /\ 0 \in Ports /\ Len(keys) = n
    BY <1>1, PortsAssumption
  <1>3. rows \in Seq(Rows)
    <2>1. rows \in [1..n -> Rows]
      BY <1>1, BuiltRows
    <2> QED
      BY <1>2, <2>1, SequenceOf
  <1>4. GStateInv'
    BY StutterInv DEF Remove, TableInv
  <1>5. m_offset' \in 0..(OffsetBound - 1)
    BY <1>2, OffsetRange DEF Remove, TableInv, TableTypeOK
  <1> HIDE DEF rows
  <1>6. Send(0, rows) /\ m_data_remaining' = TRUE /\ task' = task
    BY DEF Remove, rows
  <1> QED
    BY <1>2, <1>3, <1>4, <1>5, <1>6, QueuedInv

LEMMA ClearTableInv ==
    ASSUME TableInv, ClearTable
    PROVE  TableInv'
  BY ResetInv DEF ClearTable, Reset, TableInv, TableTypeOK, GnodeTypeOK, NoStrandedRows, GStateInv

LEMMA LoadCsvInv ==
    ASSUME CsvFits, TableInv, NEW cells \in Batches(SentRows, MaxLoad), LoadCsv(cells)
    PROVE  TableInv'
  <1> DEFINE rows == InsertRows(<<>>, cells)
  <1>1. PICK n \in 1..MaxLoad : cells \in [1..n -> SentRows]
    BY BatchType, BoundAssumption
  <1>2. /\ n \in Nat /\ n <= Limit /\ n <= OffsetBound
        /\ Len(cells) = n /\ DOMAIN cells = 1..n
        /\ m_offset = 0 /\ ~Indexed
    BY <1>1, BoundAssumption, LimitAssumption DEF LoadCsv, CsvFits
  <1>3. Evictions(n) = 0
    BY <1>2, LimitAssumption DEF Evictions, AtLeastZero
  <1>4. \A i \in 1..n : RowKey(<<>>, i) = i - 1 /\ i - 1 \in Keys
    <2>1. \A i \in 1..n : (i - 1) % OffsetBound = i - 1
      BY <1>2, LimitAssumption
    <2>2. \A i \in 1..n : i - 1 \in Keys
      BY <1>2, KeysAssumption DEF LoadCsv
    <2>3. \A i \in 1..n : m_offset + i - 1 = i - 1
      BY <1>2
    <2> QED
      BY <1>2, <2>1, <2>2, <2>3 DEF RowKey
  <1>5. rows \in [1..n -> Rows] /\ \A i \in 1..n : rows[i].pkey = i - 1
    <2>1. rows \in Seq(Rows) /\ Len(rows) = n
      BY <1>1, <1>4, InsertRowsType
    <2>2. \A i \in 1..n : rows[i].pkey = i - 1
      BY <1>2, <1>4 DEF InsertRows, Insert
    <2> HIDE DEF rows
    <2> QED
      BY <2>1, <2>2
  <1>6. InitFromTable(rows)
    <2>1. EvictionRows(Len(cells)) = <<>>
      BY <1>2, <1>3 DEF EvictionRows
    <2>2. rows \o <<>> = rows
      <3> HIDE DEF rows
      <3> QED
        BY <1>2, <1>5
    <2> QED
      BY <2>1, <2>2 DEF LoadCsv
  <1> HIDE DEF rows
  <1>7. \A i, j \in 1..n : rows[i].pkey = rows[j].pkey => i = j
    BY <1>5
  <1>8. GStateInv'
    BY <1>2, <1>5, <1>6, <1>7, InitFromTableInv
  <1>9. m_offset' \in 0..(OffsetBound - 1)
    <2>1. m_offset' = (m_offset + n) % OffsetBound
      BY <1>2 DEF LoadCsv
    <2> QED
      BY <1>2, <2>1, OffsetRange, LimitAssumption
  <1> QED
    BY <1>8, <1>9
    DEF LoadCsv, TableInv, TableTypeOK, GnodeTypeOK, NoStrandedRows, GStateInv

LEMMA MakePortInv ==
    ASSUME TableInv, NEW p \in Ports, MakePort(p)
    PROVE  TableInv'
  <1>1. GStateInv'
    BY StutterInv DEF MakePort, MakeInputPort, TableInv
  <1>2. /\ DOMAIN m_input_ports' = DOMAIN m_input_ports \cup {p}
        /\ m_input_ports'[p] = <<>>
        /\ \A q \in DOMAIN m_input_ports : m_input_ports'[q] = m_input_ports[q]
    BY DEF MakePort, MakeInputPort
  <1>3. m_input_ports' \in [DOMAIN m_input_ports' -> Seq(Rows)]
    BY <1>2 DEF MakePort, MakeInputPort, TableInv, TableTypeOK, GnodeTypeOK
  <1> QED
    BY <1>1, <1>2, <1>3
    DEF MakePort, MakeInputPort, TableInv, TableTypeOK, GnodeTypeOK, NoStrandedRows, GStateInv

LEMMA StartRunInv ==
    ASSUME TableInv, StartRun
    PROVE  TableInv'
  <1>1. GStateInv'
    BY StutterInv DEF StartRun, gnodeVars, TableInv
  <1> QED
    BY <1>1
    DEF StartRun, gnodeVars, TableInv, TableTypeOK, GnodeTypeOK, NoStrandedRows, GStateInv

LEMMA ProcessNextInv ==
    ASSUME TableInv, ProcessNext
    PROVE  TableInv'
  <1>1. PICK p \in task : Process(p) /\ task' = task \ {p}
    BY DEF ProcessNext
  <1>2. p \in DOMAIN m_input_ports /\ GnodeTypeOK
    BY DEF TableInv, TableTypeOK
  <1>3. CASE m_input_ports[p] # <<>>
    <2>1. UpdateMasterTable(AppliedBatch(p)) /\ m_input_ports' = [m_input_ports EXCEPT ![p] = <<>>]
      BY <1>1, <1>3 DEF Process
    <2>2. GStateInv'
      BY <1>2, <2>1, AppliedIsBatch, BatchInv DEF TableInv
    <2>3. /\ DOMAIN m_input_ports' = DOMAIN m_input_ports
          /\ m_input_ports' \in [DOMAIN m_input_ports -> Seq(Rows)]
          /\ m_input_ports'[p] = <<>>
          /\ \A q \in DOMAIN m_input_ports \ {p} : m_input_ports'[q] = m_input_ports[q]
      BY <1>2, <2>1 DEF GnodeTypeOK
    <2> QED
      BY <1>1, <2>2, <2>3
      DEF ProcessNext, TableInv, TableTypeOK, GnodeTypeOK, NoStrandedRows, GStateInv
  <1>4. CASE m_input_ports[p] = <<>>
    <2>1. UNCHANGED gnodeVars
      BY <1>1, <1>4 DEF Process
    <2>2. GStateInv'
      BY <2>1, StutterInv DEF gnodeVars, TableInv
    <2> QED
      BY <1>1, <1>4, <2>1, <2>2
      DEF ProcessNext, gnodeVars, TableInv, TableTypeOK, GnodeTypeOK, NoStrandedRows, GStateInv
  <1> QED
    BY <1>3, <1>4

LEMMA TableStepInv ==
    ASSUME CsvFits, TableInv, [TableNext]_tableVars
    PROVE  TableInv'
  <1>1. ASSUME Emptying PROVE TableInv'
    BY <1>1, ClearTableInv, ReplaceInv DEF Emptying
  <1>2. ASSUME Sending PROVE TableInv'
    BY <1>2, UpdateInvT, RemoveInv, LoadCsvInv, MakePortInv DEF Sending
  <1>3. ASSUME UNCHANGED tableVars PROVE TableInv'
    <2>1. GStateInv'
      BY <1>3, StutterInv DEF tableVars, gnodeVars, TableInv
    <2> QED
      BY <1>3, <2>1
      DEF tableVars, gnodeVars, TableInv, TableTypeOK, GnodeTypeOK, NoStrandedRows, GStateInv
  <1> QED
    BY <1>1, <1>2, <1>3, StartRunInv, ProcessNextInv DEF TableNext

----------------------------------------------------------------------------

(* Whatever callers send, on whichever ports, and however runs interleave  *)
(* with requests, the Table is well formed, the rows of its master table   *)
(* belong to one key or to nobody, and every queued row is known to the    *)
(* current run or will start the next.                                     *)
THEOREM TableInvariant ==
    ASSUME CsvFits
    PROVE  TableSpec => []TableInv
  <1>1. TableInit => TableInv
    BY TableInitInv
  <1>2. TableInv /\ [TableNext]_tableVars => TableInv'
    BY TableStepInv
  <1> QED
    BY <1>1, <1>2, PTL DEF TableSpec

(* The master table of a Table keeps what is proved of t_gstate, under the *)
(* batches that flatten and the mask make of the queued rows.              *)
THEOREM TableKeepsGState ==
    ASSUME CsvFits
    PROVE  TableSpec => []GStateInv
  BY TableInvariant, PTL DEF TableInv

(* No request leaves rows on a port that neither the current run nor the   *)
(* next poll processes (m_data_remaining in pool.cpp, notify_userspace).   *)
THEOREM NoRowIsStranded ==
    ASSUME CsvFits
    PROVE  TableSpec => []NoStrandedRows
  BY TableInvariant, PTL DEF TableInv

----------------------------------------------------------------------------
(* A batch, row by row. The operators of flatten for some of the queued    *)
(* rows only: those with a number in s.                                    *)

SpanIn(rows, s, k) == {i \in s : rows[i].pkey = k}

DeletesIn(rows, s, k) == {i \in SpanIn(rows, s, k) : rows[i].op = "DELETE"}

LiveIn(rows, s, k) == {i \in SpanIn(rows, s, k) : \A d \in DeletesIn(rows, s, k) : d <= i}

DeletedIn(rows, s) == {k \in Keys : DeletesIn(rows, s, k) # {}}

InsertedIn(rows, s) == {k \in Keys : \E i \in LiveIn(rows, s, k) : rows[i].op = "INSERT"}

SentIn(rows, s, k, c) == {i \in LiveIn(rows, s, k) : rows[i].cells[c] # Invalid}

Latest(s) == CHOOSE i \in s : \A j \in s : j <= i

MergedIn(rows, s, k, c) ==
    IF SentIn(rows, s, k, c) = {} THEN Invalid
    ELSE rows[Latest(SentIn(rows, s, k, c))].cells[c]

\* What a batch of these rows makes of the contents T.
AppliedIn(T, rows, s) ==
    [k \in (DOMAIN T \ DeletedIn(rows, s)) \cup InsertedIn(rows, s) |->
       IF k \in InsertedIn(rows, s)
       THEN [c \in Cols |->
               WriteCell(IF k \in DOMAIN T \ DeletedIn(rows, s) THEN T[k][c] ELSE Null,
                         MergedIn(rows, s, k, c))]
       ELSE T[k]]

\* The contents of a table: cells for some of the keys.
ContentsOK(T) ==
    /\ DOMAIN T \subseteq Keys
    /\ T = [k \in DOMAIN T |-> T[k]]
    /\ \A k \in DOMAIN T : T[k] \in [Cols -> Vals \cup {Null}]

(* The latest of a set of row numbers.                                     *)
LEMMA LatestIs ==
    ASSUME NEW n \in Nat, NEW s \in SUBSET (1..n), NEW x \in s, \A j \in s : j <= x
    PROVE  Latest(s) = x
  <1>1. \A i \in s : i \in Int
    OBVIOUS
  <1>2. Latest(s) \in s /\ \A j \in s : j <= Latest(s)
    BY DEF Latest
  <1>3. Latest(s) <= x /\ x <= Latest(s) /\ Latest(s) \in Int /\ x \in Int
    BY <1>1, <1>2
  <1> QED
    BY <1>3

(* A row for another key changes nothing about a key.                      *)
LEMMA OtherKey ==
    ASSUME NEW rows \in Seq(Rows), NEW s \in SUBSET DOMAIN rows, NEW x \in s,
           NEW k, k # rows[x].pkey
    PROVE  /\ DeletesIn(rows, s, k) = DeletesIn(rows, s \ {x}, k)
           /\ LiveIn(rows, s, k) = LiveIn(rows, s \ {x}, k)
  <1> DEFINE t == s \ {x}
  <1>1. SpanIn(rows, s, k) = SpanIn(rows, t, k)
    BY DEF SpanIn
  <1> HIDE DEF t
  <1>2. DeletesIn(rows, s, k) = DeletesIn(rows, t, k)
    BY <1>1 DEF DeletesIn
  <1>3. LiveIn(rows, s, k) = LiveIn(rows, t, k)
    BY <1>1, <1>2 DEF LiveIn
  <1> QED
    BY <1>2, <1>3 DEF t

LEMMA OtherKeyMerged ==
    ASSUME NEW rows \in Seq(Rows), NEW s \in SUBSET DOMAIN rows, NEW x \in s,
           NEW k, k # rows[x].pkey, NEW c
    PROVE  MergedIn(rows, s, k, c) = MergedIn(rows, s \ {x}, k, c)
  <1>1. LiveIn(rows, s, k) = LiveIn(rows, s \ {x}, k)
    BY OtherKey
  <1>2. SentIn(rows, s, k, c) = SentIn(rows, s \ {x}, k, c)
    BY <1>1 DEF SentIn
  <1> QED
    BY <1>2 DEF MergedIn

(* A last row that deletes its key leaves nothing else of it.              *)
LEMMA LastDelete ==
    ASSUME NEW rows \in Seq(Rows), NEW s \in SUBSET DOMAIN rows, NEW x \in s,
           \A j \in s : j <= x, rows[x].op = "DELETE"
    PROVE  /\ rows[x].pkey \in DeletedIn(rows, s)
           /\ rows[x].pkey \notin InsertedIn(rows, s)
  <1> DEFINE k == rows[x].pkey
  <1>1. rows[x] \in Rows /\ k \in Keys /\ \A i \in s : i \in Int
    BY RowTypes
  <1>2. x \in DeletesIn(rows, s, k)
    BY DEF DeletesIn, SpanIn
  <1>3. LiveIn(rows, s, k) \subseteq {x}
    <2>1. \A i \in LiveIn(rows, s, k) : i \in s /\ x <= i /\ i <= x
      BY <1>2 DEF LiveIn, SpanIn
    <2> QED
      BY <1>1, <2>1
  <1> QED
    BY <1>1, <1>2, <1>3 DEF DeletedIn, InsertedIn

(* A last row that inserts its key is laid over the earlier ones.          *)
LEMMA LastInsert ==
    ASSUME NEW rows \in Seq(Rows), NEW s \in SUBSET DOMAIN rows, NEW x \in s,
           \A j \in s : j <= x, rows[x].op = "INSERT"
    PROVE  /\ DeletesIn(rows, s, rows[x].pkey) = DeletesIn(rows, s \ {x}, rows[x].pkey)
           /\ rows[x].pkey \in InsertedIn(rows, s)
           /\ \A c : MergedIn(rows, s, rows[x].pkey, c) =
                       IF rows[x].cells[c] = Invalid THEN MergedIn(rows, s \ {x}, rows[x].pkey, c)
                       ELSE rows[x].cells[c]
  <1> DEFINE t == s \ {x}
             k == rows[x].pkey
  <1>1. rows[x] \in Rows /\ k \in Keys /\ (\A i \in s : i \in Int) /\ Len(rows) \in Nat
    BY RowTypes
  <1>2. SpanIn(rows, s, k) = SpanIn(rows, t, k) \cup {x}
    BY DEF SpanIn
  <1>3. DeletesIn(rows, s, k) = DeletesIn(rows, t, k)
    BY <1>2 DEF DeletesIn
  <1>4. LiveIn(rows, s, k) = LiveIn(rows, t, k) \cup {x}
    <2>1. \A d \in DeletesIn(rows, t, k) : d <= x
      BY DEF DeletesIn, SpanIn
    <2> QED
      BY <1>2, <1>3, <2>1 DEF LiveIn
  <1>5. k \in InsertedIn(rows, s)
    BY <1>1, <1>4 DEF InsertedIn
  <1>6. ASSUME NEW c
        PROVE  MergedIn(rows, s, k, c) =
                 IF rows[x].cells[c] = Invalid THEN MergedIn(rows, t, k, c)
                 ELSE rows[x].cells[c]
    <2>1. CASE rows[x].cells[c] = Invalid
      <3>1. SentIn(rows, s, k, c) = SentIn(rows, t, k, c)
        BY <1>4, <2>1 DEF SentIn
      <3> QED
        BY <2>1, <3>1 DEF MergedIn
    <2>2. CASE rows[x].cells[c] # Invalid
      <3>1. x \in SentIn(rows, s, k, c)
        BY <1>4, <2>2 DEF SentIn
      <3>2. SentIn(rows, s, k, c) \subseteq s
        BY DEF SentIn, LiveIn, SpanIn
      <3>3. SentIn(rows, s, k, c) \subseteq 1..Len(rows)
        BY <3>2
      <3>4. Latest(SentIn(rows, s, k, c)) = x
        BY <1>1, <3>1, <3>2, <3>3, LatestIs
      <3> QED
        BY <2>2, <3>1, <3>4 DEF MergedIn
    <2> QED
      BY <2>1, <2>2
  <1> QED
    BY <1>3, <1>5, <1>6

(* Rows that do not insert a key send no cell of it.                       *)
LEMMA NothingMerged ==
    ASSUME NEW rows \in Seq(Rows), NEW s \in SUBSET DOMAIN rows,
           NEW k \in Keys \ InsertedIn(rows, s), NEW c \in Cols
    PROVE  MergedIn(rows, s, k, c) = Invalid
  <1>1. ASSUME NEW i \in LiveIn(rows, s, k)
        PROVE  rows[i].cells[c] = Invalid
    <2>1. rows[i] \in Rows
      BY DEF LiveIn, SpanIn
    <2>2. rows[i].op = "DELETE"
      BY <2>1, RowTypes DEF InsertedIn
    <2> QED
      BY <2>1, <2>2, RowTypes DEF NoCells
  <1>2. SentIn(rows, s, k, c) = {}
    BY <1>1 DEF SentIn
  <1> QED
    BY <1>2 DEF MergedIn

(* What is merged is a cell.                                               *)
LEMMA MergedInType ==
    ASSUME NEW rows \in Seq(Rows), NEW s \in SUBSET DOMAIN rows, NEW k, NEW c \in Cols
    PROVE  MergedIn(rows, s, k, c) \in Cell
  <1> DEFINE sent == SentIn(rows, s, k, c)
  <1>1. sent \subseteq 1..Len(rows) /\ Len(rows) \in Nat
    BY DEF SentIn, LiveIn, SpanIn
  <1>2. CASE sent = {}
    BY <1>2 DEF MergedIn, Cell
  <1>3. CASE sent # {}
    <2>1. Latest(sent) \in sent
      BY <1>1, <1>3, GreatestIndex DEF Latest
    <2>2. rows[Latest(sent)] \in Rows
      BY <1>1, <2>1
    <2>3. rows[Latest(sent)].cells[c] \in Cell
      BY <2>2, RowTypes DEF RowCells
    <2> QED
      BY <1>3, <2>3 DEF MergedIn
  <1> QED
    BY <1>2, <1>3

----------------------------------------------------------------------------
(* One row more.                                                           *)

(* A cell written over an old one is the keyed table's overlay.            *)
LEMMA OverlayIsWrite ==
    ASSUME NEW old, NEW cell \in Cell
    PROVE  WriteCell(old, cell) = IF cell = Invalid THEN old
                                  ELSE IF cell = Clear THEN Null ELSE cell
  BY StatusAssumption DEF WriteCell, Cell

\* Two contents agree if they have the same keys and the same cells.
LEMMA SameContents ==
    ASSUME NEW T, NEW U, DOMAIN T = DOMAIN U,
           T = [k \in DOMAIN T |-> T[k]], U = [k \in DOMAIN U |-> U[k]],
           \A k \in DOMAIN T : T[k] = U[k]
    PROVE  T = U
  OBVIOUS

\* The cells that a batch of the rows s gives the key k.
CellsIn(T, rows, s, k) ==
    IF k \in InsertedIn(rows, s)
    THEN [c \in Cols |->
            WriteCell(IF k \in DOMAIN T \ DeletedIn(rows, s) THEN T[k][c] ELSE Null,
                      MergedIn(rows, s, k, c))]
    ELSE T[k]

LEMMA AppliedCells ==
    ASSUME NEW T, NEW rows, NEW s, NEW k
    PROVE  /\ k \in DOMAIN AppliedIn(T, rows, s)
                <=> k \in (DOMAIN T \ DeletedIn(rows, s)) \cup InsertedIn(rows, s)
           /\ k \in DOMAIN AppliedIn(T, rows, s)
                => AppliedIn(T, rows, s)[k] = CellsIn(T, rows, s, k)
  BY DEF AppliedIn, CellsIn

(* What becomes of the keys that a row is not for.                         *)
LEMMA AppliedOther ==
    ASSUME NEW T, NEW rows \in Seq(Rows), NEW s \in SUBSET DOMAIN rows, NEW x \in s,
           NEW k, k # rows[x].pkey
    PROVE  /\ k \in DeletedIn(rows, s) <=> k \in DeletedIn(rows, s \ {x})
           /\ k \in InsertedIn(rows, s) <=> k \in InsertedIn(rows, s \ {x})
           /\ CellsIn(T, rows, s, k) = CellsIn(T, rows, s \ {x}, k)
  <1> DEFINE t == s \ {x}
             first(u, c) == IF k \in DOMAIN T \ DeletedIn(rows, u) THEN T[k][c] ELSE Null
  <1>1. DeletesIn(rows, s, k) = DeletesIn(rows, t, k)
    BY OtherKey
  <1>2. LiveIn(rows, s, k) = LiveIn(rows, t, k)
    BY OtherKey
  <1>3. ASSUME NEW c PROVE MergedIn(rows, s, k, c) = MergedIn(rows, t, k, c)
    BY OtherKeyMerged
  <1> HIDE DEF t
  <1>4. k \in DeletedIn(rows, s) <=> k \in DeletedIn(rows, t)
    BY <1>1 DEF DeletedIn
  <1>5. k \in InsertedIn(rows, s) <=> k \in InsertedIn(rows, t)
    BY <1>2 DEF InsertedIn
  <1>6. \A c \in Cols : WriteCell(first(s, c), MergedIn(rows, s, k, c)) =
                        WriteCell(first(t, c), MergedIn(rows, t, k, c))
    BY <1>3, <1>4
  <1>7. /\ CellsIn(T, rows, s, k) =
             IF k \in InsertedIn(rows, s)
             THEN [c \in Cols |-> WriteCell(first(s, c), MergedIn(rows, s, k, c))] ELSE T[k]
        /\ CellsIn(T, rows, t, k) =
             IF k \in InsertedIn(rows, t)
             THEN [c \in Cols |-> WriteCell(first(t, c), MergedIn(rows, t, k, c))] ELSE T[k]
    BY DEF CellsIn
  <1> HIDE DEF first
  <1>8. CellsIn(T, rows, s, k) = CellsIn(T, rows, t, k)
    BY <1>5, <1>6, <1>7
  <1> QED
    BY <1>4, <1>5, <1>8 DEF t

(* The batch with one row more is that row applied to what the batch       *)
(* without it makes.                                                       *)
LEMMA AppliedStep ==
    ASSUME NEW T, ContentsOK(T), NEW rows \in Seq(Rows), NEW s \in SUBSET DOMAIN rows,
           NEW x \in s, \A j \in s : j <= x
    PROVE  AppliedIn(T, rows, s) = Keyed!ApplyRow(AppliedIn(T, rows, s \ {x}), rows[x])
  <1> DEFINE t == s \ {x}
             k == rows[x].pkey
             A == AppliedIn(T, rows, s)
             B == AppliedIn(T, rows, t)
             C == Keyed!ApplyRow(B, rows[x])
  <1>1. rows[x] \in Rows /\ k \in Keys /\ rows[x].op \in {"INSERT", "DELETE"}
        /\ rows[x].cells \in [Cols -> Cell]
    BY RowTypes DEF RowCells
  <1>2. /\ A = [j \in DOMAIN A |-> A[j]]
        /\ B = [j \in DOMAIN B |-> B[j]]
        /\ C = [j \in DOMAIN C |-> C[j]]
    <2>1. A = [j \in DOMAIN A |-> A[j]] /\ B = [j \in DOMAIN B |-> B[j]]
      BY DEF AppliedIn
    <2> HIDE DEF A, B
    <2>2. C = [j \in DOMAIN C |-> C[j]]
      BY DEF Keyed!ApplyRow
    <2> QED
      BY <2>1, <2>2
  <1>3. ASSUME NEW j, j # k
        PROVE  (j \in DOMAIN A <=> j \in DOMAIN B) /\ (j \in DOMAIN A => A[j] = B[j])
    <2>1. j # rows[x].pkey
      BY <1>3
    <2>2. j \in DeletedIn(rows, s) <=> j \in DeletedIn(rows, t)
      BY <2>1, AppliedOther
    <2>3. j \in InsertedIn(rows, s) <=> j \in InsertedIn(rows, t)
      BY <2>1, AppliedOther
    <2>4. CellsIn(T, rows, s, j) = CellsIn(T, rows, t, j)
      BY <2>1, AppliedOther
    <2> HIDE DEF t
    <2> QED
      BY <2>2, <2>3, <2>4, AppliedCells
  <1>5. CASE rows[x].op = "DELETE"
    <2>1. k \notin DOMAIN A
      BY <1>5, LastDelete DEF AppliedIn
    <2> HIDE DEF A, B, k
    <2>2. C = [j \in DOMAIN B \ {k} |-> B[j]]
      BY <1>5 DEF Keyed!ApplyRow, k
    <2>3. DOMAIN A = DOMAIN B \ {k}
      BY <1>3, <2>1
    <2>4. \A j \in DOMAIN A : A[j] = C[j]
      BY <1>3, <2>2, <2>3
    <2> HIDE DEF C
    <2> QED
      BY <1>2, <2>2, <2>3, <2>4, SameContents DEF A, B, C, t
  <1>6. CASE rows[x].op = "INSERT"
    <2>11. \A c : MergedIn(rows, s, rows[x].pkey, c) =
                    IF rows[x].cells[c] = Invalid THEN MergedIn(rows, s \ {x}, rows[x].pkey, c)
                    ELSE rows[x].cells[c]
      BY <1>6, LastInsert
    <2> DEFINE old == IF k \in DOMAIN B THEN B[k] ELSE Keyed!Blank
    <2>1. k \in DOMAIN A
      BY <1>6, LastInsert DEF AppliedIn
    <2>2. k \in DeletedIn(rows, s) <=> k \in DeletedIn(rows, t)
      BY <1>6, LastInsert DEF DeletedIn
    <2>3. C[k] = [c \in Cols |-> IF rows[x].cells[c] = Invalid THEN old[c]
                                 ELSE IF rows[x].cells[c] = Clear THEN Null
                                 ELSE rows[x].cells[c]]
      BY <1>6 DEF Keyed!ApplyRow, Keyed!Overlay
    <2> DEFINE first(c) == IF k \in DOMAIN T \ DeletedIn(rows, s) THEN T[k][c] ELSE Null
    <2>4. A[k] = [c \in Cols |-> WriteCell(first(c), MergedIn(rows, s, k, c))]
      BY <1>6, <2>1, LastInsert DEF AppliedIn
    <2>5. \A c \in Cols : old[c] = WriteCell(first(c), MergedIn(rows, t, k, c))
      <3> SUFFICES ASSUME NEW c \in Cols
                   PROVE  old[c] = WriteCell(first(c), MergedIn(rows, t, k, c))
        OBVIOUS
      <3>1. CASE k \in InsertedIn(rows, t)
        BY <2>2, <3>1 DEF AppliedIn
      <3>2. CASE k \notin InsertedIn(rows, t)
        <4>1. MergedIn(rows, t, k, c) = Invalid
          BY <1>1, <3>2, NothingMerged
        <4>2. WriteCell(first(c), MergedIn(rows, t, k, c)) = first(c)
          BY <4>1, OverlayIsWrite DEF Cell
        <4>3. k \in DOMAIN B <=> k \in DOMAIN T \ DeletedIn(rows, s)
          BY <2>2, <3>2 DEF AppliedIn
        <4>4. k \in DOMAIN B => B[k] = T[k]
          BY <3>2 DEF AppliedIn
        <4> HIDE DEF B, k
        <4>5. old[c] = first(c)
          BY <4>3, <4>4 DEF Keyed!Blank
        <4> QED
          BY <4>2, <4>5
      <3> QED
        BY <3>1, <3>2
    <2>6. \A c \in Cols : WriteCell(first(c), MergedIn(rows, s, k, c)) =
                             IF rows[x].cells[c] = Invalid THEN old[c]
                             ELSE IF rows[x].cells[c] = Clear THEN Null
                             ELSE rows[x].cells[c]
      <3> SUFFICES ASSUME NEW c \in Cols
                   PROVE  WriteCell(first(c), MergedIn(rows, s, k, c)) =
                            IF rows[x].cells[c] = Invalid THEN old[c]
                            ELSE IF rows[x].cells[c] = Clear THEN Null
                            ELSE rows[x].cells[c]
        OBVIOUS
      <3>1. MergedIn(rows, s, k, c) = IF rows[x].cells[c] = Invalid
                                      THEN MergedIn(rows, t, k, c) ELSE rows[x].cells[c]
        BY <2>11
      <3>2. rows[x].cells[c] \in Cell
        BY <1>1
      <3> HIDE DEF first, old, k, t
      <3> QED
        BY <2>5, <3>1, <3>2, OverlayIsWrite
    <2> HIDE DEF first, old, A, B, k, t
    <2>7. A[k] = C[k]
      BY <2>3, <2>4, <2>6
    <2>8. /\ DOMAIN C = DOMAIN B \cup {k}
          /\ \A j \in DOMAIN C : j # k => C[j] = B[j]
      BY <1>6 DEF Keyed!ApplyRow, k
    <2>9. DOMAIN A = DOMAIN C
      BY <1>3, <2>1, <2>8
    <2>10. \A j \in DOMAIN A : A[j] = C[j]
      BY <1>3, <2>7, <2>8, <2>9
    <2> HIDE DEF C
    <2> QED
      BY <1>2, <2>9, <2>10, SameContents DEF A, B, C, t
  <1> QED
    BY <1>1, <1>5, <1>6

----------------------------------------------------------------------------
(* All of the rows.                                                        *)

(* Induction up to a number.                                               *)
LEMMA BoundedInduction ==
    ASSUME NEW n \in Nat, NEW P \in SUBSET (0..n), 0 \in P,
           \A m \in P : m < n => m + 1 \in P
    PROVE  n \in P
  <1> DEFINE S == {m \in 1..(n + 1) : \A j \in 0..(m - 1) : j \in P}
  <1>1. S \in SUBSET (1..(n + 1)) /\ S # {}
    <2>1. 1 \in S
      <3>1. 1 \in 1..(n + 1) /\ \A j \in 0..(1 - 1) : j = 0
        OBVIOUS
      <3> QED
        BY <3>1
    <2> QED
      BY <2>1
  <1>2. PICK m \in S : \A j \in S : j <= m
    <2> HIDE DEF S
    <2>1. n + 1 \in Nat
      OBVIOUS
    <2> QED
      BY <1>1, <2>1, GreatestIndex
  <1>3. m \in 1..(n + 1) /\ \A j \in 0..(m - 1) : j \in P
    OBVIOUS
  <1>4. m - 1 \in P /\ m \in Int
    BY <1>3
  <1> HIDE DEF S
  <1>5. CASE m = n + 1
    BY <1>4, <1>5
  <1>6. CASE m # n + 1
    <2>1. m < n + 1 /\ m - 1 < n /\ (m - 1) + 1 = m
      BY <1>3, <1>6
    <2>2. m \in P
      BY <1>4, <2>1
    <2>3. m + 1 \in 1..(n + 1)
      BY <1>3, <2>1
    <2>4. \A j \in 0..((m + 1) - 1) : j \in 0..(m - 1) \/ j = m
      BY <1>3
    <2>5. m + 1 \in S
      BY <1>3, <2>2, <2>3, <2>4 DEF S
    <2> QED
      BY <1>2, <1>4, <2>5
  <1> QED
    BY <1>5, <1>6

(* No rows, no change.                                                     *)
LEMMA AppliedNone ==
    ASSUME NEW T, ContentsOK(T), NEW rows
    PROVE  AppliedIn(T, rows, {}) = T
  <1>1. DeletedIn(rows, {}) = {} /\ InsertedIn(rows, {}) = {}
    BY DEF DeletedIn, InsertedIn, DeletesIn, LiveIn, SpanIn
  <1>2. AppliedIn(T, rows, {}) = [k \in DOMAIN T |-> T[k]]
    BY <1>1 DEF AppliedIn
  <1> QED
    BY <1>2 DEF ContentsOK

(* The keyed table's fold over the rows is the batch of all of them: the   *)
(* fold's recursion has a solution, the batches of the subsets of the      *)
(* rows, and any solution agrees with it on the first m rows for every m.  *)
LEMMA FoldIsBatch ==
    ASSUME NEW T, ContentsOK(T), NEW rows \in Seq(Rows)
    PROVE  Keyed!ApplyRows(T, rows) = AppliedIn(T, rows, DOMAIN rows)
  <1> DEFINE n == Len(rows)
             next(f, s) == Keyed!ApplyRow(f[s \ {Keyed!Max(s)}], rows[Keyed!Max(s)])
             Solves(f) == f = [s \in SUBSET DOMAIN rows |-> IF s = {} THEN T ELSE next(f, s)]
             iter == CHOOSE f : Solves(f)
             batch == [s \in SUBSET DOMAIN rows |-> AppliedIn(T, rows, s)]
  <1>1. n \in Nat /\ DOMAIN rows = 1..n
    OBVIOUS
  <1>2. Keyed!ApplyRows(T, rows) = iter[DOMAIN rows]
    BY DEF Keyed!ApplyRows, Keyed!FoldLeft, Keyed!MapThenFoldSet
  <1>3. ASSUME NEW s \in SUBSET DOMAIN rows, s # {}
        PROVE  Keyed!Max(s) \in s /\ \A j \in s : j <= Keyed!Max(s)
    <2>1. \A i \in s : i \in Int
      BY <1>1
    <2>2. \E i \in s : \A j \in s : i >= j
      <3>1. PICK i \in s : \A j \in s : j <= i
        BY <1>1, <1>3, GreatestIndex
      <3> QED
        BY <2>1, <3>1
    <2>3. Keyed!Max(s) \in s /\ \A j \in s : Keyed!Max(s) >= j
      BY <2>2 DEF Keyed!Max
    <2> QED
      BY <2>1, <2>3
  <1>4. Solves(batch)
    <2>1. ASSUME NEW s \in SUBSET DOMAIN rows
          PROVE  batch[s] = IF s = {} THEN T ELSE next(batch, s)
      <3>1. CASE s = {}
        BY <3>1, AppliedNone
      <3>2. CASE s # {}
        <4>1. AppliedIn(T, rows, s) =
                Keyed!ApplyRow(AppliedIn(T, rows, s \ {Keyed!Max(s)}), rows[Keyed!Max(s)])
          BY <1>3, <3>2, AppliedStep
        <4>2. batch[s] = AppliedIn(T, rows, s)
              /\ batch[s \ {Keyed!Max(s)}] = AppliedIn(T, rows, s \ {Keyed!Max(s)})
          OBVIOUS
        <4> QED
          BY <3>2, <4>1, <4>2
      <3> QED
        BY <3>1, <3>2
    <2>2. batch = [s \in SUBSET DOMAIN rows |-> batch[s]]
      OBVIOUS
    <2> HIDE DEF batch
    <2> QED
      BY <2>1, <2>2
  <1>5. Solves(iter)
    <2> HIDE DEF Solves, batch
    <2> QED
      BY <1>4
  <1> DEFINE P == {m \in 0..n : iter[1..m] = AppliedIn(T, rows, 1..m)}
  <1>6. \A s \in SUBSET DOMAIN rows : iter[s] = IF s = {} THEN T ELSE next(iter, s)
    BY <1>5
  <1> HIDE DEF iter
  <1>7. 0 \in P
    <2>1. 1..0 = {} /\ {} \in SUBSET DOMAIN rows /\ 0 \in 0..n
      BY <1>1
    <2> QED
      BY <1>6, <2>1, AppliedNone
  <1>8. ASSUME NEW m \in P, m < n
        PROVE  m + 1 \in P
    <2> DEFINE s == 1..(m + 1)
    <2>1. m \in 0..n /\ m + 1 \in 0..n /\ m + 1 \in s /\ s # {} /\ s \in SUBSET DOMAIN rows
      <3>1. m \in 0..n
        OBVIOUS
      <3> HIDE DEF P, n
      <3>2. m + 1 \in 0..n /\ m + 1 \in s /\ \A i \in s : i \in 1..n
        BY <1>1, <1>8, <3>1
      <3> HIDE DEF s
      <3> QED
        BY <1>1, <3>1, <3>2
    <2>2. Keyed!Max(s) = m + 1
      <3>1. Keyed!Max(s) \in s /\ \A j \in s : j <= Keyed!Max(s)
        BY <1>3, <2>1
      <3>2. Keyed!Max(s) \in 1..(m + 1) /\ m + 1 <= Keyed!Max(s)
        BY <2>1, <3>1
      <3> QED
        BY <2>1, <3>2
    <2>3. s \ {m + 1} = 1..m
      BY <2>1
    <2>4. iter[s] = Keyed!ApplyRow(iter[1..m], rows[m + 1])
      <3> HIDE DEF s
      <3> QED
        BY <1>6, <2>1, <2>2, <2>3
    <2>5. AppliedIn(T, rows, s) = Keyed!ApplyRow(AppliedIn(T, rows, s \ {m + 1}), rows[m + 1])
      <3>1. \A j \in s : j <= m + 1
        BY <2>1
      <3> QED
        BY <2>1, <3>1, AppliedStep
    <2>6. iter[1..m] = AppliedIn(T, rows, 1..m)
      BY <1>8
    <2>7. iter[s] = AppliedIn(T, rows, s)
      <3> HIDE DEF s
      <3> QED
        BY <2>3, <2>4, <2>5, <2>6
    <2> QED
      BY <2>1, <2>7
  <1>9. n \in P
    <2>1. P \in SUBSET (0..n)
      OBVIOUS
    <2> HIDE DEF P, n
    <2> QED
      BY <1>1, <1>7, <1>8, <2>1, BoundedInduction
  <1> QED
    BY <1>1, <1>2, <1>9

----------------------------------------------------------------------------
(* The batch that a port is flattened into.                                *)

(* What flatten keeps, in the terms of all of the rows.                    *)
LEMMA AllRows ==
    ASSUME NEW rows
    PROVE  /\ DeletedKeys(rows) = DeletedIn(rows, DOMAIN rows)
           /\ InsertedKeys(rows) = InsertedIn(rows, DOMAIN rows)
           /\ \A k, c : MergedCell(rows, k, c) = MergedIn(rows, DOMAIN rows, k, c)
  BY DEF DeletedKeys, InsertedKeys, MergedCell, DeletedIn, InsertedIn, MergedIn, SentIn, Latest,
         Live, LiveIn, DeletesOf, DeletesIn, Span, SpanIn

(* The INSERT and DELETE rows of a flattened batch.                        *)
LEMMA FlattenedRows ==
    ASSUME NEW rows \in Seq(Rows)
    PROVE  /\ Inserts(Flatten(rows)) = {Insert(k, MergedCells(rows, k)) : k \in InsertedKeys(rows)}
           /\ Deletes(Flatten(rows)) = {Delete(k) : k \in DeletedKeys(rows)}
           /\ KeysOf(Inserts(Flatten(rows))) = InsertedKeys(rows)
           /\ KeysOf(Deletes(Flatten(rows))) = DeletedKeys(rows)
  <1> DEFINE is == {Insert(k, MergedCells(rows, k)) : k \in InsertedKeys(rows)}
             ds == {Delete(k) : k \in DeletedKeys(rows)}
  <1>1. /\ \A r \in is : r.op = "INSERT"
        /\ \A r \in ds : r.op = "DELETE"
    BY DEF Insert, Delete
  <1>2. {r.pkey : r \in is} = InsertedKeys(rows) /\ {r.pkey : r \in ds} = DeletedKeys(rows)
    <2>1. \A k : Insert(k, MergedCells(rows, k)).pkey = k /\ Delete(k).pkey = k
      BY DEF Insert, Delete
    <2>2. {r.pkey : r \in is} = InsertedKeys(rows)
      BY <2>1
    <2>3. {r.pkey : r \in ds} = DeletedKeys(rows)
      BY <2>1
    <2> QED
      BY <2>2, <2>3
  <1> HIDE DEF is, ds
  <1>3. Inserts(Flatten(rows)) = is /\ Deletes(Flatten(rows)) = ds
    BY <1>1 DEF Inserts, Deletes, Flatten, is, ds
  <1>4. KeysOf(is) = InsertedKeys(rows) /\ KeysOf(ds) = DeletedKeys(rows)
    BY <1>2 DEF KeysOf
  <1> QED
    BY <1>3, <1>4 DEF is, ds

(* The mask takes no key that the table has, and no INSERT row.            *)
LEMMA MaskKeeps ==
    ASSUME NEW fl \in FlattenedBatches
    PROVE  /\ Inserts(Masked(fl)) = Inserts(fl)
           /\ KeptKeys(Masked(fl)) = KeptKeys(fl)
  <1>1. Inserts(Masked(fl)) = Inserts(fl)
    BY DEF Inserts, Masked
  <1>2. Deletes(Masked(fl)) = {r \in Deletes(fl) : r.pkey \in DOMAIN m_mapping}
    <2>1. \A r \in fl : r.op = "DELETE" => r.op # "INSERT"
      OBVIOUS
    <2> QED
      BY <2>1 DEF Deletes, Masked, HasKey
  <1>3. \A k \in DOMAIN m_mapping : k \in KeysOf(Deletes(Masked(fl))) <=> k \in KeysOf(Deletes(fl))
    BY <1>2 DEF KeysOf
  <1> QED
    BY <1>1, <1>3 DEF KeptKeys

(* Processing a port makes of the contents what its rows make of them one  *)
(* by one.                                                                 *)
LEMMA PortContents ==
    ASSUME GnodeTypeOK, GStateInv, NEW p \in DOMAIN m_input_ports,
           UpdateMasterTable(AppliedBatch(p))
    PROVE  Contents' = Keyed!ApplyRows(Contents, m_input_ports[p])
  <1> DEFINE rows == m_input_ports[p]
             fl == AppliedBatch(p)
             all == Flatten(rows)
             s == DOMAIN rows
  <1>1. rows \in Seq(Rows) /\ all \in FlattenedBatches /\ fl \in FlattenedBatches
    BY FlattenYieldsBatch, AppliedIsBatch DEF GnodeTypeOK
  <1>2. Contents' = SeenAfter(fl)
    BY <1>1, BatchContents
  <1>3. Inserts(fl) = Inserts(all) /\ KeptKeys(fl) = KeptKeys(all)
    BY <1>1, MaskKeeps DEF AppliedBatch
  <1>4. DOMAIN Contents = DOMAIN m_mapping /\ ContentsOK(Contents)
    <2>1. ASSUME NEW k \in DOMAIN m_mapping
          PROVE  m_table[m_mapping[k]].cells \in [Cols -> Vals \cup {Null}]
      <3>1. m_table \in Seq(MasterRow) /\ m_mapping[k] \in 1..Len(m_table)
        BY DEF GStateInv, GStateTypeOK
      <3>2. m_table[m_mapping[k]] \in MasterRow
        BY <3>1
      <3> QED
        BY <3>2 DEF MasterRow
    <2> QED
      BY <2>1 DEF Contents, ContentsOK, GStateInv, GStateTypeOK
  <1>5. /\ KeysOf(Inserts(fl)) = InsertedIn(rows, s)
        /\ KeptKeys(fl) = DOMAIN Contents \ DeletedIn(rows, s)
    BY <1>1, <1>3, <1>4, FlattenedRows, AllRows DEF KeptKeys
  <1>6. ASSUME NEW k \in InsertedIn(rows, s)
        PROVE  InsertOf(fl, k).cells = [c \in Cols |-> MergedIn(rows, s, k, c)]
    <2>1. InsertOf(fl, k) \in Inserts(all) /\ InsertOf(fl, k).pkey = k
      <3> HIDE DEF fl, rows, s, all
      <3>1. k \in KeysOf(Inserts(fl))
        BY <1>5
      <3> QED
        BY <1>1, <1>3, <3>1, InsertOfKey
    <2>2. PICK j \in InsertedKeys(rows) : InsertOf(fl, k) = Insert(j, MergedCells(rows, j))
      BY <1>1, <2>1, FlattenedRows
    <2>3. InsertOf(fl, k).cells = MergedCells(rows, k)
      BY <2>1, <2>2 DEF Insert
    <2> QED
      BY <2>3, AllRows DEF MergedCells
  <1> HIDE DEF fl, rows, s
  <1>7. SeenAfter(fl) = AppliedIn(Contents, rows, s)
    <2>1. ASSUME NEW k \in InsertedIn(rows, s)
          PROVE  \A c \in Cols : InsertOf(fl, k).cells[c] = MergedIn(rows, s, k, c)
      BY <1>6
    <2> QED
      BY <1>5, <2>1 DEF SeenAfter, AppliedIn
  <1> QED
    BY <1>1, <1>2, <1>4, <1>7, FoldIsBatch DEF rows, s

----------------------------------------------------------------------------
(* Every step of a Table is a step of the keyed table, or changes nothing  *)
(* that its readers and senders see.                                       *)

NoLoading == "load_csv" \notin Ops

(* Rows that are queued come behind those that already are.                *)
LEMMA LongerQueue ==
    ASSUME NEW S, NEW s \in Seq(S), NEW t \in Seq(S), Len(t) > 0
    PROVE  Keyed!IsStrictPrefix(s, s \o t)
  <1>1. Len(s \o t) = Len(s) + Len(t) /\ Len(s) \in Nat /\ Len(t) \in Nat /\ s \o t \in Seq(S)
    OBVIOUS
  <1>2. s # s \o t
    BY <1>1
  <1>3. SubSeq(s, 1, Len(s)) = SubSeq(s \o t, 1, Len(s))
    <2>1. \A i \in 1..Len(s) : (s \o t)[i] = s[i]
      OBVIOUS
    <2>2. SubSeq(s, 1, Len(s)) = [i \in 1..Len(s) |-> s[i]]
      OBVIOUS
    <2>3. SubSeq(s \o t, 1, Len(s)) = [i \in 1..Len(s) |-> (s \o t)[i]]
      BY <1>1
    <2> QED
      BY <2>1, <2>2, <2>3
  <1> QED
    BY <1>1, <1>2, <1>3 DEF Keyed!IsStrictPrefix, Keyed!IsPrefix

(* What a request sends to a port that exists.                             *)
LEMMA SentBehind ==
    ASSUME GnodeTypeOK, NEW p \in DOMAIN m_input_ports, NEW rows \in Seq(Rows),
           Len(rows) > 0, Send(p, rows)
    PROVE  Keyed!SendTo(p)
  <1>1. m_input_ports[p] \in Seq(Rows)
    BY DEF GnodeTypeOK
  <1>2. m_input_ports' = [m_input_ports EXCEPT ![p] = m_input_ports[p] \o rows]
    BY DEF Send
  <1>3. m_input_ports'[p] = m_input_ports[p] \o rows
    BY <1>2
  <1> QED
    BY <1>1, <1>2, <1>3, LongerQueue DEF Keyed!SendTo

(* A request of rows.                                                      *)
LEMMA QueueSends ==
    ASSUME TableInv, NEW cells \in Batches(SentRows, MaxBatch),
           NEW keys \in RequestKeys(cells), NEW p \in DOMAIN m_input_ports,
           RoomFor(Len(cells)), Queue(p, keys, cells)
    PROVE  Keyed!SendTo(p)
  <1>1. PICK n \in 1..MaxBatch : cells \in [1..n -> SentRows]
    BY BatchType, BoundAssumption
  <1>2. n \in Nat /\ n > 0 /\ Len(cells) = n /\ DOMAIN cells = 1..n /\ m_offset \in Nat
    BY <1>1, LimitAssumption DEF TableInv, TableTypeOK
  <1>3. \A i \in 1..n : RowKey(keys, i) \in Keys
    BY <1>2 DEF RoomFor, RowKey, RequestKeys
  <1>4. InsertRows(keys, cells) \in Seq(Rows) /\ Len(InsertRows(keys, cells)) = n
    BY <1>1, <1>2, <1>3, InsertRowsType
  <1>5. EvictionRows(n) \in Seq(Rows)
    BY <1>2, EvictionRowsType DEF RoomFor
  <1> DEFINE rows == InsertRows(keys, cells) \o EvictionRows(n)
  <1>6. rows \in Seq(Rows) /\ Len(rows) > 0
    BY <1>2, <1>4, <1>5
  <1>7. Send(p, rows)
    BY <1>2 DEF Queue
  <1> HIDE DEF rows
  <1> QED
    BY <1>6, <1>7, SentBehind DEF TableInv, TableTypeOK

(* Contents depend on the mapping and the table alone.                     *)
LEMMA SameSeen ==
    ASSUME m_mapping' = m_mapping, m_table' = m_table
    PROVE  Contents' = Contents
  BY DEF Contents

LEMMA EmptySeen ==
    ASSUME GStateReset
    PROVE  Contents' = <<>>
  BY DEF GStateReset, Contents

LEMMA UpdateAccepts ==
    ASSUME TableInv, NEW cells \in Batches(SentRows, MaxBatch),
           NEW keys \in RequestKeys(cells), NEW p \in Ports, Update(p, keys, cells)
    PROVE  Keyed!Accept
  <1>1. p \in DOMAIN m_input_ports /\ Contents' = Contents
    BY SameSeen DEF Update, gstateVars
  <1>2. Keyed!SendTo(p)
    BY <1>1, QueueSends DEF Update
  <1> QED
    BY <1>1, <1>2 DEF Keyed!Accept

LEMMA RemoveAccepts ==
    ASSUME TableInv, NEW keys \in Batches(Keys, MaxBatch), NEW counted \in BOOLEAN,
           Remove(keys, counted)
    PROVE  Keyed!Accept
  <1> DEFINE rows == [i \in DOMAIN keys |-> Delete(keys[i])]
  <1>1. PICK n \in 1..MaxBatch : keys \in [1..n -> Keys]
    BY BatchType, BoundAssumption
  <1>2. n \in Nat /\ n > 0 /\ DOMAIN keys = 1..n
    BY <1>1
  <1>3. rows \in Seq(Rows) /\ Len(rows) > 0
    <2>1. rows \in [1..n -> Rows]
      BY <1>1, BuiltRows
    <2> HIDE DEF rows
    <2> QED
      BY <1>2, <2>1, SequenceOf
  <1>4. Send(0, rows) /\ Contents' = Contents
    BY SameSeen DEF Remove, gstateVars
  <1>5. 0 \in DOMAIN m_input_ports /\ GnodeTypeOK
    BY DEF TableInv, TableTypeOK, GnodeTypeOK
  <1> HIDE DEF rows
  <1>6. Keyed!SendTo(0)
    BY <1>3, <1>4, <1>5, SentBehind
  <1> QED
    BY <1>4, <1>5, <1>6 DEF Keyed!Accept

LEMMA ReplaceReplaces ==
    ASSUME TableInv, NEW cells \in Batches(SentRows, MaxBatch),
           NEW keys \in RequestKeys(cells), Replace(keys, cells)
    PROVE  Keyed!ReplaceRows
  <1>1. 0 \in DOMAIN m_input_ports
    BY DEF TableInv, TableTypeOK, GnodeTypeOK
  <1> QED
    BY <1>1, QueueSends, EmptySeen DEF Replace, Keyed!ReplaceRows

LEMMA ClearEmpties ==
    ASSUME ClearTable
    PROVE  Keyed!EmptyTable
  BY EmptySeen DEF ClearTable, Reset, Keyed!EmptyTable

LEMMA MakePortOpens ==
    ASSUME NEW p \in Ports, MakePort(p)
    PROVE  p \in DOMAIN m_input_ports' \ DOMAIN m_input_ports /\ Keyed!OpenPort(p)
  BY SameSeen DEF MakePort, MakeInputPort, gstateVars, Keyed!OpenPort

LEMMA ProcessApplies ==
    ASSUME TableInv, ProcessNext
    PROVE  (\E p \in DOMAIN m_input_ports : Keyed!Apply(p)) \/ UNCHANGED Keyed!keyedVars
  <1>1. PICK p \in task : Process(p)
    BY DEF ProcessNext
  <1>2. p \in DOMAIN m_input_ports /\ GnodeTypeOK /\ GStateInv
    BY DEF TableInv, TableTypeOK
  <1>3. CASE m_input_ports[p] # <<>>
    <2>1. UpdateMasterTable(AppliedBatch(p)) /\ m_input_ports' = [m_input_ports EXCEPT ![p] = <<>>]
      BY <1>1, <1>3 DEF Process
    <2>2. Contents' = Keyed!ApplyRows(Contents, m_input_ports[p])
      BY <1>2, <2>1, PortContents
    <2> QED
      BY <1>2, <2>1, <2>2 DEF Keyed!Apply
  <1>4. CASE m_input_ports[p] = <<>>
    BY <1>1, <1>4, SameSeen DEF Process, gnodeVars, gstateVars, Keyed!keyedVars
  <1> QED
    BY <1>3, <1>4

LEMMA TableStepIsKeyed ==
    ASSUME NoLoading, TableInv, [TableNext]_tableVars
    PROVE  [Keyed!KeyedNext]_(Keyed!keyedVars)
  <1>1. ASSUME Emptying PROVE Keyed!KeyedNext
    BY <1>1, ClearEmpties, ReplaceReplaces DEF Emptying, Keyed!KeyedNext
  <1>2. ASSUME Sending PROVE Keyed!KeyedNext
    BY <1>2, UpdateAccepts, RemoveAccepts, MakePortOpens
    DEF Sending, LoadCsv, NoLoading, Keyed!KeyedNext
  <1>3. ASSUME StartRun PROVE UNCHANGED Keyed!keyedVars
    BY <1>3, SameSeen DEF StartRun, gnodeVars, gstateVars, Keyed!keyedVars
  <1>4. ASSUME ProcessNext PROVE Keyed!KeyedNext \/ UNCHANGED Keyed!keyedVars
    BY <1>4, ProcessApplies DEF Keyed!KeyedNext
  <1>5. ASSUME UNCHANGED tableVars PROVE UNCHANGED Keyed!keyedVars
    BY <1>5, SameSeen DEF tableVars, gnodeVars, gstateVars, Keyed!keyedVars
  <1> QED
    BY <1>1, <1>2, <1>3, <1>4, <1>5 DEF TableNext

(* A Table implements the keyed table: for any keys, columns, values, ports *)
(* and limit, and however requests interleave with runs, what readers see   *)
(* is each port's rows applied one by one in arrival order, whatever was    *)
(* flattened, masked or put into the row of another key (flatten,           *)
(* _process_table, update_master_table). LoadCsv builds a Table and is no   *)
(* step of the keyed table.                                                 *)
THEOREM TableImplementsKeyedTable ==
    ASSUME NoLoading
    PROVE  TableSpec => ImplementsKeyedTable
  <1>1. CsvFits
    BY DEF CsvFits, NoLoading
  <1>2. TableInit => Keyed!KeyedInit
    BY DEF TableInit, GStateInit, Contents, Keyed!KeyedInit
  <1>3. TableInv /\ [TableNext]_tableVars => [Keyed!KeyedNext]_(Keyed!keyedVars)
    BY TableStepIsKeyed
  <1>4. TableSpec => []TableInv
    BY <1>1, TableInvariant
  <1> QED
    BY <1>2, <1>3, <1>4, PTL DEF TableSpec, ImplementsKeyedTable, Keyed!KeyedSpec

----------------------------------------------------------------------------
(* A Table with a limit.                                                   *)

\* The keys that the table has once these rows are applied.
KeysAfter(keys, rows) == (keys \ DeletedKeys(rows)) \cup InsertedKeys(rows)

\* The last Limit keys below o.
NewestKeys(o) == {n \in Keys : o - Limit <= n /\ n < o}

\* Once the rows that wait on port 0 are applied, the newest keys are left.
NewestAreKept ==
    KeysAfter(DOMAIN m_mapping, m_input_ports[0]) = NewestKeys(m_offset)

\* A Table without an index that only grows, and counts no further than the
\* row numbers go: rows of other ports would be evicted out of turn, clear and
\* replace drop rows that the limit would keep, and row numbers that start
\* again at 0 are not the newest.
OnlyGrows ==
    /\ ~Indexed
    /\ Ports = {0}
    /\ Ops \cap {"replace", "clear"} = {}
    /\ OffsetBound - 1 \notin Keys

(* The rows of a queue and of what is sent behind it.                      *)
LEMMA Behind ==
    ASSUME NEW a \in Seq(Rows), NEW b \in Seq(Rows)
    PROVE  /\ a \o b \in Seq(Rows)
           /\ DOMAIN (a \o b) = 1..(Len(a) + Len(b))
           /\ \A i \in 1..Len(a) : (a \o b)[i] = a[i]
           /\ \A i \in 1..Len(b) : i + Len(a) \in DOMAIN (a \o b) /\ (a \o b)[i + Len(a)] = b[i]
           /\ \A i \in DOMAIN (a \o b) : i \in 1..Len(a) \/ i - Len(a) \in 1..Len(b)
  OBVIOUS

\* A row of a key that a queue deletes, or inserts and does not delete again.
DeletesKey(rows, k) == \E i \in DOMAIN rows : rows[i].pkey = k /\ rows[i].op = "DELETE"

InsertsKeyAt(rows, k, i) ==
    /\ rows[i].pkey = k /\ rows[i].op = "INSERT"
    /\ \A d \in DOMAIN rows : rows[d].pkey = k /\ rows[d].op = "DELETE" => d <= i

LEMMA KeysByRow ==
    ASSUME NEW rows, NEW k
    PROVE  /\ k \in DeletedKeys(rows) <=> k \in Keys /\ DeletesKey(rows, k)
           /\ k \in InsertedKeys(rows)
                <=> k \in Keys /\ \E i \in DOMAIN rows : InsertsKeyAt(rows, k, i)
  <1>1. k \in DeletedKeys(rows) <=> k \in Keys /\ DeletesKey(rows, k)
    BY DEF DeletedKeys, DeletesOf, Span, DeletesKey
  <1>2. k \in InsertedKeys(rows) <=> k \in Keys /\ \E i \in DOMAIN rows : InsertsKeyAt(rows, k, i)
    BY DEF InsertedKeys, Live, DeletesOf, Span, InsertsKeyAt
  <1> QED
    BY <1>1, <1>2

(* What a queue and the rows behind it leave is what the rows leave of     *)
(* what the queue leaves.                                                  *)
LEMMA KeysAfterBoth ==
    ASSUME NEW a \in Seq(Rows), NEW b \in Seq(Rows), NEW keys
    PROVE  KeysAfter(keys, a \o b) = KeysAfter(KeysAfter(keys, a), b)
  <1> DEFINE ab == a \o b
             n == Len(a)
  <1>1. /\ n \in Nat /\ DOMAIN a = 1..n /\ DOMAIN b = 1..Len(b) /\ Len(b) \in Nat
        /\ DOMAIN ab = 1..(n + Len(b))
        /\ \A i \in DOMAIN a : i \in DOMAIN ab /\ ab[i] = a[i]
        /\ \A i \in DOMAIN b : i + n \in DOMAIN ab /\ ab[i + n] = b[i]
        /\ \A i \in DOMAIN ab : i \in DOMAIN a \/ (i - n \in DOMAIN b /\ (i - n) + n = i)
    BY Behind
  <1>2. (\A i \in DOMAIN a : i \in Int /\ i <= n) /\ (\A i \in DOMAIN b : i \in Int /\ i >= 1)
        /\ (\A i \in DOMAIN ab : i \in Int)
    BY <1>1
  <1> HIDE DEF ab, n
  <1>3. ASSUME NEW k
        PROVE  DeletesKey(ab, k) <=> DeletesKey(a, k) \/ DeletesKey(b, k)
    <2>1. DeletesKey(a, k) => DeletesKey(ab, k)
      BY <1>1 DEF DeletesKey
    <2>2. DeletesKey(b, k) => DeletesKey(ab, k)
      BY <1>1 DEF DeletesKey
    <2>3. ASSUME NEW i \in DOMAIN ab, ab[i].pkey = k /\ ab[i].op = "DELETE"
          PROVE  DeletesKey(a, k) \/ DeletesKey(b, k)
      <3>1. CASE i \in DOMAIN a
        BY <1>1, <2>3, <3>1 DEF DeletesKey
      <3>2. CASE i - n \in DOMAIN b /\ (i - n) + n = i
        <4>1. ab[i] = b[i - n]
          BY <1>1, <3>2
        <4> QED
          BY <2>3, <3>2, <4>1 DEF DeletesKey
      <3> QED
        BY <1>1, <3>1, <3>2
    <2> QED
      BY <2>1, <2>2, <2>3 DEF DeletesKey
  <1>4. ASSUME NEW k, NEW i \in DOMAIN b, InsertsKeyAt(b, k, i)
        PROVE  InsertsKeyAt(ab, k, i + n)
    <2>1. ASSUME NEW d \in DOMAIN ab, ab[d].pkey = k, ab[d].op = "DELETE"
          PROVE  d <= i + n
      <3>1. CASE d \in DOMAIN a
        BY <1>1, <1>2, <3>1
      <3>2. CASE d - n \in DOMAIN b /\ (d - n) + n = d
        <4>1. ab[d] = b[d - n]
          BY <1>1, <3>2
        <4>2. d - n <= i
          BY <1>4, <2>1, <3>2, <4>1 DEF InsertsKeyAt
        <4> QED
          BY <1>1, <1>2, <4>2
      <3> QED
        BY <1>1, <3>1, <3>2
    <2> QED
      BY <1>1, <1>4, <2>1 DEF InsertsKeyAt
  <1>5. ASSUME NEW k, NEW i \in DOMAIN a, InsertsKeyAt(a, k, i), ~DeletesKey(b, k)
        PROVE  InsertsKeyAt(ab, k, i)
    <2>1. ASSUME NEW d \in DOMAIN ab, ab[d].pkey = k, ab[d].op = "DELETE"
          PROVE  d <= i
      <3>1. CASE d \in DOMAIN a
        BY <1>1, <1>5, <2>1, <3>1 DEF InsertsKeyAt
      <3>2. CASE d - n \in DOMAIN b /\ (d - n) + n = d
        <4>1. ab[d] = b[d - n]
          BY <1>1, <3>2
        <4> QED
          BY <1>5, <2>1, <3>2, <4>1 DEF DeletesKey
      <3> QED
        BY <1>1, <3>1, <3>2
    <2> QED
      BY <1>1, <1>5, <2>1 DEF InsertsKeyAt
  <1>6. ASSUME NEW k, NEW i \in DOMAIN ab, InsertsKeyAt(ab, k, i)
        PROVE  \/ \E j \in DOMAIN b : InsertsKeyAt(b, k, j)
               \/ ~DeletesKey(b, k) /\ \E j \in DOMAIN a : InsertsKeyAt(a, k, j)
    <2>1. CASE i \in DOMAIN a
      <3>1. ASSUME NEW d \in DOMAIN b, b[d].pkey = k, b[d].op = "DELETE"
            PROVE  FALSE
        <4>1. d + n <= i
          BY <1>1, <1>6, <3>1 DEF InsertsKeyAt
        <4> QED
          BY <1>1, <1>2, <2>1, <4>1
      <3>2. InsertsKeyAt(a, k, i)
        BY <1>1, <1>6, <2>1 DEF InsertsKeyAt
      <3> QED
        BY <2>1, <3>1, <3>2 DEF DeletesKey
    <2>2. CASE i - n \in DOMAIN b /\ (i - n) + n = i
      <3>1. ab[i] = b[i - n]
        BY <1>1, <2>2
      <3>2. ASSUME NEW d \in DOMAIN b, b[d].pkey = k, b[d].op = "DELETE"
            PROVE  d <= i - n
        <4>1. d + n <= i
          BY <1>1, <1>6, <3>2 DEF InsertsKeyAt
        <4> QED
          BY <1>1, <1>2, <4>1
      <3> QED
        BY <1>6, <2>2, <3>1, <3>2 DEF InsertsKeyAt
    <2> QED
      BY <1>1, <2>1, <2>2
  <1>7. ASSUME NEW k
        PROVE  k \in InsertedKeys(ab) <=>
                 k \in InsertedKeys(b) \/ (k \in InsertedKeys(a) /\ k \notin DeletedKeys(b))
    <2>1. ASSUME k \in InsertedKeys(b) PROVE k \in InsertedKeys(ab)
      BY <1>1, <1>4, <2>1, KeysByRow
    <2>2. ASSUME k \in InsertedKeys(a), k \notin DeletedKeys(b) PROVE k \in InsertedKeys(ab)
      BY <1>1, <1>5, <2>2, KeysByRow
    <2>3. ASSUME k \in InsertedKeys(ab)
          PROVE  k \in InsertedKeys(b) \/ (k \in InsertedKeys(a) /\ k \notin DeletedKeys(b))
      BY <1>6, <2>3, KeysByRow
    <2> QED
      BY <2>1, <2>2, <2>3
  <1>8. ASSUME NEW k
        PROVE  k \in DeletedKeys(ab) <=> k \in DeletedKeys(a) \/ k \in DeletedKeys(b)
    BY <1>3, KeysByRow
  <1>9. \A k : k \in KeysAfter(keys, ab) <=> k \in KeysAfter(KeysAfter(keys, a), b)
    BY <1>7, <1>8 DEF KeysAfter
  <1> QED
    BY <1>9 DEF ab

(* Row numbers that are keys have not started again at 0.                  *)
LEMMA NoWrap ==
    ASSUME OnlyGrows, m_offset \in 0..(OffsetBound - 1), NEW n \in Nat, n > 0,
           \A i \in 1..n : (m_offset + i - 1) % OffsetBound \in Keys
    PROVE  /\ m_offset + n < OffsetBound
           /\ (m_offset + n) % OffsetBound = m_offset + n
           /\ \A i \in 1..n : (m_offset + i - 1) % OffsetBound = m_offset + i - 1
                             /\ m_offset + i - 1 \in Keys
  <1>1. OffsetBound \in Nat /\ OffsetBound > 0 /\ m_offset \in Nat
    BY LimitAssumption
  <1>2. m_offset + n < OffsetBound
    <2> SUFFICES ASSUME m_offset + n >= OffsetBound
                 PROVE  FALSE
      BY <1>1
    <2>1. OffsetBound - m_offset \in 1..n
      BY <1>1
    <2>2. m_offset + (OffsetBound - m_offset) - 1 = OffsetBound - 1
      BY <1>1
    <2>3. (OffsetBound - 1) % OffsetBound = OffsetBound - 1
      BY <1>1
    <2>4. OffsetBound - 1 \in Keys
      BY <2>1, <2>2, <2>3
    <2> QED
      BY <2>4 DEF OnlyGrows
  <1>3. (m_offset + n) % OffsetBound = m_offset + n
    BY <1>1, <1>2
  <1>4. ASSUME NEW i \in 1..n
        PROVE  (m_offset + i - 1) % OffsetBound = m_offset + i - 1
    BY <1>1, <1>2
  <1>5. ASSUME NEW i \in 1..n
        PROVE  m_offset + i - 1 \in Keys
    BY <1>4
  <1> QED
    BY <1>2, <1>3, <1>4, <1>5

(* The keys of the rows that a request inserts, and of those it evicts.    *)
LEMMA RequestKeysAre ==
    ASSUME OnlyGrows, m_offset \in 0..(OffsetBound - 1), NEW n \in Nat, n > 0,
           NEW cells \in [1..n -> SentRows], NEW keys, RoomFor(n)
    PROVE  LET new == InsertRows(keys, cells) \o EvictionRows(n)
           IN  /\ new \in Seq(Rows) /\ Len(new) > 0
               /\ \A set : KeysAfter(set, new) =
                     (set \cup (m_offset..(m_offset + n - 1)))
                       \ (OldestKey..(OldestKey + Evictions(n) - 1))
  <1> DEFINE a == InsertRows(keys, cells)
             b == EvictionRows(n)
             e == Evictions(n)
             o == m_offset
  <1>1. \A i \in 1..n : (o + i - 1) % OffsetBound \in Keys
    BY DEF RoomFor, OnlyGrows
  <1>2. \A i \in 1..n : RowKey(keys, i) = o + i - 1 /\ o + i - 1 \in Keys
    BY <1>1, NoWrap DEF RowKey, OnlyGrows
  <1>3. o \in Nat /\ e \in Nat /\ OldestKey \in Nat
    BY LimitAssumption DEF Evictions, AtLeastZero, OldestKey
  <1>4. a \in Seq(Rows) /\ Len(a) = n
    BY <1>2, InsertRowsType
  <1>5. \A i \in 1..e : OldestKey + i - 1 \in Keys
    BY DEF RoomFor
  <1>6. b \in Seq(Rows)
    BY <1>3, <1>5, EvictionRowsType
  <1>7. DOMAIN a = 1..n /\ \A i \in 1..n : a[i].pkey = o + i - 1 /\ a[i].op = "INSERT"
    BY <1>2 DEF InsertRows, Insert
  <1>8. DOMAIN b = 1..e /\ \A i \in 1..e : b[i].pkey = OldestKey + i - 1 /\ b[i].op = "DELETE"
    BY DEF EvictionRows, Delete
  <1> HIDE DEF a, b, e, o
  <1>9. DeletedKeys(a) = {}
    BY <1>7, KeysByRow DEF DeletesKey
  <1>10. InsertedKeys(b) = {}
    BY <1>8, KeysByRow DEF InsertsKeyAt
  <1>11. InsertedKeys(a) = o..(o + n - 1)
    <2>1. ASSUME NEW k \in InsertedKeys(a) PROVE k \in o..(o + n - 1)
      <3>1. PICK i \in 1..n : k = o + i - 1
        BY <1>7, KeysByRow DEF InsertsKeyAt
      <3> QED
        BY <1>3, <3>1
    <2>2. ASSUME NEW k \in o..(o + n - 1) PROVE k \in InsertedKeys(a)
      <3> DEFINE i == k - o + 1
      <3>1. i \in 1..n /\ o + i - 1 = k
        BY <1>3
      <3> HIDE DEF i
      <3>2. a[i].pkey = k /\ a[i].op = "INSERT" /\ k \in Keys
        BY <1>2, <1>7, <3>1 DEF o
      <3>3. InsertsKeyAt(a, k, i)
        BY <1>7, <3>2 DEF InsertsKeyAt
      <3> QED
        BY <1>7, <3>1, <3>2, <3>3, KeysByRow
    <2> QED
      BY <2>1, <2>2
  <1>12. DeletedKeys(b) = OldestKey..(OldestKey + e - 1)
    <2>1. ASSUME NEW k \in DeletedKeys(b) PROVE k \in OldestKey..(OldestKey + e - 1)
      <3>2. DeletesKey(b, k)
        BY KeysByRow
      <3>1. PICK i \in 1..e : k = OldestKey + i - 1
        BY <1>8, <3>2 DEF DeletesKey
      <3> QED
        BY <1>3, <3>1
    <2>2. ASSUME NEW k \in OldestKey..(OldestKey + e - 1) PROVE k \in DeletedKeys(b)
      <3> DEFINE i == k - OldestKey + 1
      <3>1. i \in 1..e /\ OldestKey + i - 1 = k
        BY <1>3
      <3> HIDE DEF i
      <3>2. b[i].pkey = k /\ b[i].op = "DELETE" /\ k \in Keys
        BY <1>5, <1>8, <3>1 DEF e
      <3> QED
        BY <1>8, <3>1, <3>2, KeysByRow DEF DeletesKey
    <2> QED
      BY <2>1, <2>2
  <1>13. ASSUME NEW set
         PROVE  KeysAfter(set, a \o b) =
                  (set \cup (o..(o + n - 1))) \ (OldestKey..(OldestKey + e - 1))
    <2>1. KeysAfter(set, a \o b) = KeysAfter(KeysAfter(set, a), b)
      BY <1>4, <1>6, KeysAfterBoth
    <2> QED
      BY <1>9, <1>10, <1>11, <1>12, <2>1 DEF KeysAfter
  <1>14. a \o b \in Seq(Rows) /\ Len(a \o b) > 0
    BY <1>4, <1>6
  <1> QED
    BY <1>13, <1>14 DEF a, b, e, o

(* The newest keys, and those of n more rows, without what they evict.     *)
LEMMA NewestMove ==
    ASSUME NEW n \in Nat, n > 0, m_offset \in Nat,
           \A i \in 1..n : m_offset + i - 1 \in Keys
    PROVE  NewestKeys(m_offset + n) =
             (NewestKeys(m_offset) \cup (m_offset..(m_offset + n - 1)))
               \ (OldestKey..(OldestKey + Evictions(n) - 1))
  <1> DEFINE o == m_offset
             gone == OldestKey..(OldestKey + Evictions(n) - 1)
  <1>1. Limit \in Nat /\ o \in Nat /\ Keys \subseteq Nat
    BY LimitAssumption, KeysAssumption
  <1>2. \A k \in o..(o + n - 1) : k \in Keys
    <2> SUFFICES ASSUME NEW k \in o..(o + n - 1) PROVE k \in Keys
      OBVIOUS
    <2>1. k - o + 1 \in 1..n /\ o + (k - o + 1) - 1 = k
      BY <1>1
    <2> QED
      BY <2>1
  <1>3. \A k \in Nat : k < o + n => (k \in gone <=> (k < o + n - Limit /\ o - Limit <= k))
    <2> SUFFICES ASSUME NEW k \in Nat, k < o + n
                 PROVE  k \in gone <=> (k < o + n - Limit /\ o - Limit <= k)
      OBVIOUS
    <2>1. CASE o + n < Limit
      BY <1>1, <2>1 DEF Evictions, AtLeastZero, OldestKey
    <2>2. CASE o + n >= Limit /\ o >= Limit
      BY <1>1, <2>2 DEF Evictions, AtLeastZero, OldestKey
    <2>3. CASE o + n >= Limit /\ o < Limit
      BY <1>1, <2>3 DEF Evictions, AtLeastZero, OldestKey
    <2> QED
      BY <1>1, <2>1, <2>2, <2>3
  <1> HIDE DEF gone, o
  <1>4. ASSUME NEW k \in NewestKeys(o + n)
        PROVE  k \in (NewestKeys(o) \cup (o..(o + n - 1))) \ gone
    <2>1. k \in Keys /\ k \in Nat /\ o + n - Limit <= k /\ k < o + n
      BY <1>1 DEF NewestKeys
    <2>2. k \notin gone
      BY <1>1, <1>3, <2>1
    <2>3. k \in NewestKeys(o) \/ k \in o..(o + n - 1)
      BY <1>1, <2>1 DEF NewestKeys
    <2> QED
      BY <2>2, <2>3
  <1>5. ASSUME NEW k \in (NewestKeys(o) \cup (o..(o + n - 1))) \ gone
        PROVE  k \in NewestKeys(o + n)
    <2>1. k \in Keys /\ k \in Nat /\ o - Limit <= k /\ k < o + n
      BY <1>1, <1>2 DEF NewestKeys
    <2>2. ~(k < o + n - Limit)
      BY <1>3, <2>1
    <2> QED
      BY <1>1, <2>1, <2>2 DEF NewestKeys
  <1> QED
    BY <1>4, <1>5 DEF gone, o

(* The keys after a port is processed.                                     *)
LEMMA PortKeysAfter ==
    ASSUME GnodeTypeOK, GStateInv, NEW p \in DOMAIN m_input_ports,
           UpdateMasterTable(AppliedBatch(p))
    PROVE  DOMAIN m_mapping' = KeysAfter(DOMAIN m_mapping, m_input_ports[p])
  <1> DEFINE rows == m_input_ports[p]
             fl == AppliedBatch(p)
  <1>1. rows \in Seq(Rows) /\ Flatten(rows) \in FlattenedBatches /\ fl \in FlattenedBatches
    BY FlattenYieldsBatch, AppliedIsBatch DEF GnodeTypeOK
  <1>2. Contents' = SeenAfter(fl)
    BY <1>1, BatchContents
  <1>3. DOMAIN m_mapping' = KeptKeys(fl) \cup KeysOf(Inserts(fl))
    <2> HIDE DEF fl
    <2>1. DOMAIN Contents' = DOMAIN m_mapping'
      BY DEF Contents
    <2> QED
      BY <1>2, <2>1 DEF SeenAfter
  <1>4. Inserts(fl) = Inserts(Flatten(rows)) /\ KeptKeys(fl) = KeptKeys(Flatten(rows))
    BY <1>1, MaskKeeps DEF AppliedBatch
  <1>5. KeysOf(Inserts(fl)) = InsertedKeys(rows) /\ KeptKeys(fl) = DOMAIN m_mapping \ DeletedKeys(rows)
    BY <1>1, <1>4, FlattenedRows DEF KeptKeys
  <1> QED
    BY <1>3, <1>5 DEF KeysAfter

(* No rows, no change of keys.                                             *)
LEMMA KeysAfterNone ==
    ASSUME NEW keys
    PROVE  KeysAfter(keys, <<>>) = keys
  BY DEF KeysAfter, DeletedKeys, InsertedKeys, Live, DeletesOf, Span

LEMMA NewestInit == TableInit => NewestAreKept
  <1> SUFFICES ASSUME TableInit PROVE NewestAreKept
    OBVIOUS
  <1>1. DOMAIN m_mapping = {} /\ m_input_ports[0] = <<>> /\ m_offset = 0
    BY DEF TableInit, GStateInit
  <1>2. NewestKeys(0) = {}
    <2>1. \A k \in Keys : ~(k < 0)
      BY KeysAssumption
    <2> QED
      BY <2>1 DEF NewestKeys
  <1> QED
    BY <1>1, <1>2, KeysAfterNone DEF NewestAreKept

LEMMA UpdateKeepsNewest ==
    ASSUME OnlyGrows, TableInv, NewestAreKept, NEW cells \in Batches(SentRows, MaxBatch),
           NEW keys \in RequestKeys(cells), NEW p \in Ports, Update(p, keys, cells)
    PROVE  NewestAreKept'
  <1>1. PICK n \in 1..MaxBatch : cells \in [1..n -> SentRows]
    BY BatchType, BoundAssumption
  <1>2. /\ n \in Nat /\ n > 0 /\ Len(cells) = n
        /\ m_offset \in 0..(OffsetBound - 1) /\ m_offset \in Nat
        /\ p = 0 /\ 0 \in DOMAIN m_input_ports /\ RoomFor(n)
        /\ m_input_ports[0] \in Seq(Rows) /\ m_mapping' = m_mapping
    BY <1>1, LimitAssumption
    DEF TableInv, TableTypeOK, GnodeTypeOK, OnlyGrows, Update, gstateVars
  <1> DEFINE new == InsertRows(keys, cells) \o EvictionRows(n)
             added == m_offset..(m_offset + n - 1)
             gone == OldestKey..(OldestKey + Evictions(n) - 1)
  <1>3. m_input_ports' = [m_input_ports EXCEPT ![0] = m_input_ports[0] \o new]
        /\ m_offset' = (m_offset + n) % OffsetBound
    BY <1>2 DEF Update, Queue, Send
  <1>4. new \in Seq(Rows) /\ \A set : KeysAfter(set, new) = (set \cup added) \ gone
    BY <1>1, <1>2, RequestKeysAre
  <1>5. \A i \in 1..n : (m_offset + i - 1) % OffsetBound \in Keys
    BY <1>2 DEF RoomFor, OnlyGrows
  <1>6. m_offset' = m_offset + n /\ \A i \in 1..n : m_offset + i - 1 \in Keys
    BY <1>2, <1>3, <1>5, NoWrap
  <1>7. NewestKeys(m_offset') = (NewestKeys(m_offset) \cup added) \ gone
    BY <1>2, <1>6, NewestMove
  <1> HIDE DEF new, added, gone
  <1>8. KeysAfter(DOMAIN m_mapping, m_input_ports[0] \o new) =
          KeysAfter(NewestKeys(m_offset), new)
    BY <1>2, <1>4, KeysAfterBoth DEF NewestAreKept
  <1> QED
    BY <1>2, <1>3, <1>4, <1>7, <1>8 DEF NewestAreKept

LEMMA ProcessKeepsNewest ==
    ASSUME OnlyGrows, TableInv, NewestAreKept, ProcessNext
    PROVE  NewestAreKept'
  <1>1. PICK p \in task : Process(p)
    BY DEF ProcessNext
  <1>2. p \in DOMAIN m_input_ports /\ GnodeTypeOK /\ GStateInv /\ p = 0 /\ m_offset' = m_offset
    BY DEF TableInv, TableTypeOK, GnodeTypeOK, OnlyGrows, ProcessNext
  <1>3. CASE m_input_ports[p] # <<>>
    <2>1. UpdateMasterTable(AppliedBatch(p)) /\ m_input_ports' = [m_input_ports EXCEPT ![p] = <<>>]
      BY <1>1, <1>3 DEF Process
    <2>2. DOMAIN m_mapping' = NewestKeys(m_offset)
      BY <1>2, <2>1, PortKeysAfter DEF NewestAreKept
    <2>3. m_input_ports'[0] = <<>>
      BY <1>2, <2>1
    <2> QED
      BY <1>2, <2>2, <2>3, KeysAfterNone DEF NewestAreKept, NewestKeys
  <1>4. CASE m_input_ports[p] = <<>>
    BY <1>1, <1>2, <1>4 DEF Process, gnodeVars, gstateVars, NewestAreKept, NewestKeys
  <1> QED
    BY <1>3, <1>4

LEMMA LoadKeepsNewest ==
    ASSUME CsvFits, OnlyGrows, TableInv, NEW cells \in Batches(SentRows, MaxLoad), LoadCsv(cells)
    PROVE  NewestAreKept'
  <1> DEFINE rows == InsertRows(<<>>, cells)
  <1>1. PICK n \in 1..MaxLoad : cells \in [1..n -> SentRows]
    BY BatchType, BoundAssumption
  <1>2. /\ n \in Nat /\ n > 0 /\ n <= Limit /\ n <= OffsetBound
        /\ Len(cells) = n /\ DOMAIN cells = 1..n /\ m_offset = 0
        /\ m_offset \in 0..(OffsetBound - 1)
    BY <1>1, BoundAssumption, LimitAssumption DEF LoadCsv, CsvFits, TableInv, TableTypeOK
  <1>3. \A i \in 1..n : (m_offset + i - 1) % OffsetBound = i - 1 /\ i - 1 \in Keys
    <2>1. \A i \in 1..n : (i - 1) % OffsetBound = i - 1
      BY <1>2, LimitAssumption
    <2>2. \A i \in 1..n : i - 1 \in Keys
      BY <1>2, KeysAssumption DEF LoadCsv
    <2>3. \A i \in 1..n : m_offset + i - 1 = i - 1
      BY <1>2
    <2> QED
      BY <2>1, <2>2, <2>3
  <1>4. m_offset' = n
    <2>1. (m_offset + n) % OffsetBound = m_offset + n
      BY <1>2, <1>3, NoWrap
    <2>2. m_offset' = n % OffsetBound
      BY <1>2 DEF LoadCsv
    <2> QED
      BY <1>2, <2>1, <2>2
  <1>5. DOMAIN rows = 1..n /\ \A i \in 1..n : rows[i].pkey = i - 1
    BY <1>2, <1>3 DEF InsertRows, Insert, RowKey, OnlyGrows
  <1>6. InitFromTable(rows)
    <2>1. Evictions(n) = 0
      BY <1>2, LimitAssumption DEF Evictions, AtLeastZero
    <2>2. EvictionRows(Len(cells)) = <<>>
      BY <1>2, <2>1 DEF EvictionRows
    <2>3. rows \in Seq(Rows)
      <3>1. \A i \in 1..n : RowKey(<<>>, i) \in Keys
        BY <1>3 DEF RowKey, OnlyGrows
      <3> QED
        BY <1>1, <1>2, <3>1, InsertRowsType
    <2>4. rows \o <<>> = rows
      <3> HIDE DEF rows
      <3> QED
        BY <2>3
    <2> QED
      BY <2>2, <2>4 DEF LoadCsv
  <1> HIDE DEF rows
  <1>7. DOMAIN m_mapping' = {rows[i].pkey : i \in DOMAIN rows}
    BY <1>6 DEF InitFromTable
  <1>8. \A k : k \in DOMAIN m_mapping' <=> k \in NewestKeys(n)
    <2>1. ASSUME NEW k \in DOMAIN m_mapping' PROVE k \in NewestKeys(n)
      <3>1. PICK i \in 1..n : k = i - 1
        BY <1>5, <1>7
      <3> QED
        BY <1>2, <1>3, <3>1, LimitAssumption DEF NewestKeys
    <2>2. ASSUME NEW k \in NewestKeys(n) PROVE k \in DOMAIN m_mapping'
      <3>1. k \in Nat /\ k < n
        BY KeysAssumption DEF NewestKeys
      <3>2. k + 1 \in 1..n /\ (k + 1) - 1 = k
        BY <1>2, <3>1
      <3> QED
        BY <1>5, <1>7, <3>2
    <2> QED
      BY <2>1, <2>2
  <1>9. m_input_ports'[0] = <<>>
    BY DEF LoadCsv
  <1> QED
    BY <1>4, <1>8, <1>9, KeysAfterNone DEF NewestAreKept, NewestKeys

LEMMA StepKeepsNewest ==
    ASSUME CsvFits, OnlyGrows, TableInv, NewestAreKept, [TableNext]_tableVars
    PROVE  NewestAreKept'
  <1>1. ~Emptying
    BY DEF OnlyGrows, Emptying, ClearTable, Replace
  <1>2. ASSUME Sending PROVE NewestAreKept'
    <2>1. ASSUME NEW p \in Ports, MakePort(p) PROVE FALSE
      BY <2>1 DEF OnlyGrows, MakePort, MakeInputPort, TableInv, TableTypeOK, GnodeTypeOK
    <2>2. ASSUME NEW keys \in Batches(Keys, MaxBatch), NEW counted \in BOOLEAN,
                 Remove(keys, counted)
          PROVE  FALSE
      BY <2>2 DEF OnlyGrows, Remove
    <2> QED
      BY <1>2, <2>1, <2>2, UpdateKeepsNewest, LoadKeepsNewest DEF Sending
  <1>3. ASSUME StartRun \/ UNCHANGED tableVars PROVE NewestAreKept'
    BY <1>3 DEF StartRun, tableVars, gnodeVars, gstateVars, NewestAreKept, NewestKeys
  <1> QED
    BY <1>1, <1>2, <1>3, ProcessKeepsNewest DEF TableNext

(* With a limit, what is left once all rows are applied are the rows that  *)
(* were inserted last, as many as the limit allows, however many rows a    *)
(* batch has, below or above the limit, and however batches are merged by  *)
(* a run (process_op_column, flatten): for a Table without an index that   *)
(* is neither cleared nor replaced and has one port.                       *)
THEOREM NewestAreRetained ==
    ASSUME CsvFits, OnlyGrows
    PROVE  TableSpec => []RetainsNewest
  <1>1. TableInit => NewestAreKept
    BY NewestInit
  <1>2. TableInv /\ NewestAreKept /\ [TableNext]_tableVars => NewestAreKept'
    BY StepKeepsNewest
  <1>3. TableInv /\ NewestAreKept => RetainsNewest
    <2> SUFFICES ASSUME TableInv, NewestAreKept, Quiescent
                 PROVE  DOMAIN m_mapping = NewestKeys(m_offset)
      BY DEF RetainsNewest, NewestKeys
    <2>1. m_input_ports[0] = <<>>
      BY DEF TableInv, TableTypeOK, GnodeTypeOK, Quiescent
    <2> QED
      BY <2>1, KeysAfterNone DEF NewestAreKept
  <1>4. TableSpec => []TableInv
    BY TableInvariant
  <1> QED
    BY <1>1, <1>2, <1>3, <1>4, PTL DEF TableSpec

(* So such a Table never settles with more rows than its limit.            *)
THEOREM LimitIsRespected ==
    ASSUME CsvFits, OnlyGrows
    PROVE  TableSpec => []LimitRespected
  <1>1. TableInv /\ RetainsNewest => LimitRespected
    <2> SUFFICES ASSUME TableInv, RetainsNewest, Quiescent
                 PROVE  Cardinality(DOMAIN m_mapping) <= Limit
      BY DEF LimitRespected
    <2> DEFINE low == m_offset - Limit
               last == low..(m_offset - 1)
    <2>1. m_offset \in Nat /\ Limit \in Nat /\ low \in Int
      BY LimitAssumption DEF TableInv, TableTypeOK
    <2>2. DOMAIN m_mapping \subseteq last
      <3> SUFFICES ASSUME NEW k \in DOMAIN m_mapping
                   PROVE  k \in last
        OBVIOUS
      <3>1. k \in Keys /\ m_offset - Limit <= k /\ k < m_offset
        BY DEF RetainsNewest
      <3>2. k \in Nat
        BY <3>1, KeysAssumption
      <3> QED
        BY <2>1, <3>1, <3>2
    <2>3. IsFiniteSet(last) /\ Cardinality(last) = Limit
      <3>1. IsFiniteSet(last)
            /\ Cardinality(last) = IF low > m_offset - 1 THEN 0 ELSE (m_offset - 1) - low + 1
        BY <2>1, FS_Interval
      <3> HIDE DEF last
      <3> QED
        BY <2>1, <3>1
    <2> QED
      BY <2>2, <2>3, FS_Subset
  <1>2. TableSpec => []TableInv
    BY TableInvariant
  <1>3. TableSpec => []RetainsNewest
    BY NewestAreRetained
  <1> QED
    BY <1>1, <1>2, <1>3, PTL
=============================================================================
