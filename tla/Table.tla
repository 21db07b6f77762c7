------------------------------- MODULE Table -------------------------------
(***************************************************************************)
(* Table, with the t_pool and t_update_task that run its gnode. Callers'   *)
(* requests queue rows on a port and set m_data_remaining; a run clears it *)
(* and processes the ports in port order. A run is split at the ports: the *)
(* update callback is called between two of them.                          *)
(***************************************************************************)
EXTENDS Gnode

Sets == INSTANCE FiniteSetsExt

CONSTANTS Indexed,      \* TRUE: rows are keyed by an index column;
                        \* FALSE: by their number, an implicit index
          Limit,        \* m_limit: the option, or the default of INT_MAX
          OffsetBound,  \* m_offset counts modulo this (2^32 in the code)
          Ops,          \* the requests that callers make
          SentCells,    \* the cells of the rows that callers send
          MaxBatch,     \* bound: rows in one request
          MaxLoad,      \* bound: rows of the CSV that a Table is made from
          MaxQueued     \* bound: rows waiting on all ports

ASSUME IndexedAssumption == Indexed \in BOOLEAN
ASSUME LimitAssumption == Limit \in Nat /\ OffsetBound \in Nat \ {0}
ASSUME SentAssumption == SentCells \subseteq Cell
ASSUME OpsAssumption == Ops \subseteq {"update", "remove", "replace", "clear", "make_port", "load_csv"}
ASSUME BoundAssumption == MaxBatch \in Nat /\ MaxLoad \in Nat /\ MaxQueued \in Nat

VARIABLES m_offset,          \* rows inserted so far
          m_data_remaining,  \* t_pool: rows may be waiting
          task               \* the ports that the current run has yet to process

tableVars == <<m_offset, m_data_remaining, task, gnodeVars>>

TableTypeOK ==
    /\ GnodeTypeOK
    /\ m_offset \in 0..(OffsetBound - 1)
    /\ m_data_remaining \in BOOLEAN
    /\ task \subseteq DOMAIN m_input_ports

----------------------------------------------------------------------------
(* process_op_column: an INSERT batch that takes the count of inserted     *)
(* rows past the limit carries DELETEs for the oldest row numbers.         *)

AtLeastZero(n) == IF n > 0 THEN n ELSE 0

Evictions(n) ==
    IF m_offset + n >= Limit THEN n - AtLeastZero(Limit - m_offset) ELSE 0

\* Mutant: eviction starts one row too late.
MutOldestKey == AtLeastZero(m_offset - Limit + 1)

OldestKey == AtLeastZero(m_offset - Limit)

\* The DELETE rows appended to a batch of n rows.
EvictionRows(n) == [i \in 1..Evictions(n) |-> Delete(OldestKey + i - 1)]

\* The key of row i of a batch: its index cell, or its number.
RowKey(keys, i) == IF Indexed THEN keys[i] ELSE (m_offset + i - 1) % OffsetBound

InsertRows(keys, cells) ==
    [i \in DOMAIN cells |-> Insert(RowKey(keys, i), cells[i])]

----------------------------------------------------------------------------
(* Requests.                                                               *)

Batches(S, max) == UNION {[1..n -> S] : n \in 1..max}

SentRows == [Cols -> SentCells]

\* The keys of a request: one for each row, if the Table has an index.
RequestKeys(cells) == IF Indexed THEN [DOMAIN cells -> Keys] ELSE {<<>>}

QueuedOn(p) == IF p \in DOMAIN m_input_ports THEN Len(m_input_ports[p]) ELSE 0

\* update_rows and its like: an empty batch returns before it is sent. (The
\* rows of a request that names no port are lost; callers use their ports.)
Queue(p, keys, cells) ==
    /\ Len(cells) > 0
    /\ Send(p, InsertRows(keys, cells) \o EvictionRows(Len(cells)))
    /\ m_offset' = (m_offset + Len(cells)) % OffsetBound
    /\ m_data_remaining' = TRUE

RowsWaiting == Sets!MapThenSumSet(QueuedOn, Ports)

\* Whether the model has keys and room for n more rows.
RoomFor(n) ==
    /\ RowsWaiting + n + Evictions(n) <= MaxQueued
    /\ Indexed \/ \A i \in 1..n : (m_offset + i - 1) % OffsetBound \in Keys
    /\ \A i \in 1..Evictions(n) : OldestKey + i - 1 \in Keys

Update(p, keys, cells) ==
    /\ "update" \in Ops
    /\ p \in DOMAIN m_input_ports
    /\ RoomFor(Len(cells))
    /\ Queue(p, keys, cells)
    /\ UNCHANGED <<task, gstateVars>>

\* remove_rows: only a Table with an index, and always on port 0. remove_cols
\* counts the removed rows as if they had been inserted.
Remove(keys, counted) ==
    /\ "remove" \in Ops
    /\ Indexed
    /\ RowsWaiting + Len(keys) <= MaxQueued
    /\ Send(0, [i \in DOMAIN keys |-> Delete(keys[i])])
    /\ m_offset' = IF counted THEN (m_offset + Len(keys)) % OffsetBound ELSE m_offset
    /\ m_data_remaining' = TRUE
    /\ UNCHANGED <<task, gstateVars>>

\* TableReplaceReq: clear the table, then queue the rows on port 0.
Replace(keys, cells) ==
    /\ "replace" \in Ops
    /\ RoomFor(Len(cells))
    /\ GStateReset
    /\ Queue(0, keys, cells)
    /\ UNCHANGED task

\* Table::clear of the client: a replace by no rows, so nothing is queued.
ClearTable ==
    /\ "clear" \in Ops
    /\ Reset
    /\ UNCHANGED <<m_offset, m_data_remaining, task>>

\* from_csv and init_bulk: a new Table without an index takes the CSV's rows
\* as its master table.
LoadCsv(cells) ==
    /\ "load_csv" \in Ops
    /\ ~Indexed
    /\ m_offset = 0 /\ m_table = <<>> /\ m_input_ports = [p \in {0} |-> <<>>]
    /\ DOMAIN cells \subseteq {k + 1 : k \in Keys}
    /\ InitFromTable(InsertRows(<<>>, cells) \o EvictionRows(Len(cells)))
    /\ m_offset' = Len(cells) % OffsetBound
    /\ UNCHANGED <<m_input_ports, m_data_remaining, task>>

MakePort(p) ==
    /\ "make_port" \in Ops
    /\ MakeInputPort(p)
    /\ UNCHANGED <<m_offset, m_data_remaining, task>>

----------------------------------------------------------------------------
(* t_pool::_process and t_update_task::run.                                *)

\* Mutant: a run processes port 0 only.
MutStartRun ==
    /\ task = {}
    /\ m_data_remaining
    /\ m_data_remaining' = FALSE
    /\ task' = {0}
    /\ UNCHANGED <<m_offset, gnodeVars>>

StartRun ==
    /\ task = {}
    /\ m_data_remaining
    /\ m_data_remaining' = FALSE
    /\ task' = DOMAIN m_input_ports
    /\ UNCHANGED <<m_offset, gnodeVars>>

ProcessNext ==
    /\ \E p \in task :
         /\ \A q \in task : p <= q
         /\ Process(p)
         /\ task' = task \ {p}
    /\ UNCHANGED <<m_offset, m_data_remaining>>

----------------------------------------------------------------------------

TableInit ==
    /\ GStateInit
    /\ m_input_ports = [p \in {0} |-> <<>>]
    /\ m_offset = 0
    /\ m_data_remaining = FALSE
    /\ task = {}

\* The requests that empty the master table, and the others.
Emptying ==
    \/ ClearTable
    \/ \E cells \in Batches(SentRows, MaxBatch) :
         \E keys \in RequestKeys(cells) : Replace(keys, cells)

Sending ==
    \/ \E cells \in Batches(SentRows, MaxBatch) :
         \E keys \in RequestKeys(cells), p \in Ports : Update(p, keys, cells)
    \/ \E keys \in Batches(Keys, MaxBatch), counted \in BOOLEAN : Remove(keys, counted)
    \/ \E cells \in Batches(SentRows, MaxLoad) : LoadCsv(cells)
    \/ \E p \in Ports : MakePort(p)

TableNext == Emptying \/ Sending \/ StartRun \/ ProcessNext

TableSpec == TableInit /\ [][TableNext]_tableVars

\* The server must eventually be polled while rows wait, and a run, once
\* started, goes on to the last port.
FairTableSpec ==
    TableSpec /\ WF_tableVars(StartRun) /\ WF_tableVars(ProcessNext)
============================================================================
