------------------------------- MODULE Gnode -------------------------------
(***************************************************************************)
(* t_gnode: the node that owns a Table's master table. Callers send rows   *)
(* to its input ports; processing a port flattens the rows queued there,   *)
(* masks out the DELETEs of unknown keys and updates the master table.     *)
(***************************************************************************)
EXTENDS GState

CONSTANT Ports   \* the input ports a Table can have: 0..n, 0 always exists

ASSUME PortsAssumption == 0 \in Ports /\ Ports \subseteq Nat

VARIABLE m_input_ports   \* port -> rows queued, for the ports made so far

gnodeVars == <<m_input_ports, gstateVars>>

GnodeTypeOK ==
    /\ GStateTypeOK
    /\ DOMAIN m_input_ports \subseteq Ports
    /\ 0 \in DOMAIN m_input_ports
    /\ m_input_ports \in [DOMAIN m_input_ports -> Seq(Rows)]

----------------------------------------------------------------------------
(* _process_mask_existed_rows: every INSERT stays, a DELETE only if its    *)
(* key is in the table.                                                    *)

Masked(fl) == {r \in fl : r.op = "INSERT" \/ HasKey(r.pkey)}

\* The first update of an empty table takes the batch unmasked.
FirstUpdate == DOMAIN m_mapping = {}

AppliedBatch(p) ==
    LET fl == Flatten(m_input_ports[p])
    IN  IF FirstUpdate THEN fl ELSE Masked(fl)

----------------------------------------------------------------------------
(* Operations.                                                             *)

\* t_gnode::send; a port that does not exist is reported and ignored.
Send(p, rows) ==
    m_input_ports' = IF p \in DOMAIN m_input_ports
                     THEN [m_input_ports EXCEPT ![p] = @ \o rows]
                     ELSE m_input_ports

\* make_input_port: port ids are given out in order.
MakeInputPort(p) ==
    /\ p \in Ports \ DOMAIN m_input_ports
    /\ \A q \in Ports : q < p => q \in DOMAIN m_input_ports
    /\ m_input_ports' = [q \in DOMAIN m_input_ports \cup {p} |->
                           IF q = p THEN <<>> ELSE m_input_ports[q]]
    /\ UNCHANGED gstateVars

\* Mutant: the first update of an empty table notifies nobody.
MutNotifies(p) == m_input_ports[p] # <<>> /\ ~FirstUpdate

\* process(port): TRUE is returned, and listeners notified, if and only if
\* the port had rows.
ProcessNotifies(p) == m_input_ports[p] # <<>>

Process(p) ==
    IF m_input_ports[p] # <<>>
    THEN /\ UpdateMasterTable(AppliedBatch(p))
         /\ m_input_ports' = [m_input_ports EXCEPT ![p] = <<>>]
    ELSE UNCHANGED gnodeVars

\* reset: the master table is emptied. What is queued on the ports stays.
Reset ==
    /\ GStateReset
    /\ UNCHANGED m_input_ports
============================================================================
