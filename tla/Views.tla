------------------------------- MODULE Views -------------------------------
(***************************************************************************)
(* A Table with its Views: the contexts registered on its gnode, which are *)
(* told of every batch that the gnode processes and of every reset.        *)
(***************************************************************************)
EXTENDS Table, FlatTraversal

CONSTANTS ViewIds,   \* names of Views
          Configs    \* the configs callers use: [filters, sortBy]

ASSUME OrderedAssumption == Vals \subseteq Nat

VARIABLE m_contexts  \* name -> view, for the Views that exist

viewsVars == <<m_contexts, tableVars>>

EachView(Op(_)) == [v \in DOMAIN m_contexts |-> Op(m_contexts[v])]

\* _register_context.
MakeView(v, config) ==
    /\ v \notin DOMAIN m_contexts
    /\ m_contexts' = [w \in DOMAIN m_contexts \cup {v} |->
                        IF w = v THEN Load(EmptyView(config), Contents)
                        ELSE m_contexts[w]]
    /\ UNCHANGED tableVars

\* _unregister_context.
DeleteView(v) ==
    /\ m_contexts' = [w \in DOMAIN m_contexts \ {v} |-> m_contexts[w]]
    /\ UNCHANGED tableVars

\* _update_contexts_from_state for the first update, else notify_contexts. A
\* batch whose step_end throws half-way is left out.
NotifyViews(p) ==
    IF m_input_ports[p] = <<>> THEN UNCHANGED m_contexts
    ELSE IF FirstUpdate
    THEN m_contexts' = EachView(LAMBDA w : Load(ResetView(w), Contents'))
    ELSE /\ \A v \in DOMAIN m_contexts :
              CountsItsRows(m_contexts[v], AppliedBatch(p), Contents)
         /\ m_contexts' = EachView(LAMBDA w : Notify(w, AppliedBatch(p), Contents, Contents'))

ResetViews == m_contexts' = EachView(ResetView)

----------------------------------------------------------------------------

ViewsInit == TableInit /\ m_contexts = <<>>

ViewsNext ==
    \/ \E v \in ViewIds, config \in Configs : MakeView(v, config)
    \/ \E v \in DOMAIN m_contexts : DeleteView(v)
    \/ Emptying /\ ResetViews
    \/ ProcessNext /\ \A p \in task \ task' : NotifyViews(p)
    \/ (Sending \/ StartRun) /\ UNCHANGED m_contexts

ViewsSpec == ViewsInit /\ [][ViewsNext]_viewsVars

----------------------------------------------------------------------------

ViewsTypeOK ==
    /\ TableTypeOK
    /\ DOMAIN m_contexts \subseteq ViewIds
    /\ \A v \in DOMAIN m_contexts :
         m_contexts[v].index \in Seq([pkey : Keys, row : Seq(Vals \cup {Null})])

(* A View is live: after every batch and every reset, its rows are exactly *)
(* those of the Table that pass its filters, once each, in the order of    *)
(* its sort, though each batch only moves the rows it touches              *)
(* (t_ctx0::notify, t_ftrav::step_end).                                    *)
ViewIsQuery ==
    \A v \in DOMAIN m_contexts :
       m_contexts[v].index = QueryResult(m_contexts[v], Contents)

(* The place that pkeyidx gives a key is the place of its row: the next    *)
(* delete or update of the key, and get_row_idx, go there.                 *)
PlacesAreTrue ==
    \A v \in DOMAIN m_contexts :
       LET index == m_contexts[v].index  pkeyidx == m_contexts[v].pkeyidx
       IN  /\ \A i \in DOMAIN index : index[i].pkey \in DOMAIN pkeyidx
                                        /\ pkeyidx[index[i].pkey] = i
           /\ DOMAIN pkeyidx = {index[i].pkey : i \in DOMAIN index}
============================================================================
