------------------------------ MODULE MCServer ------------------------------
(* A ProtoServer on small instances: two sessions, and what they ask.      *)
EXTENDS ServerHistory, TLC

CONSTANTS c1, c2, a, b, c, j1, j2

NoJoins == <<>>
OneJoin == (j1 :> [left |-> a, right |-> b])
ChainedJoins == (j1 :> [left |-> a, right |-> b]) @@ (j2 :> [left |-> j1, right |-> c])

Both(requests) == {c1, c2} \X requests
TableRequests == {"make_table", "update", "replace", "table_on_delete"}
ViewRequests == {"make_view", "on_update", "on_delete"}

\* Two sessions, of which one deletes; nobody leaves.
LivingSessions == Both(TableRequests \cup ViewRequests \cup {"read", "delete_view"})
                    \cup {<<c1, "lazy_delete">>, <<c1, "delete">>}
\* Sources that change under joins nobody deletes while they have Views.
JoiningSessions == {c1} \X {"make_table", "make_join", "update", "replace", "delete",
                            "make_view", "delete_view"}

\* What one session may ask of Tables, joins and Views, short of subscribing,
\* before it leaves.
Unsubscribed == {c1} \X {"make_table", "make_join", "make_view", "update", "failing_read",
                         "delete", "lazy_delete", "delete_view", "close"}

ReadingJoins == {c1} \X {"make_table", "make_join", "update", "read"}
DeletingJoins == {c1} \X {"make_table", "make_join", "update", "delete", "lazy_delete",
                          "make_view", "delete_view"}
TwoDeleters == Both({"make_table", "make_view", "delete_view", "lazy_delete"})
FailingReads == {c1} \X {"make_table", "make_view", "on_update", "update", "failing_read"}
DeletersLeave == {c1} \X {"make_table", "make_view", "lazy_delete", "close"}
WatchersOfViews == Both({"make_table", "make_view", "on_delete"}) \cup {<<c1, "close">>}
OthersViews == Both({"make_table", "make_view", "delete_view", "close"})
LostPolls == {c1} \X {"make_table", "make_join", "make_view", "update", "on_update", "delete"}
============================================================================
