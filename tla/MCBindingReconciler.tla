------------------------ MODULE MCBindingReconciler ------------------------
(* Small instances of BindingReconciler for TLC. *)
EXTENDS BindingRefinement

CONSTANTS n1, g1, r1, r2, u1

OneMember == [g \in Groups |-> {u1}]

Moves(edit, drift, dir, fault, crash, stale, tick) ==
  [edit |-> edit, drift |-> drift, directory |-> dir, fault |-> fault,
   crash |-> crash, stale |-> stale, tick |-> tick]

\*              edit drift dir fault crash stale tick
Safety ==
  { Moves(2,   0,    0,  1,    1,    2,    0),  \* lost calls and restarts
    Moves(2,   1,    0,  0,    0,    1,    0),  \* foreign edits of two specs
    Moves(1,   1,    0,  1,    0,    1,    0),  \* foreign edits, lost calls
    Moves(2,   0,    1,  0,    0,    1,    0),  \* an outage at a roleRef edit
    Moves(1,   0,    2,  0,    0,    1,    0) } \* outages that end
Liveness ==
  { Moves(1,   1,    0,  0,    1,    1,    0),  \* drift and a restart
    Moves(1,   1,    1,  0,    0,    0,    0),  \* drift and an outage
    Moves(2,   0,    1,  0,    0,    1,    0),  \* an edit and an outage
    Moves(3,   0,    0,  1,    0,    0,    0),  \* delete and re-create
    Moves(2,   0,    0,  0,    0,    0,    2) } \* the clock advances
RoleEditFault ==
  { Moves(2,   0,    0,  1,    0,    0,    0) }
OneOutage ==
  { Moves(1,   0,    1,  0,    0,    0,    0) }

=============================================================================
