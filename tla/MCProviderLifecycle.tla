------------------------ MODULE MCProviderLifecycle ------------------------
(* Small instances of ProviderLifecycle for TLC. *)
EXTENDS ProviderLifecycle

CONSTANTS d1, d2

Moves(edit, refer, health, fault, crash, tick) ==
  [edit |-> edit, refer |-> refer, health |-> health, fault |-> fault,
   crash |-> crash, tick |-> tick]

\*                  edit refer health fault crash tick
Lifecycle ==
  { Moves(3,    1,    0,     1,    0,    0),  \* deleted and created again
    Moves(2,    0,    2,     1,    0,    1),  \* outages and recovery
    Moves(2,    0,    1,     1,    1,    0),  \* an outage and a restart
    Moves(2,    2,    0,     0,    1,    0) } \* in use, then no longer
Orphan ==
  { Moves(2,    1,    0,     0,    0,    0) }

=============================================================================
