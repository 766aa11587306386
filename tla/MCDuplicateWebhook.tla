------------------------- MODULE MCDuplicateWebhook -------------------------
(* Small instances of DuplicateWebhook for TLC. *)
EXTENDS DuplicateWebhook

CONSTANTS n1, n2, n3, g1, g2, r1, c1, c2, p1, q1, ns1, ns2

\* n3 is in a namespace of its own; or n2 and n3 are ClusterRBACGroupBindings.
Namespaced == [n \in Names |-> IF n = n3 THEN ns2 ELSE ns1]
Clustered  == [n \in Names |-> IF n = n1 THEN ns1 ELSE Cluster]
Both == {Namespaced, Clustered}
One  == {Namespaced}

Moves(request, delete, fault, health) ==
  [request |-> request, delete |-> delete, fault |-> fault, health |-> health]

\*             request delete fault health
Admissions == { Moves(3,     0,   0,    0),    \* three admissions interleaved
                Moves(2,     2,   0,    0),    \* deletions
                Moves(1,     1,   1,    2) }   \* outages, deleted providers
Blocked    == { Moves(2,     1,   0,    0) }

=============================================================================
