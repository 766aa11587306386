--------------------------- MODULE MCSyncCadence ---------------------------
(* Small instances of SyncCadence for TLC. *)
EXTENDS SyncCadence

CONSTANTS n1, n2, n3, p1, s1, s2, r1, r2, m1, m2

\* The bindings of B exist and refer to p1, which reads s1 and s2.
Installed(B, installed) == [o \in Objects |->
  CASE o \in Names   -> IF o \in B THEN [gen |-> 1, ref |-> p1, role |-> r1] ELSE None
    [] o \in Providers -> IF installed
                            THEN [gen |-> 1, bind |-> s1, ca |-> s2, protected |-> TRUE]
                            ELSE None
    [] o \in Secrets -> "v1"
    [] o \in ClusterRoleBindings -> None]

Scenario(objects, roles, credentials, data, edit, rotate, dir, fault) ==
  [objects |-> objects, group |-> m1, roles |-> roles, credentials |-> credentials,
   data |-> data,
   moves |-> [edit |-> edit, rotate |-> rotate, directory |-> dir, fault |-> fault]]

\* Two bindings undisturbed; a rotation around an edit of the provider; a
\* rotation whose fan-out is lost; a new role with a failing call; a provider
\* that is created after its binding; a group or a directory that changes.
Cadence == {
  Scenario(Installed({n1, n2}, TRUE), {}, {}, {}, 0, 0, 0, 0),
  Scenario(Installed({n1}, TRUE), {}, {<<s2, s1>>}, {"v2"}, 1, 1, 0, 0),
  Scenario(Installed({n1}, TRUE), {}, {}, SecretData, 0, 1, 0, 1),
  Scenario(Installed({n1}, TRUE), {r2}, {}, {}, 1, 0, 0, 1),
  Scenario(Installed({n1}, FALSE), {}, {<<s1, None>>}, {}, 1, 0, 0, 1),
  Scenario(Installed({n1}, TRUE), {}, {}, {}, 0, 0, 2, 0) }
Flood == { Scenario(Installed({n1, n2, n3}, TRUE), {}, {}, {}, 0, 0, 0, 0) }

=============================================================================
