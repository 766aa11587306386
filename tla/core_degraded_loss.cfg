SPECIFICATION Spec
CONSTANTS
  None = None
  n1 = n1
  g1 = g1
  r1 = r1
  r2 = r2
  u1 = u1
  Names = {n1}
  Groups = {g1}
  Roles = {r1, r2}
  Users = {u1}
  InitialGroups <- OneMember
  Outages = {"down"}
  SyncInterval = 1
  Budgets <- RoleEditFault
INVARIANTS
  FailSafe
\* A cluster without bindings, its moves used up, is really at rest.
CHECK_DEADLOCK FALSE
