SPECIFICATION FairSpec
CONSTANTS
  None = None
  d1 = d1
  d2 = d2
  Dependents = {d1, d2}
  ClusterKinds = {d2}
  SyncInterval = 1
  Outages = {"down", "hung"}
  Budgets <- Lifecycle
INVARIANTS
  TypeOK
  StatusImpliesProtected
  SteadyDependentsProtect
  LimiterReleased
PROPERTIES
  HealthConverges
  DeletionCompletes
\* Without a provider, its moves used up, the system is really at rest.
CHECK_DEADLOCK FALSE
