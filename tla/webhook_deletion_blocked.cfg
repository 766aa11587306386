SPECIFICATION FairSpec
CONSTANTS
  None = None
  n1 = n1
  n2 = n2
  n3 = n3
  g1 = g1
  g2 = g2
  r1 = r1
  c1 = c1
  c2 = c2
  p1 = p1
  q1 = q1
  Cluster = Cluster
  Providers = {q1}
  ns1 = ns1
  ns2 = ns2
  Names = {n1, n2}
  Scopes <- One
  Groups = {g1}
  Roles = {r1}
  Clients = {c1, c2}
  Replicas = {p1}
  Budgets <- Blocked
PROPERTIES
  DeletionUnblocked
\* Once all requests are answered nothing is left to do.
CHECK_DEADLOCK FALSE
