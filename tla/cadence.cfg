SPECIFICATION FairSpec
CONSTANTS
  None = None
  n1 = n1
  n2 = n2
  n3 = n3
  p1 = p1
  s1 = s1
  s2 = s2
  r1 = r1
  r2 = r2
  m1 = m1
  m2 = m2
  Names = {n1, n2}
  Providers = {p1}
  Secrets = {s1, s2}
  Roles = {r1, r2}
  Memberships = {m1, m2}
  Texts = {"refused"}
  TicksPerSecond = 3
  Interval = 8
  Retry = 4
  Latencies = {0}
  Rate = 1
  Burst = 1
  Slack = 7
  Scenarios <- Cadence
INVARIANTS
  TypeOK
  FreshAtRest
  BoundedStaleness
PROPERTIES
  Settles
  Refreshed
