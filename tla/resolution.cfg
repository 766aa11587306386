SPECIFICATION Spec
CONSTANTS
  a = a
  b = b
  c = c
  x = x
  y = y
  DNs = {a, b, c, x, y}
  Inside = {a, b, c, y}
  Foreign = {y}
  Named = {a, b, x, y}
  Directories <- All
INVARIANTS
  TypeOK
  CredentialsProtected
  UndisturbedCallExact
  NoPhantomMember
  SteadyMemberKept
\* The call has returned and nothing is left to do.
CHECK_DEADLOCK FALSE
