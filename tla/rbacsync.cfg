SPECIFICATION Spec
CONSTANTS
  Usernames = {1, 2}
  PreviewCap = 1
  MaxInt32 = 2
  MaxLen = 3
INVARIANTS
  SubjectsEqualIsBagEquality
  ReconcileIsIdempotent
  SummaryIsHonest
