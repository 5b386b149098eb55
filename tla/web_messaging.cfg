SPECIFICATION Spec
CONSTANTS
  r1 = r1
  r2 = r2
  u1 = u1
  u2 = u2
  Request = {r1, r2}
  Call = {r1, r2}
  User = {u1, u2}
  Visited <- kinds
  MaxVersion = 3
  MaxTold = 3
CONSTRAINT Few
SYMMETRY Symmetric
INVARIANTS
  TypeOK
  OwnWriteIsShown
  SilentLoading
  TwiceNeedsFailure
  AnsweredMeansTold
CHECK_DEADLOCK FALSE
