SPECIFICATION FairSpec
CONSTANTS
  i1 = i1  s1 = s1  s2 = s2
  Items = {i1}
  Saves = {s1, s2}
  MaxEdits = 3
  MaxKey = 1
  None = None
CHECK_DEADLOCK FALSE
INVARIANTS
  TypeOK
  SuccessIsComplete
  RequestsOfTheScreen
  OneAdditionAtATime
PROPERTIES
  LossHasCause
  SpinnerStops
