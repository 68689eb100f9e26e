SPECIFICATION FairSpec
CONSTANTS
  c1 = c1  c2 = c2  h1 = h1  h2 = h2  h3 = h3
  Calls = {c1, c2}
  Handlers = {h1, h2}
  MaxToken = 2
  Disturb = {"logout"}
  None = None
CHECK_DEADLOCK FALSE
PROPERTIES
  CallEnds
