SPECIFICATION Spec
CONSTANTS
  c1 = c1  c2 = c2  h1 = h1  h2 = h2  h3 = h3
  Calls = {c1, c2}
  Handlers = {h1, h2}
  MaxToken = 3
  Disturb = {"logout"}
  None = None
SYMMETRY Symm
CHECK_DEADLOCK FALSE
INVARIANTS
  LogoutClearsTokens
