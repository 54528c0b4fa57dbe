SPECIFICATION Spec
CONSTANTS
  w1 = w1
  w2 = w2
  Workers = {w1, w2}
  l1 = l1
  l2 = l2
  Listings = {l1}
  s1 = s1
  s2 = s2
  Scopes = {s1, s2}
  r1 = r1
  r2 = r2
  r3 = r3
  Runs = {r1, r2, r3}
  RunScope <- TwoScopes
  Feeds <- ShortFeeds
  Malformed = Malformed
  Live = TRUE
  None = None
  Earlier <- AllRows
  FinalAfter = 2
SYMMETRY Symmetry
INVARIANTS GoneIsInactive
CHECK_DEADLOCK FALSE
