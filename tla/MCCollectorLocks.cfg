SPECIFICATION FairSpec
CONSTANTS
  w1 = w1
  w2 = w2
  Workers = {w1, w2}
  l1 = l1
  l2 = l2
  Listings = {l1, l2}
  s1 = s1
  s2 = s2
  Scopes = {s1, s2}
  r1 = r1
  r2 = r2
  r3 = r3
  Runs = {r1, r2}
  RunScope <- TwoScopes
  Feeds <- CrossingFeeds
  Malformed = Malformed
  Live = FALSE
  None = None
  Earlier <- UnknownOrMissed
  FinalAfter = 2
PROPERTIES RunsEnd
CHECK_DEADLOCK FALSE
