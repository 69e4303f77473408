\* Three pods, so that one can lose its lease, a second hold it and a third join.
SPECIFICATION LockSpec
CONSTANTS
  Pod = {p1, p2, p3}
  Ttl = 3
  AllowUnlocked = TRUE
  MaxTokens = 5
SYMMETRY Symmetry
INVARIANT LeaseSafe
