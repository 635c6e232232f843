CONSTANTS
  Players = {p1, p2, p3, p4}
  GamesPerSet = 3
SYMMETRY Symmetry
SPECIFICATION Spec
INVARIANT
  EqualPointsEqualRank
CHECK_DEADLOCK FALSE
