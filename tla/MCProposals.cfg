SPECIFICATION Spec
CONSTANTS
  Users = {u1, u2}
  Contents = {c1, c2}
  run1 = run1
  run2 = run2
  run3 = run3
  version1 = version1
  version2 = version2
  Runs = {run1, run2, run3}
  Versions = {version1, version2}
  VersionOf <- MCVersionOf
  SuspensionMs = 2
  CardExpiryMs = 3
  MaxProposals = 3
  Scenes <- MCScenes
SYMMETRY Symmetric
INVARIANTS
  TypeOK
  CardsAddUp
  DecisionStands
  NobodyForgotten
  UnreadTillShown
CHECK_DEADLOCK FALSE
