SPECIFICATION ServerSpec
CONSTANTS
  Users = {u1, u2}
  Ais = {a1, a2}
  NoUser = NoUser
  Modes = {"community"}
  SeatCount = 2
  GamesPerSet = 2
  MaxRequests = 2
  MiniTicks = 0
  MiniGameEndsGame = FALSE
  TurnLimit = 1
  DisconnectedLimit = 1
  InterimTime = 1
  RespondTime = 1
  LobbyTtl = 2
  LobbyGrace = 1
  AbandonTime = 1
  MaxTurnSeq = 2
  MaxSets = 1
  MaxRank = 2
  AiDelay = 1
  MiniDelay = 1
  Senders = {u1}
  SlowThought = TRUE
  MaxFlaps = 1
SYMMETRY MCSymmetry
VIEW MCView
INVARIANTS
  ServerTypeOK
  ConnectedMeansOnline
  PhaseTimerFollowsRoom
  LifeTimerFollowsRoom
PROPERTIES
  AiYieldsToHuman
  MoveFitsPosition
CHECK_DEADLOCK FALSE
