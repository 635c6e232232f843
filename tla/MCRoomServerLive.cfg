SPECIFICATION FairSpec
CONSTANTS
  Users = {u1, u2}
  Ais = {a1, a2}
  NoUser = NoUser
  Modes = {"community"}
  SeatCount = 2
  GamesPerSet = 2
  MaxRequests = 1
  MiniTicks = 0
  MiniGameEndsGame = FALSE
  TurnLimit = 1
  DisconnectedLimit = 1
  InterimTime = 1
  RespondTime = 1
  LobbyTtl = 1
  LobbyGrace = 1
  AbandonTime = 1
  MaxTurnSeq = 1
  MaxSets = 2
  MaxRank = 2
  AiDelay = 1
  MiniDelay = 1
  Senders = {}
  SlowThought = FALSE
  MaxFlaps = 1
PROPERTIES
  ResultEnds
  DesertedRoomEnds
  LobbyEnds
  PauseEnds
  GameGoesOn
CHECK_DEADLOCK FALSE
