SPECIFICATION Spec
CONSTANTS
  Users = {u1, u2, u3}
  Ais = {a1, a2}
  NoUser = NoUser
  Modes = {"basic", "community"}
  SeatCount = 2
  GamesPerSet = 2
  MaxRequests = 2
  MiniTicks = 1
  MiniGameEndsGame = FALSE
  TurnLimit = 2
  DisconnectedLimit = 1
  InterimTime = 1
  RespondTime = 1
  LobbyTtl = 2
  LobbyGrace = 1
  AbandonTime = 1
  MaxTurnSeq = 2
  MaxSets = 2
  MaxRank = 3
SYMMETRY MCSymmetry
INVARIANTS
  TypeOK
  TableIsFull
  OneHostInLobby
  OneSeatPerUser
  AbandonClockRuns
  PhaseFollowsSet
  HumanIsOnTheClock
  AiHoldsSeatOfAbsent
PROPERTIES
  SeatIsKept
  NextSetNeedsConsent
CHECK_DEADLOCK FALSE
