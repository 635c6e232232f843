CONSTANTS
  N = 3
  Cards = {c1, c2, c3, c4}
  FirstCard = c1
  Rules = 0
  TurnLimit = 6
  FieldMayVanish = TRUE
  AsksOn = FALSE
  MaxSkip = 2
  MaxAsked = 2
  MaxEffects = 2
SYMMETRY Symmetry
SPECIFICATION Spec
INVARIANT
  TurnIsInTheGame
