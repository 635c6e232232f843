CONSTANTS
  N = 3
  Cards = {c1, c2, c3, c4}
  FirstCard = c1
  Rules = 2
  TurnLimit = 6
  FieldMayVanish = FALSE
  AsksOn = TRUE
  MaxSkip = 2
  MaxAsked = 2
  MaxEffects = 1
SYMMETRY Symmetry
SPECIFICATION Spec
INVARIANT
  AnswersAreTaken
