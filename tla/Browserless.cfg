SPECIFICATION FairSpec

CONSTANTS
  Turns = {t, u}
  Continuing = {t}
  Other = Other
  NoTurn = NoTurn
  NoId = NoId
  MaxOther = 1

INVARIANTS
  AnswerIsFinal
  BuilderIsRestored

PROPERTIES
  EveryTurnEnds
  KeepsContract
