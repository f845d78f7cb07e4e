SPECIFICATION TransportFairSpec

CONSTANTS
  Turns = {a, b}
  Threads = {x, y}
  NoTurn = NoTurn
  NoThread = NoThread
  Clients = {"native"}
  Reentrant = FALSE

INVARIANT TurnsAreIsolated

PROPERTIES
  ImplementsSubmissionSlot
  EveryCallReturns
