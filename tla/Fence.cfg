SPECIFICATION FairSpec

CONSTANTS
  Threads = {t, u}
  Clients = {a, b}
  NoThread = NoThread
  MaxCalls = 1

INVARIANTS
  ConversationIsLinear
  NoHoldAndWait

PROPERTIES
  EveryCallReturns
