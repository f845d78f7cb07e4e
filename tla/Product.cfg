SPECIFICATION FairSpec
CONSTANTS
  MaxCalls = 3
  MaxTabs = 3
  MaxRestarts = 1
  MaxTouches = 1
  Transports <- MCTransports
  Plans <- MCPlans
INVARIANTS TemporaryIsTemporary DeliveredExactly
PROPERTIES EndedIsFinal EveryCallEnds
CHECK_DEADLOCK FALSE
