SPECIFICATION FairSpec
CONSTANTS
  a1 = a1
  a2 = a2
  p1 = p1
  p2 = p2
  Actors = {a1, a2}
  Processes = {p1, p2}
  ProcessOf <- MCProcessOf
  Starts <- MCStarts
  Plans <- MCPlans
  NoActor = NoActor
  Shrinks = FALSE
  MaxSessions = 3
  MaxCrashes = 1
INVARIANTS ProfileIsExclusive SavedSession
PROPERTIES SessionSurvives EveryCallEnds
CHECK_DEADLOCK FALSE
