SPECIFICATION FairSpec

CONSTANTS
  Sends = {a, b}
  Warmups = {w}
  NoActor = NoActor
  NoBundle = NoBundle
  MaxBundles = 3
  Fenced = TRUE

INVARIANTS
  NoReplay
  PartialIsNeverFinal

PROPERTIES
  ImplementsSentinelSlot
  EverySendReturns
