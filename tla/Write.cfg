SPECIFICATION FairSpec

CONSTANTS
  Turns = {a, b}
  Threads = {x, y}
  NoTurn = NoTurn
  Clients = {"native", "legacy"}

INVARIANT AuthorityIsSafe

PROPERTIES
  ImplementsAuthorityLedger
  DisposalHappens
