\* All the live gates, with at most two disturbances.
SPECIFICATION GateSpec
CONSTANTS
  Gates <- MCGates
  Retained <- MCRetained
  MaxFaults = 2
INVARIANTS
  ContractIsExact
  PassIsProven
  NoWriteAfterDoubt
