SPECIFICATION FairSpec

CONSTANTS
  Requests = {r1, r2}
  l1 = l1
  l2 = l2
  Leases = {l1, l2}
  NoLease = NoLease
  NoRequest = NoRequest
  Workload <- TwoClients
  TabReports = {TRUE}
  MaxEvents = 1

INVARIANT LaneIsAccountable

PROPERTIES
  ImplementsAuthorityLane
  LaneNeverLeaks
  EveryRequestAnswered
