CONSTANTS
  None = None
  c1 = c1
  c2 = c2
  c3 = c3
  k1 = k1
  Callers <- ThreeCallers
  Keys <- OneKey
  Ttl <- OneTick
  Retries <- OneRetry
  ServeStale <- AllStale
  Faults = {"transport", "malformed"}
  AdminEnabled = TRUE
  MaxTime = 1
  MaxCancels = 2
SPECIFICATION FairSpec
INVARIANTS TypeOK SingleFlight NoOrphan StaleFlagTruthful
PROPERTIES Retention FetchEnds DegradedNotBroken KeepsContract
