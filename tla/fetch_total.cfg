CONSTANTS
  None = None
  c1 = c1
  c2 = c2
  c3 = c3
  k1 = k1
  Callers <- TwoCallers
  Keys <- OneKey
  Ttl <- OneTick
  Retries <- OneRetry
  ServeStale <- AllStale
  Faults = {"transport"}
  AdminEnabled = TRUE
  MaxTime = 2
  MaxCancels = 1
SPECIFICATION Spec
PROPERTIES FetchReturns
