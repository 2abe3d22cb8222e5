CONSTANTS
  None = None
  r1 = r1
  r2 = r2
  u1 = u1
  Requests <- TwoRequests
  Users <- OneUser
  ServiceOrder <- UserPanchang
  Required = {"user"}
  DateKeyed = {"panchang"}
  DayLength = 1
  Callers <- AllCalls
  Keys <- AllKeys
  Ttl <- OneTick
  Retries <- NoRetry
  ServeStale <- AllStale
  Faults = {"http404"}
  AdminEnabled = TRUE
  MaxTime = 1
  MaxCancels = 2
SPECIFICATION FairAggSpec
INVARIANTS AggTypeOK BundleStaleTruthful
PROPERTIES FailuresContained RequestsAnswered
