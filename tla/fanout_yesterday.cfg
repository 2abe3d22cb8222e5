CONSTANTS
  None = None
  r1 = r1
  r2 = r2
  u1 = u1
  Requests <- OneRequest
  Users <- OneUser
  ServiceOrder <- UserPanchang
  Required = {"user"}
  DateKeyed = {"panchang"}
  DayLength = 1
  Callers <- AllCalls
  Keys <- AllKeys
  Ttl <- OneTick
  Retries <- NoRetry
  ServeStale <- AllStale
  Faults = {"transport"}
  AdminEnabled = FALSE
  MaxTime = 1
  MaxCancels = 0
SPECIFICATION AggSpec
INVARIANTS YesterdayInsteadOfNothing
