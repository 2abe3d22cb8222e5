CONSTANTS
  None = None
  r1 = r1
  r2 = r2
  u1 = u1
  Requests <- OneRequest
  Users <- OneUser
  ServiceOrder <- UserPanchang
  Required = {"user"}
  DateKeyed = {"panchang"}
  DayLength = 2
  Callers <- AllCalls
  Keys <- AllKeys
  Ttl <- OneTick
  Retries <- NoRetry
  ServeStale <- AllStale
  Faults = {"http404"}
  AdminEnabled = FALSE
  MaxTime = 2
  MaxCancels = 0
SPECIFICATION AggSpec
PROPERTIES UnknownUserIs404
