CONSTANTS
  None = None
  Items <- ShippedItems
  ItemOrder <- AlphabeticalItems
  TokenCost <- ShippedCost
  ServiceOf <- ShippedService
  Budget = 600
  Intents <- AllIntents
  Scopes <- AllScopes
  Primary <- ShippedPrimary
  Secondary <- ShippedSecondary
  Exclude <- ShippedExclude
  PrimaryWeight = 10
  SecondaryWeight = 5
  Modifier <- ShippedModifier
  ModifierCap = 500
  SubscriptionCap <- ShippedSubscriptions
  IntentCap <- ShippedIntentCap
  WordsPerItem = 45
  Floor = 60
  DefaultTone = "neutral"
  AllowedTones <- ShippedAllowed
  FallbackTone <- ShippedFallback
  ClauseWords <- ShippedClause
  HorizonWords <- ShippedHorizon
  NoContext = NoContext
  Classifications <- SingleVerdicts
  Profiles <- OneProfile
  Gaps <- NoGap
SPECIFICATION PipelineSpec
CHECK_DEADLOCK FALSE
INVARIANTS NoModelWithoutServices
