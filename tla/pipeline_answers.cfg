CONSTANTS
  None = None
  Items <- ShippedItems
  ItemOrder <- AlphabeticalItems
  TokenCost <- ShippedCost
  ServiceOf <- ShippedService
  Budget = 40
  Intents <- AllIntents
  Scopes <- AllScopes
  Primary <- ShippedPrimary
  Secondary <- ShippedSecondary
  Exclude <- ShippedExclude
  PrimaryWeight = 10
  SecondaryWeight = 5
  Modifier <- ShippedModifier
  ModifierCap = 500
  SubscriptionCap <- ShippedSubscriptions
  IntentCap <- ShippedIntentCap
  WordsPerItem = 15
  Floor = 50
  DefaultTone = "neutral"
  AllowedTones <- MeetingAllowed
  FallbackTone <- MeetingFallback
  ClauseWords <- ShippedClause
  HorizonWords <- ShippedHorizon
  NoContext = NoContext
  Classifications <- EveryVerdict
  Profiles <- AllProfiles
  Gaps <- SomeGaps
SPECIFICATION FairPipelineSpec
CHECK_DEADLOCK FALSE
INVARIANTS PipelineTypeOK SourcesLegitimate HighConfidenceEarned
  EveryIntentVetoesTone LengthWithinSubscription
  StatusTellsWhatFailed MockToldWhole BestContextFirst
  BudgetSpentWell OnlyCheaperOvertakes GreedyByRank
PROPERTIES RequestEnds RunsResolve
