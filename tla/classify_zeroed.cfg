CONSTANTS
  None = None
  General = "general"
  Unspecified = "unspecified"
  MaxTokens = 3
  Intents <- FiveIntents
  IntentOrder <- Alphabetical
  Inflections <- WordsWith
  StemLength <- StemSizes
  Questions <- ShortQuestions
  TimePatterns <- Horizons
  GateKeys <- Markers
  MinSignals = 1
  Terms <- TermEntries
  Phrases <- PhraseEntries
  Cues <- Negations
  MinEvidence = 8
  Dominance = 65
  NegationWindow = 2
  NegationDiscount = 0
SPECIFICATION ClsSpec
INVARIANTS ClassifyReturns
CHECK_DEADLOCK FALSE
