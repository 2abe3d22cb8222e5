CONSTANTS
  None = None
  General = "general"
  Unspecified = "unspecified"
  MaxTokens = 4
  Intents <- FiveIntents
  IntentOrder <- Alphabetical
  Inflections <- WordsWith
  StemLength <- StemSizes
  Questions <- ShortQuestions
  TimePatterns <- Horizons
  GateKeys <- Markers
  MinSignals = 1
  Terms <- TermEntries
  Phrases <- PhraseEntries
  Cues <- Negations
  MinEvidence = 8
  Dominance = 65
  NegationWindow = 2
  NegationDiscount = 3
SPECIFICATION FairClsSpec
INVARIANTS ClsTypeOK EvidenceCountedOnce LeftmostLongest EvidenceIsConfigured HorizonIsMostSpecific OnlyTopicIsAnswered VerdictEarned
PROPERTIES ClassifyDecides
CHECK_DEADLOCK FALSE
