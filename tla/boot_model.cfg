CONSTANTS
  None = None
  Unreadable = Unreadable
  General = "general"
  Intents <- ThreeIntents
  Inflections <- Beginnings
  StemLength <- BeginningSizes
  Tokens <- Tokenized
  KnownItems <- FourItems
  CLIENT_TYPES <- Upstreams
  DefaultPolicy <- UnsetPolicy
  PrimaryWeight = 10
  SecondaryWeight = 5
  Processes <- EveryStart
SPECIFICATION BootSpec
INVARIANTS ModelKillsNoBoot
CHECK_DEADLOCK FALSE
