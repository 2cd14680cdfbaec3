SPECIFICATION SpecClient
CONSTANTS
  MaxSteps = 3
  LongHalf = 3
  IntHalf = 2
  Answers <- ServerAnswers
  InitialTotals <- MixedTotals
  Keys <- KnownKeys
  Filters <- AllOrKnown
INVARIANTS TypeOK LoopComplete AbortedOnlyLate ValuesKeepForm
PROPERTIES CallEnds
