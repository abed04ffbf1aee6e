SPECIFICATION SweepSpec
CONSTANTS
  Surveys <- MixedSurveys
INVARIANT
  EveryFrequencyIsSwept
