SPECIFICATION FitSpec
CONSTANTS
  None = None
  Separator = Separator
  Requests <- AllRequests
  Widths = {1, 2, 3, 4}
  MaxFits = 2
INVARIANTS
  StableRangeIsExact
  ChosenSettingsReplay
  NoGraphSolvedTwice
  AnswerIsValidAndNarrowest
CHECK_DEADLOCK FALSE
