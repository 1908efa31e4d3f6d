SPECIFICATION Spec
CONSTANTS
  SymTy <- MCSymTy
  Start <- MCStart
INVARIANTS MeaningKept AnswersSound PrintParses SideRewritingsMean
PROPERTY DupsShrinks
CHECK_DEADLOCK FALSE
