CONSTANTS
  Programs <- FittingPrograms
SPECIFICATION Spec
CHECK_DEADLOCK FALSE
INVARIANT SpecDebugLayout
