CONSTANTS
  Programs <- WidePrograms
SPECIFICATION Spec
CHECK_DEADLOCK FALSE
INVARIANT AllInstructionsRoundTrip
