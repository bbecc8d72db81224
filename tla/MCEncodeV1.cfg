CONSTANTS
  Programs <- FittingPrograms
SPECIFICATION Spec
\* Both encoders return once the program is encoded.
CHECK_DEADLOCK FALSE
INVARIANT TypeOK
INVARIANT InstructionsRoundTrip
INVARIANT TextAgreesWithBytes
INVARIANT MatchesUnitTests
