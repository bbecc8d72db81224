CONSTANTS
  Programs <- LongFilePrograms
SPECIFICATION Spec
\* Both encoders return once the program is encoded.
CHECK_DEADLOCK FALSE
INVARIANT DebugLineIsSourceLine
