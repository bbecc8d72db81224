CONSTANTS
  nightjar = nightjar
  poorwill = poorwill
  IgnoredOps <- MCIgnoredOps
  Programs <- MCPrograms
  SymbolTables <- MCSymbolTables
  PropertyTables <- MCPropertyTables
SPECIFICATION Spec
\* match_bind returns: a behaviour ends once outcome is set.
CHECK_DEADLOCK FALSE
INVARIANT TypeOK
INVARIANT CursorOnInstructionBoundary
PROPERTY MatchSpecRefined
