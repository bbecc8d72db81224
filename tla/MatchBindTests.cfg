CONSTANTS
  nightjar = nightjar
  poorwill = poorwill
  nighthawk = nighthawk
  timberdoodle = timberdoodle
  tyrant = tyrant
  flycatcher = flycatcher
  rail = rail
  crake = crake
  IgnoredOps = {16}
  Programs <- TestPrograms
  SymbolTables <- TestSymbolTables
  PropertyTables <- TestPropertyTables
SPECIFICATION TestSpec
\* match_bind returns: a behaviour ends once outcome is set.
CHECK_DEADLOCK FALSE
INVARIANT MatchesUnitTests
PROPERTY MatchSpecRefined
