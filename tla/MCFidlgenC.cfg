CONSTANTS
  Zx = Zx
  Ns = Ns
  Ddk = Ddk
  C1 = C1
  C2 = C2
  E1 = E1
  S1 = S1
  X = X
  M1 = M1
  M2 = M2
  IRs <- MCIRs
  WriterMayFail = TRUE
SPECIFICATION Spec
CHECK_DEADLOCK FALSE
INVARIANT GenErrorLeavesExactlyTheHeader
INVARIANT DeclaredIffDataPresent
PROPERTY CodegenRefinesGenerator
