CONSTANTS
  Zx = Zx
  Ns = Ns
  Ddk = Ddk
  Color = Color
  Point = Point
  Proto = Proto
  Status = Status
  Alias = Alias
  Bad = Bad
  V1 = V1
  V2 = V2
  Len0 = Len0
  Count = Count
  BaseIds = {Status}
  IdType <- MCIdType
  ASTs <- MCASTs
  WriterMayFail = TRUE
SPECIFICATION Spec
CHECK_DEADLOCK FALSE
PROPERTY CodegenRefinesGenerator
