SPECIFICATION Spec
CONSTANTS
  DriverLists <- MCDriverLists
  DeviceLists <- MCDeviceLists
INVARIANTS
  ListsExactlyTheBoundDrivers
  ErrorsComeFromFailedQueries
CHECK_DEADLOCK FALSE
