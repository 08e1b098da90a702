SPECIFICATION Spec
CONSTANTS
  MaxRequests = 2
  Fields = 1
  Logics = 2
CHECK_DEADLOCK FALSE
PROPERTIES
  DeletedLogicNotFound
