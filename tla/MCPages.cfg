SPECIFICATION Spec
CONSTANTS
  Operations = {o1, o2}
  Nothing = Nothing
  MaxKeys = 3
INVARIANT OneKeyPerOperation
CHECK_DEADLOCK FALSE
