SPECIFICATION Spec
CONSTANTS
  Memory <- ClearOrFull
  Values <- Patterns
  MaxCalls = 3
PROPERTIES
  StoreSpec
CHECK_DEADLOCK FALSE
