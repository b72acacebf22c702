SPECIFICATION Spec
CONSTANTS
    NItems = 3
    Direction = "ltr"
    PageSpread <- Cover
    SizeOf <- Sizes
    MaxCalls = 3
INVARIANT
    AlwaysReported
CHECK_DEADLOCK FALSE
