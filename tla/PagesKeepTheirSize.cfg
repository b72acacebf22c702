SPECIFICATION Spec
CONSTANTS
    NItems = 5
    Direction = "ltr"
    PageSpread <- Cover
    SizeOf <- Sizes
    MaxCalls = 2
INVARIANT
    PagesKeepTheirSize
CHECK_DEADLOCK FALSE
