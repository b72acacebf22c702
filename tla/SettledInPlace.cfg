SPECIFICATION Spec
CONSTANTS
    NItems = 2
    Direction = "ltr"
    PageSpread <- MCPageSpread
    MaxViews = 1
    MaxColumns = 3
    Sizes = {1, 2}
    ColumnsOf <- MCColumnsOf
    MaxCalls = 3
INVARIANT
    SettledInPlace
CHECK_DEADLOCK FALSE
