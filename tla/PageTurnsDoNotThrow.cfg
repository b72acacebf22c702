SPECIFICATION Spec
CONSTANTS
    NItems = 2
    Direction = "ltr"
    PageSpread <- MCPageSpread
    MaxViews = 2
    MaxColumns = 3
    Sizes = {1, 2}
    ColumnsOf <- MCColumnsOf
    MaxCalls = 3
PROPERTY
    PageTurnsDoNotThrow
CHECK_DEADLOCK FALSE
