SPECIFICATION FairSpec
CONSTANTS
    NItems = 3
    Direction = "rtl"
    PageSpread <- MCPageSpread
    MaxViews = 2
    MaxColumns = 2
    Sizes = {1, 2}
    ColumnsOf <- MCColumnsOf
    MaxCalls = 3
PROPERTIES
    ShowsLastWanted
    EventuallySettled
CHECK_DEADLOCK FALSE
