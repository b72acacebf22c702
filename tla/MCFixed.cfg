SPECIFICATION FairSpec
CONSTANTS
    NItems = 6
    Direction = "rtl"
    PageSpread <- Mixed
    SizeOf <- Sizes
    MaxCalls = 5
INVARIANTS
    TypeOK
    RestIsReported
    RestIsScaled
    RestKeepsSize
    TurnsComeBack
PROPERTIES
    OpenedIsShown
    SettingsKeepPlace
    OnlyAbandonedThrow
    EventuallyReported
CHECK_DEADLOCK FALSE
