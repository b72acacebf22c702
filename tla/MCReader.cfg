SPECIFICATION RSpec
CONSTANTS
    NItems = 2
    Direction = "ltr"
    PageSpread <- MCPageSpread
    MaxViews = 2
    MaxColumns = 3
    Sizes = {1, 2}
    ColumnsOf <- MCColumnsOf
    MaxCalls = 4
INVARIANTS
    TypeOK
    DeferredIsServed
    DeferredIsSighted
    HiddenIsShownAgain
    FramesOK
    SettledShowsItem
    SettledIsCoherent
    RequestIsHonoured
PROPERTIES
    LostOnlyBlind
    PresentsOnlyWanted
    OnlyCallsAsk
    WorkRunsOut
    TurnThrowsOnlyInLaterView
CHECK_DEADLOCK FALSE
