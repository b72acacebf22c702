SPECIFICATION FairSpec
CONSTANTS
    Names <- MCNames
    Books <- MCBooks
    BasePath <- MCBasePath
    Archive <- MCArchive
    Spine <- MCSpine
    References <- MCReferences
    Mangled <- MCMangled
    Links <- MCLinks
    MaxCalls = 4
INVARIANTS
    TypeOK
    FrameShowsBook
    ReferencesAreFound
    LoadIsOnItsWay
PROPERTIES
    LinksLeadToItems
    EventLoopRunsDown
    EventuallyLoaded
CHECK_DEADLOCK FALSE
