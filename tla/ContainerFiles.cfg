SPECIFICATION Spec
CONSTANTS
    Names <- MCNames
    Books <- MCBooks
    BasePath <- MCBasePath
    Archive <- MCArchive
    Spine <- MCSpine
    References <- MCReferences
    Mangled <- MCMangled
    Links <- MCLinks
    MaxCalls = 3
INVARIANT
    ContainerFilesAreFound
CHECK_DEADLOCK FALSE
