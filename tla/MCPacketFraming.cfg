CONSTANTS
    BufSize = 24
    Message <- Texts
    KnownTypes = {1, 2}
    NoText = notext
    MaxAlloc = 1000
    Cuts = {9}
    MaxSent = 3
SPECIFICATION FairSpec
INVARIANTS
    FramingTypeOK
    RestIsThere
PROPERTIES
    ImplementsQueue
    PacketsAreRead
