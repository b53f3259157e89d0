CONSTANTS
    BufSize = 512
    Message <- Greetings
    KnownTypes = {1}
    NoText = notext
    MaxAlloc = 1000000000
    Cuts = {}
    MaxSent = 1
SPECIFICATION Spec
INVARIANT HandledIsEntire
