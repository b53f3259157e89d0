CONSTANTS
    Char = {"!", " "}
    Space = " "
    Bang = "!"
    LeaveWord <- Word
    BufSize = 2
    Sizes = {1, 2, 3, 5}
    ServerFaults = {"close", "reset"}
    WireAtStart = {"open", "unconnected"}
    MaxSaid = 2
    MaxInputs = 4
SPECIFICATION FairSpec
INVARIANTS
    ClientTypeOK
    ShownOnceInOrder
    OnlyLossesAreIncomplete
    OnlyDisorderStops
    LinesArriveAsTyped
PROPERTIES
    KeysAreHeard
