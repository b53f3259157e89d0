CONSTANTS
    Peer = {p1, p2}
    Listen = listen
    Asker = {a1}
    Email = {e1}
    TooLong = {}
    Password = {good}
    ShortPassword = {}
    NoRequest = norequest
    NoAnswer = noanswer
    PeerFaults = {"close", "reset", "abort"}
    DatabaseFaults = FALSE
    Kinds = {"register", "login"}
    MaxCoalesce = 2
    MaxPackets = 2
    MaxBacklog = 1
    MaxCrashes = 0
SPECIFICATION FairSpec
INVARIANTS
    AuthNeverBlocks
PROPERTIES
    RequestsAreAnswered
