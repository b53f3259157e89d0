CONSTANTS
    Peer = {p1}
    Listen = listen
    Asker = {a1}
    Email = {e1, e2, e3}
    TooLong = {e3}
    Password = {good, other, short}
    ShortPassword = {short}
    NoRequest = norequest
    NoAnswer = noanswer
    PeerFaults = {}
    DatabaseFaults = TRUE
    Kinds = {"register", "login"}
    MaxCoalesce = 1
    MaxPackets = 1
    MaxBacklog = 1
    MaxCrashes = 2
SPECIFICATION Spec
INVARIANTS
    AuthTypeOK
    AccountsHaveUsers
    AccountsAreDistinct
    OrphansAreCrashes
PROPERTIES
    ImplementsStore
