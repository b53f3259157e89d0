CONSTANTS
    AuthLink = link
    Socket = {link, c1}
    Room = {r1, r2}
    Name = {ann}
    NoName = none
    Listen = listen
    NoRoom = noroom
    Nobody = nobody
    Email = {e1}
    Password = {good}
    EmptyEmail = e1
    EmptyPassword = good
    ClientFaults = {"close", "reset", "abort"}
    LinkFaults = {"close", "reset", "abort"}
    LinkAtStart = {"open", "absent"}
    Commands = {"chat", "join", "leave", "nick", "help", "unknown", "account", "reply"}
    ClientReplies = {"loggedIn"}
    RepliesAbout = {link, c1, nobody}
    FdSetSize = 64
    MaxCoalesce = 2
    MaxPackets = 2
    MaxBacklog = 1
    MaxRequests = 2
SPECIFICATION Spec
INVARIANTS
    NoInheritedLogin
    NeverBlocks
    OutageHasLivingCause
PROPERTIES
    RegistryContract
