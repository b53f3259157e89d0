CONSTANTS
    AuthLink = link
    Socket = {link, c1}
    Room = {r1}
    Name = {ann}
    NoName = none
    Listen = listen
    NoRoom = noroom
    Nobody = nobody
    Email = {e1}
    Password = {good, other}
    EmptyEmail = e1
    EmptyPassword = other
    ClientFaults = {"reset"}
    LinkFaults = {"reset"}
    LinkAtStart = {"open"}
    Commands = {"account", "reply"}
    ClientReplies = {"loggedIn"}
    RepliesAbout = {c1, nobody}
    FdSetSize = 64
    MaxCoalesce = 2
    MaxPackets = 1
    MaxBacklog = 1
    MaxRequests = 2
    TooLong = {}
    ShortPassword = {other}
    NoRequest = norequest
    NoAnswer = noanswer
    DatabaseFaults = TRUE
    MaxCrashes = 1
SPECIFICATION FairSystem
INVARIANTS
    AuthorisedHaveAccounts
    GoodNewsIsTrue
PROPERTIES
    ImplementsChatServer
    LoginIsAnsweredInTheEnd
