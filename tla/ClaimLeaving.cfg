CONSTANTS
    AuthLink = link
    Socket = {link, c1}
    Room = {r1}
    Name = {ann}
    NoName = none
    Listen = listen
    NoRoom = noroom
    Nobody = nobody
    Email = {e1}
    Password = {good}
    EmptyEmail = e1
    EmptyPassword = good
    ClientFaults = {"reset"}
    LinkFaults = {}
    LinkAtStart = {"open"}
    Commands = {"chat", "join", "nick", "help", "account"}
    ClientReplies = {}
    RepliesAbout = {}
    FdSetSize = 64
    MaxCoalesce = 1
    MaxPackets = 1
    MaxBacklog = 1
    MaxRequests = 1
SPECIFICATION Spec
INVARIANT LeavingIsHarmless
