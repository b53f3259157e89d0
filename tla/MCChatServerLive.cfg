CONSTANTS
    AuthLink = link
    Socket = {link, c1, c2}
    Room = {r1}
    Name = {ann}
    NoName = none
    Listen = listen
    NoRoom = noroom
    Nobody = nobody
    Email = {e1}
    Password = {good}
    EmptyEmail = e1
    EmptyPassword = good
    ClientFaults = {"close"}
    LinkFaults = {}
    LinkAtStart = {"open"}
    Commands = {"join", "account"}
    ClientReplies = {}
    RepliesAbout = {}
    FdSetSize = 64
    MaxCoalesce = 1
    MaxPackets = 1
    MaxBacklog = 1
    MaxRequests = 1
SPECIFICATION FairSpec
PROPERTIES
    EveryoneIsServed
    CallersAreAccepted
