----------------------------- MODULE ChatServer -----------------------------
(***************************************************************************)
(* The chat server's select() loop                                         *)
(* (TCPServerWithSelect/main_server_select.cpp): one thread that waits for *)
(* readable sockets, receives from each in the order of activeConnections, *)
(* handles one packet per socket, and accepts one new connection per pass. *)
(* The session state its handlers change is SessionRegistry's.             *)
(*                                                                         *)
(* One action is one visit of the scan: everything from the recv() of a    *)
(* socket to the end of the loop body.  Between two visits the peers and   *)
(* the auth server move: they connect, send, close, reset, answer.         *)
(*                                                                         *)
(* Abstracted.  A packet is one unread unit of a connection; what it says  *)
(* is chosen when it is handled.  A client says what main_client.cpp lets  *)
(* a user type, and also what only the auth server has reason to say: the  *)
(* dispatch on the message type (lines 375-845) does not ask which socket  *)
(* a packet came from.  A recv() may take several packets at once, and     *)
(* then all but the first are lost with the buffer (lines 289-296).  An    *)
(* outgoing message is a record of what it says, its room, and its         *)
(* recipients in order; the messages of the last visit are kept in `sent`  *)
(* for the properties to talk about.  Partial and oversized packets are    *)
(* not modelled here.                                                      *)
(***************************************************************************)
EXTENDS SessionRegistry

CONSTANTS
    AuthLink,      \* serverSocket, the connection to the auth server
    Nobody,        \* the request id 0 of a packet that does not parse
    Listen,        \* listenSocket
    NoRoom,        \* the room of a message that is not about a room
    Email,
    Password,
    EmptyEmail,    \* what a packet that does not parse has for an email
    EmptyPassword,
    ClientFaults,  \* what may happen to a client's connection
    LinkFaults,    \* what may happen to the connection to the auth server
    LinkAtStart,   \* how connect() to the auth server may have ended
    Commands,      \* bound: what the clients of an instance say
    ClientReplies, \* bound: the auth server's replies that they say
    RepliesAbout,  \* bound: the sockets that such a reply names
    FdSetSize,     \* FD_SETSIZE of winsock2.h: FD_SET ignores the rest
    MaxCoalesce,   \* how many packets one recv() may take
    MaxPackets,    \* bound: unread packets of one client
    MaxBacklog,    \* bound: connections waiting to be accepted
    MaxRequests    \* bound: requests and replies between the two servers

FaultKinds == {"close", "reset", "abort"}

CommandKinds == {"chat", "join", "leave", "nick", "help", "unknown", "account", "reply"}

ReplyKinds == {"registered", "registerFailed", "loggedIn", "loginFailed"}

ASSUME ChatServerAssumption ==
    /\ AuthLink \in Socket
    /\ Listen \notin Socket
    /\ Nobody \notin Socket
    /\ EmptyEmail \in Email
    /\ EmptyPassword \in Password
    /\ NoRoom \notin Room
    /\ ClientFaults \subseteq FaultKinds
    /\ LinkFaults \subseteq FaultKinds
    /\ LinkAtStart \subseteq {"open", "absent"}
    /\ Commands \subseteq CommandKinds
    /\ ClientReplies \subseteq ReplyKinds
    /\ RepliesAbout \subseteq Socket \cup {Nobody}
    /\ FdSetSize \in Nat \ {0}
    /\ MaxCoalesce \in Nat \ {0}
    /\ MaxPackets \in Nat
    /\ MaxBacklog \in Nat
    /\ MaxRequests \in Nat

Client == Socket \ {AuthLink}

Asker == Client \cup {Nobody}

Request == [kind : {"login", "register"}, email : Email, password : Password, id : Asker]

Reply == [what : ReplyKinds, id : Asker]

VARIABLES
    activeConnections,  \* vector of sockets, in the order they are scanned
    handles,            \* socket handles the process holds open
    phase,              \* where the thread is: in select(), scanning, or lost
    ready,              \* socketsReadyForReading
    count,              \* what select() returned, less the visits finished
    next,               \* the loop index i
    wire,               \* the state of each connection, as the peer left it
    inbox,              \* unread packets of each client
    backlog,            \* connections waiting to be accepted
    requests,           \* requests on their way to the auth server
    replies,            \* unread replies of the auth server
    sent,               \* messages the last visit sent, in order
    asked,              \* history: sockets that sent a login since accepted
    rumours             \* history: replies that clients sent, by the socket named

loopVars == <<phase, ready, count, next>>
linkVars == <<requests, replies>>
netVars == <<wire, inbox, backlog>>
heardVars == <<asked, rumours>>
vars == <<registryVars, activeConnections, handles, loopVars, netVars,
          linkVars, sent, heardVars>>

Halted == phase \in {"down", "crashed"}

-----------------------------------------------------------------------------
(* Winsock, as the loop uses it. *)

Broken(s) == wire[s] \in {"reset", "aborted"}

Pending(s) == IF s = AuthLink THEN replies # <<>> ELSE inbox[s] > 0

(* recv() on s would return at once. *)
Readable(s) == Broken(s) \/ wire[s] = "closed" \/ (wire[s] = "open" /\ Pending(s))

(* recv() answers 0 or WSAECONNRESET. *)
SaysGoodbye(s) == wire[s] = "reset" \/ (wire[s] = "closed" /\ ~Pending(s))

HasPacket(s) == ~Broken(s) /\ Pending(s)

(* Which sockets a send() may fail on: surely on a connection known to be  *)
(* dead, perhaps on one whose peer has closed (see Fails).                 *)
SendFailures ==
    LET dead == {s \in Socket : Broken(s) \/ wire[s] = "absent"}
        dying == {s \in Socket : wire[s] = "closed"}
    IN  {dead \cup d : d \in SUBSET dying}

(* FD_SET on each socket in turn: the listening socket takes one slot and  *)
(* whatever comes after the last free one is left out.                     *)
Watched == {activeConnections[k] : k \in {j \in DOMAIN activeConnections : j < FdSetSize}}

ReadyNow ==
    {s \in Watched : Readable(s)} \cup (IF backlog > 0 THEN {Listen} ELSE {})

-----------------------------------------------------------------------------
(* Outgoing messages. *)

Notice(what, room, to) == [what |-> what, room |-> room, to |-> to]

Personal(what, s) == Notice(what, NoRoom, <<s>>)

(* Whether the last of a visit's messages reports an error.  broadcast()   *)
(* sends to everyone and reports the worst result.  The first thing sent   *)
(* to a peer that has closed is still taken; the RST it provokes may make  *)
(* what the same visit sends next fail.                                    *)
Fails(messages, failing) ==
    LET last == Len(messages) IN
    \E t \in ToSet(messages[last].to) \cap failing :
        wire[t] = "closed" => \E k \in 1 .. last - 1 : t \in ToSet(messages[k].to)

-----------------------------------------------------------------------------
(* The scan: `for (i = 0; i < activeConnections.size(); i++)`. *)

Selected(k) == activeConnections[k] \in ready

Unvisited == {k \in next .. Len(activeConnections) : Selected(k)}

Index == CHOOSE k \in Unvisited : \A j \in Unvisited : k <= j

Visiting(s) == phase = "scan" /\ Unvisited # {} /\ s = activeConnections[Index]

(* Mutants: count is decremented twice; the scan ends after one visit.     *)
VisitDone_twice ==
    /\ ready' = ready \ {activeConnections[Index]}
    /\ count' = count - 2
    /\ next' = Index + 1
    /\ UNCHANGED phase

VisitDone_breaks ==
    /\ ready' = ready \ {activeConnections[Index]}
    /\ count' = count - 1
    /\ next' = Len(activeConnections) + 1
    /\ UNCHANGED phase

(* The end of the loop body: FD_CLR and count--. *)
VisitDone ==
    /\ ready' = ready \ {activeConnections[Index]}
    /\ count' = count - 1
    /\ next' = Index + 1
    /\ UNCHANGED phase

(* `continue`: neither FD_CLR nor count--. *)
VisitSkipped ==
    /\ next' = Index + 1
    /\ UNCHANGED <<phase, ready, count>>

(* closesocket(listenSocket), WSACleanup() and `break`: every later call   *)
(* of the loop fails, for good.                                            *)
StopServing ==
    /\ phase' = "down"
    /\ UNCHANGED <<ready, count, next>>

(* An exception nobody catches ends the process. *)
Crash ==
    /\ phase' = "crashed"
    /\ UNCHANGED <<ready, count, next>>

(* The check at the end of the loop body looks at the result of the last   *)
(* send only.                                                              *)
Finish(messages, failing) ==
    /\ sent' = messages
    /\ IF messages # <<>> /\ Fails(messages, failing)
       THEN StopServing
       ELSE VisitDone

SendAndSkip(messages) == sent' = messages /\ VisitSkipped

SendAndStop(messages) == sent' = messages /\ StopServing

(* recv() on a client: one packet is handled, the others read with it are  *)
(* gone.                                                                   *)
Receive(s, command) ==
    /\ command \in Commands
    /\ Visiting(s) /\ s \in Client /\ HasPacket(s)
    /\ \E k \in 1 .. MaxCoalesce :
          k <= inbox[s] /\ inbox' = [inbox EXCEPT ![s] = @ - k]
    /\ UNCHANGED <<activeConnections, handles, wire, backlog, replies>>

-----------------------------------------------------------------------------
(* Packets of a client. *)

(* Message type 1.  Every room the sender is in gets the text, the sender  *)
(* included; a hint follows when there is no nickname or no room.          *)
ChatHint(s) ==
    IF GetUsername(s) = NoName THEN <<Personal("setNickAndJoin", s)>>
    ELSE IF GetUserRooms(s) = <<>> THEN <<Personal("joinFirst", s)>>
    ELSE <<>>

ChatMessages(s) ==
    LET rooms == GetUserRooms(s) IN
    IF ~IsUserAuthed(s) THEN <<Personal("notAuthed", s)>>
    ELSE [k \in DOMAIN rooms |-> Notice("chat", rooms[k], GetRoomUsers(rooms[k]))]
            \o ChatHint(s)

ChatPacket(s) ==
    /\ Receive(s, "chat")
    /\ \E failing \in SendFailures : Finish(ChatMessages(s), failing)
    /\ UNCHANGED <<registryVars, requests, heardVars>>

(* !join, !leave and !nick need an authorised socket. *)
RefuseUnauthed(s) ==
    /\ ~IsUserAuthed(s)
    /\ \E failing \in SendFailures : Finish(<<Personal("notAuthed", s)>>, failing)
    /\ UNCHANGED registryVars

(* !join, !leave: the argument is not a number of at most four digits. *)
RefuseRoom(s) ==
    /\ IsUserAuthed(s)
    /\ \E failing \in SendFailures : Finish(<<Personal("invalidRoom", s)>>, failing)
    /\ UNCHANGED registryVars

(* !join without a nickname; the result of the send is not looked at. *)
RefuseNameless(s) ==
    /\ IsUserAuthed(s) /\ GetUsername(s) = NoName
    /\ SendAndSkip(<<Personal("setNickFirst", s)>>)
    /\ UNCHANGED registryVars

(* "!join " with nothing after the space passes the digit check, since it  *)
(* has no character that is not a digit, and stoi("") throws.              *)
JoinBlank(s) ==
    /\ IsUserAuthed(s) /\ GetUsername(s) # NoName
    /\ sent' = <<>> /\ Crash
    /\ UNCHANGED registryVars

(* Mutant: the nickname is not checked. *)
JoinRoom_nameless(s, r) ==
    /\ IsUserAuthed(s)
    /\ LET joined == <<Notice("joined", r, GetRoomUsers(r))>> IN
       \E failing \in SendFailures :
         /\ ~Fails(joined, failing)
         /\ AddToRoom(s, r)
         /\ Finish(joined \o <<Personal("youJoined", s)>>, failing)

(* The room hears of the newcomer before the newcomer is in it.  A failed  *)
(* broadcast ends the server before addToRoom; addToRoom's own answer is   *)
(* not looked at.                                                          *)
JoinRoom(s, r) ==
    /\ IsUserAuthed(s) /\ GetUsername(s) # NoName
    /\ LET joined == <<Notice("joined", r, GetRoomUsers(r))>> IN
       \E failing \in SendFailures :
         \/ /\ Fails(joined, failing)
            /\ SendAndStop(joined)
            /\ UNCHANGED registryVars
         \/ /\ ~Fails(joined, failing)
            /\ AddToRoom(s, r)
            /\ Finish(joined \o <<Personal("youJoined", s)>>, failing)

JoinCommand(s) ==
    /\ Receive(s, "join")
    /\ \/ RefuseUnauthed(s) \/ RefuseRoom(s) \/ RefuseNameless(s) \/ JoinBlank(s)
       \/ \E r \in Room : JoinRoom(s, r)
    /\ UNCHANGED <<requests, heardVars>>

(* "!leave " with nothing after the space: stoi("") again. *)
LeaveBlank(s) ==
    /\ IsUserAuthed(s)
    /\ sent' = <<>> /\ Crash
    /\ UNCHANGED registryVars

(* Mutant: the room is told before the leaver is removed. *)
LeaveRoom_tellsFirst(s, r) ==
    LET left == <<Notice("left", r, GetRoomUsers(r))>> IN
    /\ IsUserAuthed(s) /\ IsInRoom(s, r)
    /\ RemoveFromRoom(s, r)
    /\ \E failing \in SendFailures : Finish(left \o <<Personal("youLeft", s)>>, failing)

(* The notice goes to the room the leaver is no longer in.  The header of  *)
(* the leaver's own message is never given a type (lines 719-725): the     *)
(* client shows it only if the memory happened to hold a 1.                *)
LeaveRoom(s, r) ==
    LET left == <<Notice("left", r, RoomsWithout(s, {r})[r])>> IN
    /\ IsUserAuthed(s) /\ IsInRoom(s, r)
    /\ RemoveFromRoom(s, r)
    /\ \E failing \in SendFailures, what \in {"youLeft", "untyped"} :
         \/ Fails(left, failing) /\ SendAndStop(left)
         \/ ~Fails(left, failing) /\ Finish(left \o <<Personal(what, s)>>, failing)

LeaveOtherRoom(s, r) ==
    /\ IsUserAuthed(s) /\ ~IsInRoom(s, r)
    /\ RemoveFromRoom(s, r)
    /\ \E failing \in SendFailures : Finish(<<Personal("notInRoom", s)>>, failing)

LeaveCommand(s) ==
    /\ Receive(s, "leave")
    /\ \/ RefuseUnauthed(s) \/ RefuseRoom(s) \/ LeaveBlank(s)
       \/ \E r \in Room : LeaveRoom(s, r) \/ LeaveOtherRoom(s, r)
    /\ UNCHANGED <<requests, heardVars>>

(* !nick without a name: the only `continue` that checks its send. *)
NickBlank(s) ==
    /\ IsUserAuthed(s)
    /\ LET usage == <<Personal("nickUsage", s)>> IN
       \E failing \in SendFailures :
          IF Fails(usage, failing) THEN SendAndStop(usage) ELSE SendAndSkip(usage)
    /\ UNCHANGED registryVars

(* Every room of the user hears of the new name, or the user alone. *)
RenameMessages(s) ==
    LET rooms == GetUserRooms(s) IN
    IF rooms = <<>> THEN <<Personal("renamed", s)>>
    ELSE [k \in DOMAIN rooms |-> Notice("renamed", rooms[k], GetRoomUsers(rooms[k]))]

NickName(s, n) ==
    /\ IsUserAuthed(s)
    /\ SetUsername(s, n)
    /\ \E failing \in SendFailures : Finish(RenameMessages(s), failing)

NickCommand(s) ==
    /\ Receive(s, "nick")
    /\ \/ RefuseUnauthed(s) \/ NickBlank(s)
       \/ \E n \in Name : NickName(s, n)
    /\ UNCHANGED <<requests, heardVars>>

HelpCommand(s) ==
    /\ Receive(s, "help")
    /\ \E failing \in SendFailures : Finish(<<Personal("commands", s)>>, failing)
    /\ UNCHANGED <<registryVars, requests, heardVars>>

(* Message type 51: nothing is sent. *)
UnknownCommand(s) ==
    /\ Receive(s, "unknown")
    /\ Finish(<<>>, {})
    /\ UNCHANGED <<registryVars, requests, heardVars>>

(* !register and !authenticate without two more words. *)
AccountBlank(s) ==
    /\ \E failing \in SendFailures : Finish(<<Personal("weakPassword", s)>>, failing)
    /\ UNCHANGED <<requests, asked>>

(* The bound on what is between the two servers, and what is sent there. *)
LinkHasRoom == Len(requests) + Len(replies) < MaxRequests

SendToAuthServer(q) ==
    requests' = IF wire[AuthLink] = "open" THEN Append(requests, q) ELSE requests

(* The request goes to the auth server with the client's socket as its id. *)
ForwardAccount(s, kind) ==
    /\ LinkHasRoom
    /\ \E failing \in SendFailures : Finish(<<Personal(kind, AuthLink)>>, failing)
    /\ \E q \in Request : q.kind = kind /\ q.id = s /\ SendToAuthServer(q)
    /\ asked' = IF kind = "login" THEN asked \cup {s} ELSE asked

AccountCommand(s) ==
    /\ Receive(s, "account")
    /\ AccountBlank(s) \/ ForwardAccount(s, "login") \/ ForwardAccount(s, "register")
    /\ UNCHANGED <<registryVars, rumours>>

-----------------------------------------------------------------------------
(* Message types 9 to 12, from whichever socket the scan is at.  The reply *)
(* goes to the socket its id names if that socket is still active, and a   *)
(* successful login authorises it.                                         *)
IsActive(s) == s \in ToSet(activeConnections)

(* Mutant: the requester is not looked up. *)
ReplyMessages_blind(reply) == <<Personal(reply.what, reply.id)>>

ReplyMessages(reply) ==
    IF IsActive(reply.id) THEN <<Personal(reply.what, reply.id)>> ELSE <<>>

(* Mutant: the message type is not told apart before the authorisation. *)
HandleReply_anyKind(reply) ==
    /\ IF IsActive(reply.id) THEN AddAuthedUser(reply.id) ELSE UNCHANGED registryVars
    /\ \E failing \in SendFailures : Finish(ReplyMessages(reply), failing)

HandleReply(reply) ==
    /\ IF reply.what = "loggedIn" /\ IsActive(reply.id)
       THEN AddAuthedUser(reply.id)
       ELSE UNCHANGED registryVars
    /\ \E failing \in SendFailures : Finish(ReplyMessages(reply), failing)

(* From the auth server. *)
AuthReply ==
    /\ Visiting(AuthLink) /\ HasPacket(AuthLink)
    /\ \E k \in 1 .. MaxCoalesce :
          k <= Len(replies) /\ replies' = SubSeq(replies, k + 1, Len(replies))
    /\ HandleReply(Head(replies))
    /\ UNCHANGED <<activeConnections, handles, netVars, requests, heardVars>>

(* A type 1 packet is a registration to the auth server, and a text that   *)
(* does not parse leaves its fields empty.                                 *)
Misparsed == [kind |-> "register", email |-> EmptyEmail, password |-> EmptyPassword,
              id |-> Nobody]

(* What the properties remember of it. *)
Overheard(reply) ==
    rumours' = IF IsActive(reply.id) THEN rumours \cup {reply} ELSE rumours

(* From a client, about any socket, the client's own or the auth server's  *)
(* included: the "Registration successful." of a reply that names the auth *)
(* server's socket is sent there.                                          *)
ReplyPacket(s) ==
    /\ Receive(s, "reply")
    /\ \E what \in ClientReplies, id \in RepliesAbout :
          LET reply == [what |-> what, id |-> id] IN
          /\ HandleReply(reply)
          /\ Overheard(reply)
          /\ IF id = AuthLink /\ IsActive(AuthLink)
             THEN LinkHasRoom /\ SendToAuthServer(Misparsed)
             ELSE UNCHANGED requests
    /\ UNCHANGED asked

-----------------------------------------------------------------------------
(* recv() answers 0 or an error. *)

(* Mutant: the rooms are read after the purge, which leaves none to read.  *)
DepartureMessages_late(s) == <<>>

(* A disconnected client is erased from activeConnections, so that the     *)
(* element after it is skipped in this pass; its rooms are read before its *)
(* entry is purged, and told after; its handle is never closed.            *)
DepartureMessages(s) ==
    LET rooms == GetUserRooms(s)
        remaining == RoomsWithout(s, ToSet(rooms))
    IN  [k \in DOMAIN rooms |-> Notice("left", rooms[k], remaining[rooms[k]])]

(* Mutant: the handle is closed, and the system may hand it out again. *)
HandlesAfterDisconnect_closed(s) == handles \ {s}

HandlesAfterDisconnect(s) == handles

(* Mutant: the user is not purged. *)
ClientDisconnect_noPurge(s) ==
    /\ Visiting(s) /\ s \in Client /\ SaysGoodbye(s)
    /\ activeConnections' = EraseFirst(activeConnections, s)
    /\ handles' = HandlesAfterDisconnect(s)
    /\ SendAndSkip(DepartureMessages(s))
    /\ UNCHANGED <<registryVars, netVars, linkVars, heardVars>>

ClientDisconnect(s) ==
    /\ Visiting(s) /\ s \in Client /\ SaysGoodbye(s)
    /\ activeConnections' = EraseFirst(activeConnections, s)
    /\ PurgeUser(s)
    /\ handles' = HandlesAfterDisconnect(s)
    /\ SendAndSkip(DepartureMessages(s))
    /\ UNCHANGED <<netVars, linkVars, heardVars>>

(* The auth server's closing takes the same path.  It was never            *)
(* initialised as a user: removeFromRoom dereferences the end iterator,    *)
(* which is undefined.  Either the process dies of it or nothing happens;  *)
(* the registry remembers the misuse.                                      *)
LinkDisconnect ==
    /\ Visiting(AuthLink) /\ SaysGoodbye(AuthLink)
    /\ activeConnections' = EraseFirst(activeConnections, AuthLink)
    /\ PurgeUser(AuthLink)
    /\ sent' = DepartureMessages(AuthLink)
    /\ VisitSkipped \/ Crash
    /\ UNCHANGED <<handles, netVars, linkVars, heardVars>>

(* Any other error of any one connection ends the service. *)
ReceiveError(s) ==
    /\ Visiting(s) /\ wire[s] = "aborted"
    /\ SendAndStop(<<>>)
    /\ UNCHANGED <<registryVars, activeConnections, handles, netVars, linkVars, heardVars>>

-----------------------------------------------------------------------------
(* The rest of the loop. *)

(* select() returns once something is readable, and FD_ZERO starts anew.   *)
(* Its timeout changes nothing.                                            *)
Select ==
    /\ phase = "select" /\ ReadyNow # {}
    /\ phase' = "scan"
    /\ ready' = ReadyNow
    /\ count' = Cardinality(ReadyNow)
    /\ next' = 1
    /\ sent' = <<>>
    /\ UNCHANGED <<registryVars, activeConnections, handles, netVars, linkVars, heardVars>>

SelectTimeout == phase = "select" /\ ReadyNow = {} /\ UNCHANGED vars

ScanOver == phase = "scan" /\ Unvisited = {}

(* Mutants: FD_ISSET is left out, since count seems to say it; off by one. *)
WillAccept_countOnly == ScanOver /\ count > 0

WillAccept_moreThanOne == ScanOver /\ count > 1 /\ Listen \in ready

(* `if (count > 0)` and FD_ISSET(listenSocket). *)
WillAccept == ScanOver /\ count > 0 /\ Listen \in ready

BackToSelect ==
    /\ phase' = "select"
    /\ ready' = {}
    /\ count' = 0
    /\ next' = 1

(* Mutant: the new connection is not entered into userinfo_map. *)
Accept_unknown(s) ==
    /\ WillAccept /\ backlog > 0 /\ s \in Client \ handles
    /\ backlog' = backlog - 1
    /\ wire' = [wire EXCEPT ![s] = "open"]
    /\ inbox' = [inbox EXCEPT ![s] = 0]
    /\ handles' = handles \cup {s}
    /\ activeConnections' = Append(activeConnections, s)
    /\ asked' = asked \ {s}
    /\ rumours' = {reply \in rumours : reply.id # s}
    /\ sent' = <<Personal("welcome", s)>>
    /\ BackToSelect
    /\ UNCHANGED <<registryVars, linkVars>>

(* The system hands out a handle the process does not hold. *)
Accept(s) ==
    /\ WillAccept /\ backlog > 0 /\ s \in Client \ handles
    /\ backlog' = backlog - 1
    /\ wire' = [wire EXCEPT ![s] = "open"]
    /\ inbox' = [inbox EXCEPT ![s] = 0]
    /\ handles' = handles \cup {s}
    /\ activeConnections' = Append(activeConnections, s)
    /\ InitializeUser(s)
    /\ asked' = asked \ {s}
    /\ rumours' = {reply \in rumours : reply.id # s}
    /\ sent' = <<Personal("welcome", s)>>
    /\ BackToSelect
    /\ UNCHANGED linkVars

(* accept() fails when the caller has given up; the loop just goes on. *)
AcceptFails ==
    /\ WillAccept /\ backlog > 0 /\ "reset" \in ClientFaults
    /\ backlog' = backlog - 1
    /\ sent' = <<>>
    /\ BackToSelect
    /\ UNCHANGED <<registryVars, activeConnections, handles, wire, inbox, linkVars, heardVars>>

NothingToAccept ==
    /\ ScanOver /\ ~WillAccept
    /\ sent' = <<>>
    /\ BackToSelect
    /\ UNCHANGED <<registryVars, activeConnections, handles, netVars, linkVars, heardVars>>

ClientVisit(s) ==
    \/ ChatPacket(s) \/ JoinCommand(s) \/ LeaveCommand(s) \/ NickCommand(s)
    \/ HelpCommand(s) \/ UnknownCommand(s) \/ AccountCommand(s)
    \/ ReplyPacket(s) \/ ClientDisconnect(s)

Server ==
    \/ Select \/ AuthReply \/ LinkDisconnect \/ AcceptFails \/ NothingToAccept
    \/ \E s \in Socket : ClientVisit(s) \/ ReceiveError(s) \/ Accept(s)

-----------------------------------------------------------------------------
(* The peers: the clients, the network and the auth server. *)

LoopUnchanged ==
    /\ ~Halted
    /\ UNCHANGED <<registryVars, activeConnections, handles, loopVars, sent, heardVars>>

ClientConnects ==
    /\ backlog < MaxBacklog /\ backlog < Cardinality(Client \ handles)
    /\ backlog' = backlog + 1
    /\ UNCHANGED <<wire, inbox, linkVars>> /\ LoopUnchanged

ClientSends(s) ==
    /\ s \in Client /\ IsActive(s) /\ wire[s] = "open" /\ inbox[s] < MaxPackets
    /\ inbox' = [inbox EXCEPT ![s] = @ + 1]
    /\ UNCHANGED <<wire, backlog, linkVars>> /\ LoopUnchanged

(* close: unread packets can still be read.  reset and abort throw them    *)
(* away; a reset is also the answer to what is sent to a closed peer.      *)
Breaks(s, faults) ==
    \/ /\ wire[s] = "closed" \/ ("reset" \in faults /\ wire[s] = "open")
       /\ wire' = [wire EXCEPT ![s] = "reset"]
    \/ /\ "abort" \in faults /\ wire[s] \in {"open", "closed"}
       /\ wire' = [wire EXCEPT ![s] = "aborted"]

Closes(s, faults) ==
    /\ "close" \in faults /\ wire[s] = "open"
    /\ wire' = [wire EXCEPT ![s] = "closed"]

ClientFault(s) ==
    /\ s \in Client /\ IsActive(s)
    /\ \/ Closes(s, ClientFaults) /\ UNCHANGED inbox
       \/ Breaks(s, ClientFaults) /\ inbox' = [inbox EXCEPT ![s] = 0]
    /\ UNCHANGED <<backlog, linkVars>> /\ LoopUnchanged

LinkFault ==
    /\ \/ Closes(AuthLink, LinkFaults) /\ UNCHANGED replies
       \/ Breaks(AuthLink, LinkFaults) /\ replies' = <<>>
    /\ requests' = <<>>
    /\ UNCHANGED <<inbox, backlog>> /\ LoopUnchanged

(* The auth server answers one request of each recv(), like this server.   *)
Answers(kind) == IF kind = "login" THEN {"loggedIn", "loginFailed"}
                                   ELSE {"registered", "registerFailed"}

AuthServerAnswers ==
    /\ requests # <<>> /\ wire[AuthLink] = "open"
    /\ \E what \in Answers(Head(requests).kind) :
          replies' = Append(replies, [what |-> what, id |-> Head(requests).id])
    /\ \E k \in 1 .. MaxCoalesce :
          k <= Len(requests) /\ requests' = SubSeq(requests, k + 1, Len(requests))
    /\ UNCHANGED netVars /\ LoopUnchanged

Peers ==
    \/ ClientConnects \/ LinkFault \/ AuthServerAnswers
    \/ \E s \in Client : ClientSends(s) \/ ClientFault(s)

-----------------------------------------------------------------------------
Init ==
    /\ RegistryInit
    /\ activeConnections = <<AuthLink>>
    /\ handles = {AuthLink}
    /\ phase = "select" /\ ready = {} /\ count = 0 /\ next = 1
    /\ \E link \in LinkAtStart :
          wire = [s \in Socket |-> IF s = AuthLink THEN link ELSE "absent"]
    /\ inbox = [s \in Client |-> 0]
    /\ backlog = 0
    /\ requests = <<>> /\ replies = <<>>
    /\ sent = <<>>
    /\ asked = {} /\ rumours = {}

(* A server that is down or gone stays so. *)
Stopped == Halted /\ UNCHANGED vars

Next == Server \/ SelectTimeout \/ Peers \/ Stopped

Spec == Init /\ [][Next]_vars

(* The thread never stops by itself, and the auth server is a loop like    *)
(* this one: neither may idle for ever when it has a step to take.         *)
FairSpec == Spec /\ WF_vars(Server) /\ WF_vars(AuthServerAnswers)

-----------------------------------------------------------------------------
(* Properties. *)

MessageKinds ==
    {"welcome", "notAuthed", "invalidRoom", "setNickFirst", "setNickAndJoin", "joinFirst",
     "youJoined", "youLeft", "untyped", "notInRoom", "nickUsage", "commands", "weakPassword",
     "chat", "joined", "left", "renamed", "login", "register"}
        \cup ReplyKinds

Message == [what : MessageKinds, room : Room \cup {NoRoom}, to : Seq(Socket)]

(* Types of the loop's state and of the network's. *)
ChatTypeOK ==
    /\ RegistryTypeOK
    /\ activeConnections \in Seq(Socket)
    /\ handles \subseteq Socket /\ AuthLink \in handles
    /\ phase \in {"select", "scan", "down", "crashed"}
    /\ ready \subseteq Socket \cup {Listen}
    /\ count \in Nat /\ next \in Nat \ {0}
    /\ wire \in [Socket -> {"absent", "open", "closed", "reset", "aborted"}]
    /\ inbox \in [Client -> Nat]
    /\ backlog \in Nat
    /\ requests \in Seq(Request)
    /\ replies \in Seq(Reply)
    /\ sent \in Seq(Message)
    /\ asked \subseteq Client
    /\ rumours \subseteq [what : ReplyKinds, id : Socket]

(* Whoever is in a room is still connected, has logged in and has a name:  *)
(* the checks are spread over three handlers and the purge over a fourth.  *)
MembersAreEntitled ==
    \A r \in Room : \A s \in ToSet(GetRoomUsers(r)) :
        IsActive(s) /\ IsUserAuthed(s) /\ GetUsername(s) # NoName

(* userinfo_map and activeConnections, changed by different statements,    *)
(* hold the same clients.  removeFromRoom's contract rests on it.          *)
UsersAreConnections ==
    /\ DOMAIN userInfo = ToSet(activeConnections) \ {AuthLink}
    /\ IsInjective(activeConnections)

(* No connection owes its authorisation, or gets an answer, to a login it  *)
(* did not send, except where a client's own packet named it.  authedUsers *)
(* is never purged and replies are matched by handle: only that a handle   *)
(* is never reused keeps logins and rumours with the connection they are   *)
(* about.                                                                  *)
NoInheritedLogin ==
    /\ \A s \in ToSet(authedUsers) :
          IsActive(s) => s \in asked \/ [what |-> "loggedIn", id |-> s] \in rumours
    /\ \A k \in DOMAIN sent :
          sent[k].what \in {"loggedIn", "loginFailed"} =>
              \A s \in ToSet(sent[k].to) :
                  s \in asked \/ [what |-> sent[k].what, id |-> s] \in rumours

(* recv() and accept() are called only when they return at once: the one   *)
(* thread never waits for one peer while the others wait for it.  count    *)
(* alone would not do: the `continue` paths leave it too high.             *)
NeverBlocks ==
    /\ \A s \in Socket : Visiting(s) => Readable(s)
    /\ WillAccept => backlog > 0

(* What is said in a room reaches its present members only, each at most   *)
(* once; chat text and a new nickname reach all of them.                   *)
RoomTrafficIsPrivate ==
    \A k \in DOMAIN sent :
        LET m == sent[k] IN
        m.room # NoRoom =>
            /\ IsInjective(m.to)
            /\ ToSet(m.to) \subseteq ToSet(GetRoomUsers(m.room))
            /\ m.what \in {"chat", "renamed"} => ToSet(m.to) = ToSet(GetRoomUsers(m.room))

(* Only a connection the server still counts as active, or the auth        *)
(* server's, can have ended the service: a client that is gone cannot.     *)
OutageHasLivingCause ==
    phase = "down" => \E s \in ToSet(activeConnections) \cup {AuthLink} : wire[s] # "open"

(* Nobody enters or leaves a room, by command or by disconnecting, without *)
(* a notice in the same visit to everyone else who is in it.               *)
Announced(messages, what, r, to) ==
    \E k \in DOMAIN messages :
        messages[k].what = what /\ messages[k].room = r /\ ToSet(messages[k].to) = to

MembershipIsAnnounced ==
    [][\A r \in Room :
          LET old == ToSet(GetRoomUsers(r))
              new == ToSet(GetRoomUsers(r)')
          IN  /\ old \subseteq new \/ Announced(sent', "left", r, new)
              /\ new \subseteq old \/ Announced(sent', "joined", r, old)]_vars

(* removeFromRoom(serverSocket, -1), when the auth server's connection has *)
(* ended (line 312): the one call that the registry's contract forbids.    *)
LinkPurge ==
    /\ wire[AuthLink] \in {"closed", "reset"} /\ AuthLink \notin DOMAIN userInfo
    /\ PurgeUser(AuthLink)

(* The handlers use the registry as its contract allows: a step of the     *)
(* loop is a call SessionRegistry permits, or none, or the purge of the    *)
(* auth server's socket, which is no user, when its connection is lost.    *)
RegistryContract == RegistryInit /\ [][RegistryNext \/ LinkPurge]_registryVars

(* A connection with something to read is visited, however busy the others *)
(* are and whichever of them disconnect, unless the service ends.          *)
EveryoneIsServed ==
    \A s \in Socket : (IsActive(s) /\ Readable(s)) ~> (Visiting(s) \/ Halted)

(* A caller is accepted, however busy the clients are. *)
CallersAreAccepted == (backlog > 0) ~> (WillAccept \/ Halted)
=============================================================================
