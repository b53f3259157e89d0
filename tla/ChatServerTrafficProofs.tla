----------------------- MODULE ChatServerTrafficProofs -----------------------
(***************************************************************************)
(* Proofs about who hears what the chat server says: what is said in a     *)
(* room reaches members of the room only, who comes or goes is announced   *)
(* to the others, and only a connection that is still active can make a    *)
(* send fail and so end the service.                                       *)
(***************************************************************************)
EXTENDS ChatServerProofs

(* What RoomTrafficIsPrivate asks of one message. *)
Private(m) ==
    m.room # NoRoom =>
        /\ IsInjective(m.to)
        /\ ToSet(m.to) \subseteq ToSet(GetRoomUsers(m.room))
        /\ m.what \in {"chat", "renamed"} => ToSet(m.to) = ToSet(GetRoomUsers(m.room))

Reachable == ToSet(activeConnections) \cup {AuthLink}

(* A message of a visit: private when the visit is over, and sent to those *)
(* who were active when it began.                                          *)
Spoken == {m \in Message : Private(m)' /\ ToSet(m.to) \subseteq Reachable}

(* A message to one active socket. *)
LEMMA PersonalSpoken ==
  ASSUME CoreInv, NEW what \in MessageKinds, NEW s \in Reachable
  PROVE  <<Personal(what, s)>> \in Seq(Spoken)
<1>1. s \in Socket
  BY ChatServerAssumption DEF CoreInv, ConnectionsOK, Reachable
<1>2. <<s>> \in Seq(Socket) /\ ToSet(<<s>>) = {s}
  BY <1>1 DEF ToSet
<1>3. Personal(what, s) \in Spoken
  BY <1>2 DEF Personal, Notice, Spoken, Message, Private
<1>4. \A m \in Spoken : <<m>> \in Seq(Spoken)
  OBVIOUS
<1> QED BY <1>3, <1>4

(* A message to members of a room who remain members. *)
LEMMA RoomSpoken ==
  ASSUME CoreInv, NEW what \in {"chat", "renamed", "joined", "left"}, NEW r \in Room,
         NEW to \in Seq(Socket), IsInjective(to),
         ToSet(to) \subseteq ToSet(GetRoomUsers(r)), ToSet(to) \subseteq ToSet(GetRoomUsers(r)'),
         what \in {"chat", "renamed"} => ToSet(to) = ToSet(GetRoomUsers(r)')
  PROVE  Notice(what, r, to) \in Spoken /\ <<Notice(what, r, to)>> \in Seq(Spoken)
<1>1. ToSet(to) \subseteq Reachable
  BY DEF CoreInv, MembersAreEntitled, IsActive, Reachable
<1>2. Notice(what, r, to) \in Message
  BY DEF Notice, Message, MessageKinds
<1>3. Private(Notice(what, r, to))'
  BY DEF Notice, Private
<1>4. Notice(what, r, to) \in Spoken
  BY <1>1, <1>2, <1>3 DEF Spoken, Notice
<1>5. \A m \in Spoken : <<m>> \in Seq(Spoken)
  OBVIOUS
<1> QED BY <1>4, <1>5

(* The vector of a room's members. *)
LEMMA RoomVector ==
  ASSUME RegistryInv
  PROVE  \A r : GetRoomUsers(r) \in Seq(Socket) /\ IsInjective(GetRoomUsers(r))
BY EmptyVector DEF RegistryInv, RegistryTypeOK, NoDuplicates, GetRoomUsers

(* One message for each of a user's rooms, when nobody enters or leaves. *)
LEMMA RoomsSpoken ==
  ASSUME CoreInv, NEW s, NEW what \in {"chat", "renamed"}, roomMap' = roomMap
  PROVE  LET rooms == GetUserRooms(s) IN
         [k \in DOMAIN rooms |-> Notice(what, rooms[k], GetRoomUsers(rooms[k]))] \in Seq(Spoken)
<1> DEFINE rooms == GetUserRooms(s)
           messages == [k \in DOMAIN rooms |-> Notice(what, rooms[k], GetRoomUsers(rooms[k]))]
<1>1. rooms \in Seq(Room)
  BY Getters DEF CoreInv
<1>2. Len(rooms) \in Nat /\ DOMAIN rooms = 1 .. Len(rooms) /\ \A k \in DOMAIN rooms : rooms[k] \in Room
  BY <1>1
<1>3. \A r : GetRoomUsers(r)' = GetRoomUsers(r)
  BY DEF GetRoomUsers
<1> HIDE DEF rooms
<1>4. \A r \in Room : Notice(what, r, GetRoomUsers(r)) \in Spoken
  BY <1>3, RoomVector, RoomSpoken DEF CoreInv
<1>5. messages \in [1 .. Len(rooms) -> Spoken]
  BY <1>2, <1>4
<1> HIDE DEF messages
<1>6. messages \in Seq(Spoken)
  BY <1>2, <1>5
<1> QED BY <1>6 DEF messages, rooms

(* What the rooms of a leaving user hear, which are purged of the user. *)
LEMMA DepartureSpoken ==
  ASSUME CoreInv, NEW s \in DOMAIN userInfo, PurgeUser(s)
  PROVE  DepartureMessages(s) \in Seq(Spoken)
<1> DEFINE rooms == GetUserRooms(s)
           messages == [k \in DOMAIN rooms |-> Notice("left", rooms[k], roomMap'[rooms[k]])]
<1>1. rooms \in Seq(Room) /\ rooms = userInfo[s].rooms
  BY Getters DEF CoreInv, GetUserRooms
<1>2. Len(rooms) \in Nat /\ DOMAIN rooms = 1 .. Len(rooms) /\ \A k \in DOMAIN rooms : rooms[k] \in Room
  BY <1>1
<1>3. \A k \in DOMAIN rooms : rooms[k] \in DOMAIN roomMap
  BY <1>1 DEF CoreInv, RegistryInv, NoLostMember, ToSet
<1>4. roomMap' = RoomsWithout(s, ToSet(rooms))
  BY <1>1 DEF PurgeUser
<1>5. \A r \in DOMAIN roomMap :
         /\ r \in DOMAIN roomMap'
         /\ roomMap'[r] \in Seq(Socket) /\ IsInjective(roomMap'[r])
         /\ ToSet(roomMap'[r]) \subseteq ToSet(roomMap[r])
  <2>1. \A r \in DOMAIN roomMap : roomMap[r] \in Seq(Socket) /\ IsInjective(roomMap[r])
    BY DEF CoreInv, RegistryInv, RegistryTypeOK, NoDuplicates
  <2> QED BY <1>4, <2>1, EraseFirstProperties DEF RoomsWithout
<1>6. DepartureMessages(s) = messages
  BY <1>4 DEF DepartureMessages
<1> HIDE DEF rooms
<1>7. \A r \in Room : r \in DOMAIN roomMap => Notice("left", r, roomMap'[r]) \in Spoken
  BY <1>5, RoomSpoken DEF GetRoomUsers
<1>8. messages \in [1 .. Len(rooms) -> Spoken]
  BY <1>2, <1>3, <1>7
<1> HIDE DEF messages
<1>9. messages \in Seq(Spoken)
  BY <1>2, <1>8
<1> QED BY <1>6, <1>9

(* The auth server's socket is in no room that could hear of its end. *)
LEMMA LinkLeavesSilently ==
  ASSUME CoreInv
  PROVE  DepartureMessages(AuthLink) = <<>>
<1>1. GetUserRooms(AuthLink) = <<>>
  BY DEF CoreInv, UsersAreConnections, GetUserRooms
<1> QED BY <1>1 DEF DepartureMessages

(* What the handling of a reply sends. *)
LEMMA ReplySpoken ==
  ASSUME CoreInv, NEW reply, HandleReply(reply), reply.what \in ReplyKinds
  PROVE  sent' \in Seq(Spoken)
<1>1. sent' = ReplyMessages(reply)
  BY DEF HandleReply, Finish
<1>2. reply.what \in MessageKinds
  BY DEF MessageKinds
<1>3. CASE IsActive(reply.id)
  BY <1>1, <1>2, <1>3, PersonalSpoken DEF ReplyMessages, IsActive, Reachable
<1>4. CASE ~IsActive(reply.id)
  BY <1>1, <1>4 DEF ReplyMessages
<1> QED BY <1>3, <1>4

-----------------------------------------------------------------------------
(* What a visit to a client sends. *)
LEMMA VisitSpoken ==
  ASSUME CoreInv, NEW s \in Socket, ClientVisit(s)
  PROVE  sent' \in Seq(Spoken)
<1> DEFINE Said == sent' \in Seq(Spoken)
<1>1. RegistryInv
  BY DEF CoreInv
<1>2. Visiting(s) /\ s \in Client /\ IsActive(s) /\ s \in DOMAIN userInfo
  <2>1. Visiting(s) /\ s \in Client
    BY DEF ClientVisit, ChatPacket, JoinCommand, LeaveCommand, NickCommand, HelpCommand,
           UnknownCommand, AccountCommand, ReplyPacket, ClientDisconnect, Receive
  <2>2. IsActive(s)
    BY <2>1, VisitedIsActive DEF CoreInv
  <2> QED BY <2>1, <2>2, ActiveIsUser
<1>3. \A what \in MessageKinds : \A t \in {s, AuthLink} : <<Personal(what, t)>> \in Seq(Spoken)
  BY <1>2, PersonalSpoken DEF Reachable, IsActive
<1>4. <<>> \in Seq(Spoken)
  OBVIOUS
<1>5. \A p, q \in Seq(Spoken) : p \o q \in Seq(Spoken)
  OBVIOUS
<1>6. ASSUME NEW messages, NEW failing, messages \in Seq(Spoken), Finish(messages, failing)
      PROVE  Said
  BY <1>6 DEF Finish
<1>7. ASSUME RefuseUnauthed(s) \/ RefuseRoom(s) \/ RefuseNameless(s) \/ JoinBlank(s) \/ LeaveBlank(s)
      PROVE  Said
  BY <1>3, <1>4, <1>6, <1>7
     DEF RefuseUnauthed, RefuseRoom, RefuseNameless, JoinBlank, LeaveBlank, SendAndSkip, MessageKinds
<1>8. CASE ChatPacket(s)
  <2>1. ChatHint(s) \in Seq(Spoken)
    BY <1>3, <1>4 DEF ChatHint, MessageKinds
  <2>2. ChatMessages(s) \in Seq(Spoken)
    <3>1. CASE ~IsUserAuthed(s)
      BY <1>3, <3>1 DEF ChatMessages, MessageKinds
    <3>2. CASE IsUserAuthed(s)
      <4> DEFINE rooms == GetUserRooms(s)
                 chat == [k \in DOMAIN rooms |-> Notice("chat", rooms[k], GetRoomUsers(rooms[k]))]
      <4>1. chat \in Seq(Spoken)
        BY <1>8, RoomsSpoken DEF ChatPacket, registryVars
      <4>2. ChatMessages(s) = chat \o ChatHint(s)
        BY <3>2 DEF ChatMessages
      <4> HIDE DEF chat
      <4> QED BY <1>5, <2>1, <4>1, <4>2
    <3> QED BY <3>1, <3>2
  <2> QED BY <1>6, <1>8, <2>2 DEF ChatPacket
<1>9. CASE JoinCommand(s)
  <2>1. ASSUME NEW r \in Room, JoinRoom(s, r) PROVE Said
    <3> DEFINE joined == <<Notice("joined", r, GetRoomUsers(r))>>
    <3>1. ToSet(GetRoomUsers(r)) \subseteq ToSet(GetRoomUsers(r)')
      <4>1. CASE roomMap' = roomMap
        BY <4>1 DEF GetRoomUsers
      <4>2. CASE AddToRoom(s, r) /\ CanAdd(s, r)
        <5>1. GetRoomUsers(r)' = Append(GetRoomUsers(r), s)
          BY <4>2 DEF AddToRoom, Put, GetRoomUsers
        <5> QED BY <1>1, <5>1, RoomVector, AppendElements
      <4>3. AddToRoom(s, r) \/ UNCHANGED registryVars
        BY <2>1 DEF JoinRoom
      <4> QED BY <4>1, <4>2, <4>3 DEF AddToRoom, registryVars
    <3>2. joined \in Seq(Spoken)
      BY <1>1, <3>1, RoomVector, RoomSpoken
    <3>3. joined \o <<Personal("youJoined", s)>> \in Seq(Spoken)
      BY <1>3, <1>5, <3>2 DEF MessageKinds
    <3>4. \E failing : SendAndStop(joined) \/ Finish(joined \o <<Personal("youJoined", s)>>, failing)
      BY <2>1 DEF JoinRoom
    <3> HIDE DEF joined
    <3> QED BY <1>6, <3>2, <3>3, <3>4 DEF SendAndStop
  <2> QED BY <1>7, <1>9, <2>1 DEF JoinCommand
<1>10. CASE LeaveCommand(s)
  <2>1. ASSUME NEW r \in Room, LeaveRoom(s, r) PROVE Said
    <3> DEFINE left == <<Notice("left", r, RoomsWithout(s, {r})[r])>>
    <3>1. roomMap' = RoomsWithout(s, {r}) /\ r \in DOMAIN roomMap
      BY <1>1, <1>2, <2>1 DEF LeaveRoom, RemoveFromRoom, IsInRoom, GetUserRooms, RegistryInv, NoLostMember
    <3>2. /\ GetRoomUsers(r)' = RoomsWithout(s, {r})[r]
          /\ RoomsWithout(s, {r})[r] = EraseFirst(GetRoomUsers(r), s)
      BY <3>1 DEF RoomsWithout, GetRoomUsers
    <3>3. left \in Seq(Spoken)
      BY <1>1, <3>2, RoomVector, EraseFirstProperties, RoomSpoken
    <3>4. PICK failing \in SendFailures, what \in {"youLeft", "untyped"} :
             SendAndStop(left) \/ Finish(left \o <<Personal(what, s)>>, failing)
      BY <2>1 DEF LeaveRoom
    <3> HIDE DEF left
    <3>5. left \o <<Personal(what, s)>> \in Seq(Spoken)
      BY <1>3, <1>5, <3>3 DEF MessageKinds
    <3> QED BY <1>6, <3>3, <3>4, <3>5 DEF SendAndStop
  <2>2. ASSUME NEW r \in Room, LeaveOtherRoom(s, r) PROVE Said
    BY <1>3, <1>6, <2>2 DEF LeaveOtherRoom, MessageKinds
  <2> QED BY <1>7, <1>10, <2>1, <2>2 DEF LeaveCommand
<1>11. CASE NickCommand(s)
  <2>1. CASE NickBlank(s)
    BY <1>3, <2>1 DEF NickBlank, SendAndStop, SendAndSkip, MessageKinds
  <2>2. ASSUME NEW n \in Name, NickName(s, n) PROVE Said
    <3>1. roomMap' = roomMap
      BY <2>2 DEF NickName, SetUsername
    <3>2. RenameMessages(s) \in Seq(Spoken)
      BY <1>3, <3>1, RoomsSpoken DEF RenameMessages, MessageKinds
    <3> QED BY <1>6, <2>2, <3>2 DEF NickName
  <2> QED BY <1>7, <1>11, <2>1, <2>2 DEF NickCommand
<1>12. CASE HelpCommand(s) \/ UnknownCommand(s)
  BY <1>3, <1>4, <1>6, <1>12 DEF HelpCommand, UnknownCommand, MessageKinds
<1>13. CASE AccountCommand(s)
  BY <1>3, <1>6, <1>13 DEF AccountCommand, AccountBlank, ForwardAccount, MessageKinds
<1>14. CASE ClientDisconnect(s)
  BY <1>2, <1>14, DepartureSpoken DEF ClientDisconnect, SendAndSkip
<1>15. CASE ReplyPacket(s)
  BY <1>15, ReplySpoken, ChatServerAssumption DEF ReplyPacket
<1> QED BY <1>8, <1>9, <1>10, <1>11, <1>12, <1>13, <1>14, <1>15 DEF ClientVisit

(* What the relay of the auth server's reply sends. *)
LEMMA AuthReplySpoken ==
  ASSUME CoreInv, AuthReply
  PROVE  sent' \in Seq(Spoken)
<1>1. Head(replies) \in Reply /\ HandleReply(Head(replies))
  BY ReplyInTurn DEF AuthReply
<1> QED BY <1>1, ReplySpoken DEF Reply

(* RoomTrafficIsPrivate, message by message. *)
AllPrivate == \A k \in DOMAIN sent : Private(sent[k])

(* Every step keeps it. *)
LEMMA PrivateNext ==
  ASSUME CoreInv, AllPrivate, [Next]_vars
  PROVE  AllPrivate'
<1>1. CASE sent' \in Seq(Spoken)
  BY <1>1 DEF Spoken, AllPrivate
<1>2. CASE sent' = <<>>
  BY <1>2 DEF AllPrivate
<1>3. CASE UNCHANGED <<sent, roomMap>>
  BY <1>3 DEF AllPrivate, Private, GetRoomUsers
<1>4. CASE Select \/ LinkDisconnect \/ AcceptFails \/ NothingToAccept
  BY <1>2, <1>4, LinkLeavesSilently DEF Select, LinkDisconnect, AcceptFails, NothingToAccept
<1>5. ASSUME NEW s \in Socket, ReceiveError(s) PROVE AllPrivate'
  BY <1>2, <1>5 DEF ReceiveError, SendAndStop
<1>6. ASSUME NEW s \in Socket, Accept(s) PROVE AllPrivate'
  <2>1. sent' = <<Personal("welcome", s)>>
    BY <1>6 DEF Accept
  <2>2. DOMAIN sent' = {1} /\ sent'[1].room = NoRoom
    BY <2>1 DEF Personal, Notice
  <2> QED BY <2>2 DEF AllPrivate, Private
<1>7. CASE Peers
  BY <1>3, <1>7 DEF Peers, ClientConnects, LinkFault, AuthServerAnswers, ClientSends, ClientFault,
                    LoopUnchanged, registryVars
<1>8. CASE SelectTimeout \/ Stopped \/ UNCHANGED vars
  BY <1>3, <1>8 DEF SelectTimeout, Stopped, vars, registryVars
<1> QED
  BY <1>1, <1>4, <1>5, <1>6, <1>7, <1>8, VisitSpoken, AuthReplySpoken DEF Next, Server

(* RoomTrafficIsPrivate: chat text, new nicknames and the notices of those *)
(* who come and go reach present members of their room only, each at most  *)
(* once, although the notices are composed from vectors read before or     *)
(* after the registry's call.                                              *)
THEOREM RoomsArePrivate == Spec => []RoomTrafficIsPrivate
<1>1. Init => AllPrivate
  BY DEF Init, AllPrivate
<1>2. CoreInv /\ AllPrivate /\ [Next]_vars => AllPrivate'
  BY PrivateNext
<1>3. AllPrivate => RoomTrafficIsPrivate
  BY DEF AllPrivate, Private, RoomTrafficIsPrivate
<1> QED BY <1>1, <1>2, <1>3, CoreInvHolds, PTL DEF Spec

-----------------------------------------------------------------------------
(* Why a send fails: one of the recipients of the last message is dead, or *)
(* its peer has closed.                                                    *)
LEMMA FailureHasCause ==
  ASSUME NetOK, NEW messages \in Seq(Spoken), messages # <<>>,
         NEW failing \in SendFailures, Fails(messages, failing)
  PROVE  \E t \in Reachable : wire[t] # "open"
<1>1. Len(messages) \in DOMAIN messages
  OBVIOUS
<1>2. PICK t \in ToSet(messages[Len(messages)].to) : t \in failing
  BY DEF Fails
<1>3. t \in Reachable
  BY <1>1, <1>2 DEF Spoken
<1>4. wire[t] # "open"
  BY <1>2 DEF SendFailures, Broken
<1> QED BY <1>3, <1>4

(* A visit to a client that ends the service does so because a send of     *)
(* that very visit has failed; nobody is erased from the vector.           *)
LEMMA ClientVisitDown ==
  ASSUME CoreInv, NEW s \in Socket, ClientVisit(s), phase' = "down"
  PROVE  /\ sent' # <<>> /\ \E failing \in SendFailures : Fails(sent', failing)
         /\ UNCHANGED <<activeConnections, wire>>
<1> DEFINE Failed == sent' # <<>> /\ \E failing \in SendFailures : Fails(sent', failing)
<1>1. Visiting(s)
  BY ClientVisitScan
<1>2. phase = "scan"
  BY <1>1 DEF Visiting
<1>3. ASSUME NEW messages, NEW failing \in SendFailures, Finish(messages, failing) PROVE Failed
  BY <1>2, <1>3 DEF Finish, VisitDone
<1>4. ASSUME NEW messages, SendAndSkip(messages) PROVE FALSE
  BY <1>2, <1>4 DEF SendAndSkip, VisitSkipped
<1>5. ~Crash
  BY DEF Crash
<1>6. ASSUME NEW messages, NEW failing \in SendFailures, messages # <<>>,
             Fails(messages, failing), SendAndStop(messages)
      PROVE  Failed
  BY <1>6 DEF SendAndStop
<1>7. CASE ChatPacket(s)
  BY <1>3, <1>7 DEF ChatPacket, Receive
<1>8. ASSUME RefuseUnauthed(s) \/ RefuseRoom(s) \/ RefuseNameless(s) \/ JoinBlank(s) \/ LeaveBlank(s)
      PROVE  Failed
  BY <1>3, <1>4, <1>5, <1>8
     DEF RefuseUnauthed, RefuseRoom, RefuseNameless, JoinBlank, LeaveBlank
<1>9. CASE JoinCommand(s)
  <2>1. ASSUME NEW r \in Room, JoinRoom(s, r) PROVE Failed
    <3> DEFINE joined == <<Notice("joined", r, GetRoomUsers(r))>>
    <3>1. joined # <<>>
      OBVIOUS
    <3>2. PICK failing \in SendFailures :
             \/ Fails(joined, failing) /\ SendAndStop(joined)
             \/ Finish(joined \o <<Personal("youJoined", s)>>, failing)
      BY <2>1 DEF JoinRoom
    <3> HIDE DEF joined
    <3> QED BY <1>3, <1>6, <3>1, <3>2
  <2> QED BY <1>8, <1>9, <2>1 DEF JoinCommand, Receive
<1>10. CASE LeaveCommand(s)
  <2>1. ASSUME NEW r \in Room, LeaveRoom(s, r) PROVE Failed
    <3> DEFINE left == <<Notice("left", r, RoomsWithout(s, {r})[r])>>
    <3>1. left # <<>>
      OBVIOUS
    <3>2. PICK failing \in SendFailures, what \in {"youLeft", "untyped"} :
             \/ Fails(left, failing) /\ SendAndStop(left)
             \/ Finish(left \o <<Personal(what, s)>>, failing)
      BY <2>1 DEF LeaveRoom
    <3> HIDE DEF left
    <3> QED BY <1>3, <1>6, <3>1, <3>2
  <2>2. ASSUME NEW r \in Room, LeaveOtherRoom(s, r) PROVE Failed
    BY <1>3, <2>2 DEF LeaveOtherRoom
  <2> QED BY <1>8, <1>10, <2>1, <2>2 DEF LeaveCommand, Receive
<1>11. CASE NickCommand(s)
  <2>1. ASSUME NickBlank(s) PROVE Failed
    <3> DEFINE usage == <<Personal("nickUsage", s)>>
    <3>1. usage # <<>>
      OBVIOUS
    <3>2. PICK failing \in SendFailures :
             \/ Fails(usage, failing) /\ SendAndStop(usage)
             \/ SendAndSkip(usage)
      BY <2>1 DEF NickBlank
    <3> HIDE DEF usage
    <3> QED BY <1>4, <1>6, <3>1, <3>2
  <2>2. ASSUME NEW n \in Name, NickName(s, n) PROVE Failed
    BY <1>3, <2>2 DEF NickName
  <2> QED BY <1>8, <1>11, <2>1, <2>2 DEF NickCommand, Receive
<1>12. CASE HelpCommand(s)
  BY <1>3, <1>12 DEF HelpCommand, Receive
<1>13. CASE UnknownCommand(s)
  BY <1>2, <1>13 DEF UnknownCommand, Finish, VisitDone
<1>14. CASE AccountCommand(s)
  BY <1>3, <1>14 DEF AccountCommand, AccountBlank, ForwardAccount, Receive
<1>15. CASE ClientDisconnect(s)
  BY <1>4, <1>15 DEF ClientDisconnect
<1>16. CASE ReplyPacket(s)
  <2>1. \E messages : \E failing \in SendFailures : Finish(messages, failing)
    BY <1>16 DEF ReplyPacket, HandleReply
  <2>2. UNCHANGED <<activeConnections, wire>>
    BY <1>16 DEF ReplyPacket, Receive
  <2> QED BY <1>3, <2>1, <2>2
<1> QED
  BY <1>7, <1>9, <1>10, <1>11, <1>12, <1>13, <1>14, <1>15, <1>16 DEF ClientVisit

(* OutageHasLivingCause, with the sockets that can be its cause named. *)
OutageCause == phase = "down" => \E t \in Reachable : wire[t] # "open"

(* Every step keeps it: once down, nothing changes any more. *)
LEMMA OutageNext ==
  ASSUME CoreInv, NetOK, OutageCause, [Next]_vars
  PROVE  OutageCause'
<1> SUFFICES ASSUME phase' = "down" PROVE OutageCause'
  BY DEF OutageCause
<1>1. CASE UNCHANGED vars
  BY <1>1 DEF vars, netVars, loopVars, OutageCause, Reachable
<1>2. CASE Select \/ AcceptFails \/ NothingToAccept \/ LinkDisconnect
  BY <1>2 DEF Select, AcceptFails, NothingToAccept, BackToSelect, LinkDisconnect, VisitSkipped,
              Crash, Visiting
<1>3. ASSUME NEW s \in Socket, ClientVisit(s) PROVE OutageCause'
  BY <1>3, ClientVisitDown, VisitSpoken, FailureHasCause DEF OutageCause, Reachable
<1>4. CASE AuthReply
  <2>1. phase = "scan" /\ UNCHANGED <<activeConnections, wire>>
    BY <1>4 DEF AuthReply, Visiting, netVars
  <2>2. sent' # <<>> /\ \E failing \in SendFailures : Fails(sent', failing)
    <3>1. PICK failing \in SendFailures : Finish(ReplyMessages(Head(replies)), failing)
      BY <1>4 DEF AuthReply, HandleReply
    <3> QED BY <2>1, <3>1 DEF Finish, VisitDone
  <2> QED BY <1>4, <2>1, <2>2, AuthReplySpoken, FailureHasCause DEF OutageCause, Reachable
<1>5. ASSUME NEW s \in Socket, ReceiveError(s) PROVE OutageCause'
  <2>1. IsActive(s) /\ wire[s] = "aborted" /\ UNCHANGED <<activeConnections, wire>>
    BY <1>5, VisitedIsActive DEF ReceiveError, CoreInv, netVars
  <2> QED BY <2>1 DEF OutageCause, Reachable, IsActive
<1>6. ASSUME NEW s \in Socket, Accept(s) PROVE FALSE
  BY <1>6 DEF Accept, BackToSelect
<1>7. CASE Peers
  BY <1>7 DEF Peers, ClientConnects, LinkFault, AuthServerAnswers, ClientSends, ClientFault,
              LoopUnchanged, loopVars, Halted
<1>8. CASE SelectTimeout \/ Stopped
  BY <1>1, <1>8 DEF SelectTimeout, Stopped
<1> QED BY <1>1, <1>2, <1>3, <1>4, <1>5, <1>6, <1>7, <1>8 DEF Next, Server

(* OutageHasLivingCause: the service ends only by a connection that the    *)
(* server still counts as active, or by the auth server's.  A client that  *)
(* has been removed is in no room's vector and can end nothing.            *)
THEOREM TheGoneEndNothing == Spec => []OutageHasLivingCause
<1>1. Init => OutageCause
  BY DEF Init, OutageCause
<1>2. CoreInv /\ NetOK /\ OutageCause /\ [Next]_vars => OutageCause'
  BY OutageNext
<1>3. OutageCause => OutageHasLivingCause
  BY DEF OutageCause, Reachable, OutageHasLivingCause
<1> QED BY <1>1, <1>2, <1>3, ReadyHolds, PTL DEF Spec

-----------------------------------------------------------------------------
(* What MembershipIsAnnounced asks of one room. *)
Told(r) ==
    LET old == ToSet(GetRoomUsers(r))
        new == ToSet(GetRoomUsers(r)')
    IN  /\ old \subseteq new \/ Announced(sent', "left", r, new)
        /\ new \subseteq old \/ Announced(sent', "joined", r, old)

LEMMA NothingToTell ==
  ASSUME roomMap' = roomMap
  PROVE  \A r : Told(r)
BY DEF Told, GetRoomUsers

(* The first message of a visit announces. *)
LEMMA FirstAnnounces ==
  ASSUME NEW what, NEW r, NEW to, NEW others \in Seq(Message),
         \/ sent' = <<Notice(what, r, to)>>
         \/ sent' = <<Notice(what, r, to)>> \o others,
         Notice(what, r, to) \in Message
  PROVE  Announced(sent', what, r, ToSet(to))
<1> DEFINE first == Notice(what, r, to)
<1>1. first.what = what /\ first.room = r /\ first.to = to
  BY DEF Notice
<1> HIDE DEF first
<1>2. first \in Message /\ (sent' = <<first>> \/ sent' = <<first>> \o others)
  BY DEF first
<1>3. 1 \in DOMAIN sent' /\ sent'[1] = first
  BY <1>2
<1> QED BY <1>1, <1>3 DEF Announced

LEMMA JoinTold ==
  ASSUME CoreInv, NEW s \in Client, NEW q \in Room, JoinRoom(s, q), NEW r \in Room
  PROVE  Told(r)
<1>1. CASE roomMap' = roomMap
  BY <1>1, NothingToTell
<1>2. CASE roomMap' # roomMap
  <2>1. /\ AddToRoom(s, q) /\ CanAdd(s, q)
        /\ sent' = <<Notice("joined", q, GetRoomUsers(q))>> \o <<Personal("youJoined", s)>>
    BY <1>2 DEF JoinRoom, AddToRoom, Finish, registryVars
  <2>2. GetRoomUsers(q) \in Seq(Socket) /\ s \in Socket
    BY RoomVector DEF CoreInv, Client
  <2>3. GetRoomUsers(q)' = Append(GetRoomUsers(q), s)
    BY <2>1 DEF AddToRoom, Put, GetRoomUsers
  <2>4. ToSet(GetRoomUsers(q)) \subseteq ToSet(GetRoomUsers(q)')
    BY <2>2, <2>3, AppendElements
  <2>5. r # q => GetRoomUsers(r)' = GetRoomUsers(r)
    BY <2>1 DEF AddToRoom, Put, GetRoomUsers
  <2>6. Announced(sent', "joined", q, ToSet(GetRoomUsers(q)))
    <3> DEFINE others == <<Personal("youJoined", s)>>
    <3>1. others \in Seq(Message) /\ Notice("joined", q, GetRoomUsers(q)) \in Message
      BY <2>2 DEF Personal, Notice, Message, MessageKinds
    <3>2. sent' = <<Notice("joined", q, GetRoomUsers(q))>> \o others
      BY <2>1
    <3> HIDE DEF others
    <3> QED BY <3>1, <3>2, FirstAnnounces
  <2> QED BY <2>4, <2>5, <2>6 DEF Told
<1> QED BY <1>1, <1>2

LEMMA LeaveTold ==
  ASSUME CoreInv, NEW s \in Client, s \in DOMAIN userInfo, NEW q \in Room, LeaveRoom(s, q),
         NEW r \in Room
  PROVE  Told(r)
<1> DEFINE rest == RoomsWithout(s, {q})[q]
<1>1. roomMap' = RoomsWithout(s, {q}) /\ q \in DOMAIN roomMap
  BY DEF LeaveRoom, RemoveFromRoom, IsInRoom, GetUserRooms, CoreInv, RegistryInv, NoLostMember
<1>2. rest = EraseFirst(GetRoomUsers(q), s) /\ GetRoomUsers(q)' = rest
  BY <1>1 DEF RoomsWithout, GetRoomUsers
<1>3. rest \in Seq(Socket) /\ ToSet(rest) \subseteq ToSet(GetRoomUsers(q)) /\ s \in Socket
  <2>1. GetRoomUsers(q) \in Seq(Socket) /\ IsInjective(GetRoomUsers(q)) /\ s \in Socket
    BY RoomVector DEF CoreInv, Client
  <2> HIDE DEF rest
  <2>2. /\ EraseFirst(GetRoomUsers(q), s) \in Seq(Socket)
        /\ ToSet(EraseFirst(GetRoomUsers(q), s)) = ToSet(GetRoomUsers(q)) \ {s}
    BY <2>1, EraseFirstProperties
  <2> QED BY <1>2, <2>1, <2>2
<1>4. r # q => GetRoomUsers(r)' = GetRoomUsers(r)
  BY <1>1 DEF RoomsWithout, GetRoomUsers
<1>5. Announced(sent', "left", q, ToSet(rest))
  <2>1. PICK what \in {"youLeft", "untyped"} :
           \/ sent' = <<Notice("left", q, rest)>>
           \/ sent' = <<Notice("left", q, rest)>> \o <<Personal(what, s)>>
    BY DEF LeaveRoom, Finish, SendAndStop
  <2> HIDE DEF rest
  <2> DEFINE others == <<Personal(what, s)>>
  <2>2. others \in Seq(Message) /\ Notice("left", q, rest) \in Message
    BY <1>3 DEF Personal, Notice, Message, MessageKinds
  <2>3. sent' = <<Notice("left", q, rest)>> \/ sent' = <<Notice("left", q, rest)>> \o others
    BY <2>1
  <2> HIDE DEF others
  <2> QED BY <2>2, <2>3, FirstAnnounces
<1> HIDE DEF rest
<1> QED BY <1>2, <1>3, <1>4, <1>5 DEF Told

LEMMA DepartureTold ==
  ASSUME CoreInv, NEW s \in DOMAIN userInfo, PurgeUser(s), sent' = DepartureMessages(s),
         NEW r \in Room
  PROVE  Told(r)
<1> DEFINE rooms == GetUserRooms(s)
<1>1. rooms = userInfo[s].rooms /\ roomMap' = RoomsWithout(s, ToSet(rooms))
  BY DEF PurgeUser, GetUserRooms
<1>2. sent' = [k \in DOMAIN rooms |-> Notice("left", rooms[k], roomMap'[rooms[k]])]
  BY <1>1 DEF DepartureMessages
<1>3. \A k \in DOMAIN rooms : rooms[k] \in DOMAIN roomMap
  BY <1>1 DEF CoreInv, RegistryInv, NoLostMember, ToSet
<1> HIDE DEF rooms
<1>4. CASE r \notin ToSet(rooms)
  <2>1. GetRoomUsers(r)' = GetRoomUsers(r)
    BY <1>1, <1>4 DEF RoomsWithout, GetRoomUsers
  <2> QED BY <2>1 DEF Told
<1>5. CASE r \in ToSet(rooms)
  <2>1. PICK k \in DOMAIN rooms : rooms[k] = r
    BY <1>5 DEF ToSet
  <2>2. r \in DOMAIN roomMap /\ roomMap'[r] = EraseFirst(GetRoomUsers(r), s)
    BY <1>1, <1>3, <1>5, <2>1 DEF RoomsWithout, GetRoomUsers
  <2>3. GetRoomUsers(r)' = roomMap'[r]
    BY <1>1, <2>2 DEF RoomsWithout, GetRoomUsers
  <2>4. ToSet(GetRoomUsers(r)') \subseteq ToSet(GetRoomUsers(r))
    BY <2>2, <2>3, RoomVector, EraseFirstProperties DEF CoreInv
  <2>5. Announced(sent', "left", r, ToSet(GetRoomUsers(r)'))
    <3>1. k \in DOMAIN sent' /\ sent'[k] = Notice("left", r, GetRoomUsers(r)')
      BY <1>2, <2>1, <2>3
    <3> QED BY <3>1 DEF Announced, Notice
  <2> QED BY <2>4, <2>5 DEF Told
<1> QED BY <1>4, <1>5

LEMMA EveryoneTold ==
  ASSUME CoreInv, [Next]_vars
  PROVE  \A r \in Room : Told(r)
<1> DEFINE Quiet == roomMap' = roomMap
<1>1. Quiet => \A r \in Room : Told(r)
  BY NothingToTell
<1>2. CASE Select \/ AcceptFails \/ NothingToAccept \/ AuthReply
  BY <1>1, <1>2 DEF Select, AcceptFails, NothingToAccept, AuthReply, HandleReply,
                    AddAuthedUser, registryVars
<1>6. CASE LinkDisconnect
  <2>1. AuthLink \in Socket \ DOMAIN userInfo /\ PurgeUser(AuthLink) /\ RegistryInv
    BY <1>6, ChatServerAssumption DEF LinkDisconnect, CoreInv, UsersAreConnections
  <2> QED BY <1>1, <2>1, MisuseInv
<1>3. ASSUME NEW s \in Socket, ReceiveError(s) \/ Accept(s) PROVE Quiet
  BY <1>3 DEF ReceiveError, Accept, InitializeUser, registryVars
<1>4. CASE Peers \/ SelectTimeout \/ Stopped \/ UNCHANGED vars
  BY <1>1, <1>4 DEF Peers, ClientConnects, LinkFault, AuthServerAnswers, ClientSends, ClientFault,
                    LoopUnchanged, SelectTimeout, Stopped, vars, registryVars
<1>5. ASSUME NEW s \in Socket, ClientVisit(s), NEW r \in Room PROVE Told(r)
  <2>1. Visiting(s) /\ s \in Client
    BY <1>5 DEF ClientVisit, ChatPacket, JoinCommand, LeaveCommand, NickCommand, HelpCommand,
                UnknownCommand, AccountCommand, ReplyPacket, ClientDisconnect, Receive
  <2>2. s \in DOMAIN userInfo
    BY <2>1, VisitedIsActive, ActiveIsUser DEF CoreInv
  <2>3. CASE ChatPacket(s) \/ HelpCommand(s) \/ UnknownCommand(s) \/ AccountCommand(s)
    BY <1>1, <2>3 DEF ChatPacket, HelpCommand, UnknownCommand, AccountCommand, registryVars
  <2>4. CASE JoinCommand(s)
    <3>1. Quiet \/ \E q \in Room : JoinRoom(s, q)
      BY <2>4 DEF JoinCommand, RefuseUnauthed, RefuseRoom, RefuseNameless, JoinBlank, registryVars
    <3> QED BY <1>1, <2>1, <3>1, JoinTold
  <2>5. CASE LeaveCommand(s)
    <3>1. Quiet \/ \E q \in Room : LeaveRoom(s, q)
      BY <2>5 DEF LeaveCommand, RefuseUnauthed, RefuseRoom, LeaveBlank, LeaveOtherRoom,
                  RemoveFromRoom, registryVars
    <3> QED BY <1>1, <2>1, <2>2, <3>1, LeaveTold
  <2>6. CASE NickCommand(s)
    BY <1>1, <2>6 DEF NickCommand, RefuseUnauthed, NickBlank, NickName, SetUsername, registryVars
  <2>7. CASE ClientDisconnect(s)
    BY <2>2, <2>7, DepartureTold DEF ClientDisconnect, SendAndSkip
  <2>8. CASE ReplyPacket(s)
    BY <1>1, <2>8 DEF ReplyPacket, HandleReply, AddAuthedUser, registryVars
  <2> QED BY <1>5, <2>3, <2>4, <2>5, <2>6, <2>7, <2>8 DEF ClientVisit
<1> QED BY <1>1, <1>2, <1>3, <1>4, <1>5, <1>6 DEF Next, Server

(* MembershipIsAnnounced: whichever handler changes who is in a room, by   *)
(* command or by a connection's end, everyone else in it is told in the    *)
(* same visit, even if that visit ends the service.                        *)
THEOREM ChangesAreAnnounced == Spec => MembershipIsAnnounced
<1>1. CoreInv /\ [Next]_vars => [\A r \in Room : Told(r)]_vars
  BY EveryoneTold
<1>2. CoreInv /\ [Next]_vars =>
         [\A r \in Room :
             LET old == ToSet(GetRoomUsers(r))
                 new == ToSet(GetRoomUsers(r)')
             IN  /\ old \subseteq new \/ Announced(sent', "left", r, new)
                 /\ new \subseteq old \/ Announced(sent', "joined", r, old)]_vars
  BY <1>1 DEF Told
<1> QED BY <1>2, CoreInvInit, CoreInvNext, PTL DEF Spec, MembershipIsAnnounced
=============================================================================
