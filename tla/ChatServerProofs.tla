-------------------------- MODULE ChatServerProofs --------------------------
(***************************************************************************)
(* Proofs about ChatServer, for every set of clients, rooms and nicknames  *)
(* and every bound: the loop uses the registry as its contract allows and  *)
(* therefore inherits what SessionRegistryProofs shows of it, only         *)
(* entitled users are in rooms, and no connection inherits a login.  Then  *)
(* what the visits send and what the scan relies on: the answer to a login *)
(* goes to one who sent a login, recv() and accept() are called only when  *)
(* they return at once, and every variable keeps its type.                 *)
(***************************************************************************)
EXTENDS ChatServer, SessionRegistryProofs, FiniteSetTheorems, TLAPS

-----------------------------------------------------------------------------
(* The inductive invariant.                                                *)

(* The scan indexes a vector of distinct sockets whose handles are open. *)
ConnectionsOK ==
    /\ next \in Nat \ {0}
    /\ activeConnections \in Seq(Socket)
    /\ handles \subseteq Socket /\ AuthLink \in handles
    /\ ToSet(activeConnections) \subseteq handles

(* A client sent such a reply about s. *)
Heard(s, what) == [what |-> what, id |-> s] \in rumours

(* A login under way belongs to a connection that asked for it, and so     *)
(* does an authorisation, unless a client's packet named the connection.   *)
(* Both keep their handles, so that no new connection is one of them.      *)
LoginsWereAsked ==
    /\ asked \subseteq handles \cap Client
    /\ rumours \subseteq [what : ReplyKinds, id : handles]
    /\ \A s \in ToSet(authedUsers) : s \in asked \/ Heard(s, "loggedIn")
    /\ requests \in Seq(Request)
    /\ replies \in Seq(Reply)
    /\ \A request \in ToSet(requests) : request.kind = "login" => request.id \in asked
    /\ \A reply \in ToSet(replies) : reply.what \in Answers("login") => reply.id \in asked

CoreInv ==
    /\ RegistryInv
    /\ ConnectionsOK
    /\ UsersAreConnections
    /\ MembersAreEntitled
    /\ LoginsWereAsked

(* The socket being visited is active and was ready. *)
LEMMA VisitedIsActive ==
  ASSUME ConnectionsOK, NEW s, Visiting(s)
  PROVE  /\ Index \in Unvisited /\ Index \in DOMAIN activeConnections
         /\ \A j \in Unvisited : Index <= j
         /\ s = activeConnections[Index] /\ s \in ready
         /\ s \in Socket /\ IsActive(s)
<1>1. Unvisited \in SUBSET (Nat \ {0}) /\ Unvisited # {}
  BY DEF Unvisited, Visiting, ConnectionsOK
<1>2. \E k \in Unvisited : \A j \in Unvisited : k <= j
  BY <1>1, LeastIndex
<1>3. Index \in Unvisited /\ \A j \in Unvisited : Index <= j
  BY <1>2 DEF Index
<1>4. Index \in DOMAIN activeConnections /\ activeConnections[Index] \in ready
  BY <1>3 DEF Unvisited, Selected, ConnectionsOK
<1> QED BY <1>3, <1>4 DEF Visiting, IsActive, ToSet, ConnectionsOK

SameConnections == UNCHANGED <<activeConnections, handles>>

Entitled(s) == IsActive(s) /\ IsUserAuthed(s) /\ GetUsername(s) # NoName

-----------------------------------------------------------------------------
(* What a step does to the registry and to the vector of connections: one  *)
(* of eight things, whatever else it does.                                 *)
Effect ==
    \/ UNCHANGED registryVars /\ SameConnections
    \/ \E s \in Client, r \in Room : Entitled(s) /\ AddToRoom(s, r) /\ SameConnections
    \/ \E s \in Client, r \in Room : IsActive(s) /\ RemoveFromRoom(s, r) /\ SameConnections
    \/ \E s \in Client, n \in Name : IsActive(s) /\ SetUsername(s, n) /\ SameConnections
    \/ \E s \in Socket :
          /\ IsActive(s) /\ AddAuthedUser(s) /\ SameConnections
          /\ s \in asked \/ Heard(s, "loggedIn")'
    \/ \E s \in Client :
          /\ IsActive(s) /\ PurgeUser(s)
          /\ activeConnections' = EraseFirst(activeConnections, s) /\ handles' = handles
    \/ /\ activeConnections' = EraseFirst(activeConnections, AuthLink) /\ handles' = handles
       /\ LinkPurge
    \/ \E s \in Client \ handles :
          /\ InitializeUser(s)
          /\ activeConnections' = Append(activeConnections, s)
          /\ handles' = handles \cup {s}

(* A reply, whoever it is from. *)
LEMMA ReplyEffect ==
  ASSUME CoreInv, NEW reply, HandleReply(reply), SameConnections,
         reply = [what |-> reply.what, id |-> reply.id],
         reply.what = "loggedIn" /\ IsActive(reply.id) => reply.id \in asked \/ reply \in rumours'
  PROVE  Effect
<1>1. CASE reply.what = "loggedIn" /\ IsActive(reply.id)
  <2>1. AddAuthedUser(reply.id)
    BY <1>1 DEF HandleReply
  <2>2. reply.id \in Socket
    BY <1>1 DEF IsActive, ToSet, CoreInv, ConnectionsOK
  <2>3. reply.id \in asked \/ Heard(reply.id, "loggedIn")'
    BY <1>1 DEF Heard
  <2> QED BY <1>1, <2>1, <2>2, <2>3 DEF Effect
<1>2. CASE ~(reply.what = "loggedIn" /\ IsActive(reply.id))
  BY <1>2 DEF HandleReply, Effect
<1> QED BY <1>1, <1>2

(* The packets of a client. *)
LEMMA PacketEffect ==
  ASSUME CoreInv, NEW s \in Socket, ClientVisit(s)
  PROVE  Effect
<1> USE DEF SameConnections
<1>1. CASE ChatPacket(s)
  BY <1>1 DEF ChatPacket, Receive, Effect
<1>2. CASE JoinCommand(s)
  <2>1. Visiting(s) /\ s \in Client /\ SameConnections
    BY <1>2 DEF JoinCommand, Receive
  <2>2. IsActive(s)
    BY <2>1, VisitedIsActive DEF CoreInv
  <2>3. \/ UNCHANGED registryVars
        \/ \E r \in Room : JoinRoom(s, r)
    BY <1>2 DEF JoinCommand, RefuseUnauthed, RefuseRoom, RefuseNameless, JoinBlank
  <2>4. ASSUME NEW r \in Room, JoinRoom(s, r)
        PROVE  UNCHANGED registryVars \/ (Entitled(s) /\ AddToRoom(s, r))
    BY <2>2, <2>4 DEF JoinRoom, Entitled
  <2> QED BY <2>1, <2>3, <2>4 DEF Effect
<1>3. CASE LeaveCommand(s)
  <2>1. Visiting(s) /\ s \in Client /\ SameConnections
    BY <1>3 DEF LeaveCommand, Receive
  <2>2. IsActive(s)
    BY <2>1, VisitedIsActive DEF CoreInv
  <2>3. \/ UNCHANGED registryVars
        \/ \E r \in Room : RemoveFromRoom(s, r)
    BY <1>3 DEF LeaveCommand, RefuseUnauthed, RefuseRoom, LeaveBlank, LeaveRoom, LeaveOtherRoom
  <2> QED BY <2>1, <2>2, <2>3 DEF Effect
<1>4. CASE NickCommand(s)
  <2>1. Visiting(s) /\ s \in Client /\ SameConnections
    BY <1>4 DEF NickCommand, Receive
  <2>2. IsActive(s)
    BY <2>1, VisitedIsActive DEF CoreInv
  <2>3. \/ UNCHANGED registryVars
        \/ \E n \in Name : SetUsername(s, n)
    BY <1>4 DEF NickCommand, RefuseUnauthed, NickBlank, NickName
  <2> QED BY <2>1, <2>2, <2>3 DEF Effect
<1>5. CASE HelpCommand(s) \/ UnknownCommand(s) \/ AccountCommand(s)
  BY <1>5 DEF HelpCommand, UnknownCommand, AccountCommand, Receive, Effect
<1>6. CASE ClientDisconnect(s)
  <2>1. IsActive(s)
    BY <1>6, VisitedIsActive DEF CoreInv, ClientDisconnect
  <2> QED BY <1>6, <2>1 DEF ClientDisconnect, HandlesAfterDisconnect, Effect
<1>7. CASE ReplyPacket(s)
  <2>1. SameConnections
    BY <1>7 DEF ReplyPacket, Receive
  <2>2. PICK what \in ClientReplies, id \in RepliesAbout :
           HandleReply([what |-> what, id |-> id]) /\ Overheard([what |-> what, id |-> id])
    BY <1>7 DEF ReplyPacket
  <2>3. IsActive(id) => [what |-> what, id |-> id] \in rumours'
    BY <2>2 DEF Overheard
  <2> QED BY <2>1, <2>2, <2>3, ReplyEffect
<1> QED BY <1>1, <1>2, <1>3, <1>4, <1>5, <1>6, <1>7 DEF ClientVisit

(* The next reply of the auth server, and whose login it answers. *)
LEMMA ReplyInTurn ==
  ASSUME CoreInv, HasPacket(AuthLink)
  PROVE  /\ Head(replies) \in Reply
         /\ Head(replies).what \in Answers("login") => Head(replies).id \in asked
<1>1. replies # <<>> /\ replies \in Seq(Reply)
  BY DEF HasPacket, Pending, CoreInv, LoginsWereAsked
<1>2. Head(replies) \in Reply
  BY <1>1, HeadTailProperties
<1>3. Head(replies) \in ToSet(replies)
  BY <1>1 DEF ToSet
<1>4. \A m \in ToSet(replies) : m.what \in Answers("login") => m.id \in asked
  BY DEF CoreInv, LoginsWereAsked
<1> QED BY <1>2, <1>3, <1>4

(* Every step of the specification. *)
LEMMA StepEffect ==
  ASSUME CoreInv, [Next]_vars
  PROVE  Effect
<1> USE DEF SameConnections
<1>1. CASE UNCHANGED vars
  BY <1>1 DEF vars, Effect
<1>2. CASE Select \/ AcceptFails \/ NothingToAccept
  BY <1>2 DEF Select, AcceptFails, NothingToAccept, Effect
<1>3. CASE LinkDisconnect
  <2>1. wire[AuthLink] \in {"closed", "reset"}
    BY <1>3 DEF LinkDisconnect, SaysGoodbye
  <2>2. AuthLink \notin DOMAIN userInfo
    BY DEF CoreInv, UsersAreConnections
  <2> QED BY <1>3, <2>1, <2>2 DEF LinkDisconnect, LinkPurge, Effect
<1>4. CASE AuthReply
  <2>1. HasPacket(AuthLink) /\ HandleReply(Head(replies)) /\ SameConnections
    BY <1>4 DEF AuthReply
  <2>2. /\ Head(replies) \in Reply
        /\ Head(replies).what \in Answers("login") => Head(replies).id \in asked
    BY <2>1, ReplyInTurn
  <2> QED BY <2>1, <2>2, ReplyEffect DEF Reply, Answers
<1>5. ASSUME NEW s \in Socket, ClientVisit(s) PROVE Effect
  BY <1>5, PacketEffect
<1>6. ASSUME NEW s \in Socket, ReceiveError(s) PROVE Effect
  BY <1>6 DEF ReceiveError, Effect
<1>7. ASSUME NEW s \in Socket, Accept(s) PROVE Effect
  BY <1>7 DEF Accept, Effect
<1>8. CASE Peers
  BY <1>8 DEF Peers, ClientConnects, LinkFault, AuthServerAnswers, ClientSends, ClientFault,
              LoopUnchanged, Effect
<1>9. CASE SelectTimeout \/ Stopped
  BY <1>1, <1>9 DEF SelectTimeout, Stopped
<1> QED
  BY <1>1, <1>2, <1>3, <1>4, <1>5, <1>6, <1>7, <1>8, <1>9 DEF Next, Server

(* An active client is a known user. *)
LEMMA ActiveIsUser ==
  ASSUME CoreInv, NEW s \in Client, IsActive(s)
  PROVE  s \in Socket /\ s \in DOMAIN userInfo
BY DEF CoreInv, UsersAreConnections, IsActive, Client

(* The auth server's socket has no rooms: its purge changes nothing. *)
LEMMA LinkPurgeIsIdle ==
  ASSUME CoreInv, LinkPurge
  PROVE  roomMap' = roomMap /\ userInfo' = userInfo /\ authedUsers' = authedUsers /\ RegistryInv'
<1>1. RegistryInv /\ AuthLink \in Socket \ DOMAIN userInfo /\ PurgeUser(AuthLink)
  BY ChatServerAssumption DEF CoreInv, LinkPurge
<1> QED BY <1>1, MisuseInv

(* Each of the eight is a call that the registry's contract allows, or the *)
(* purge that it forbids.                                                  *)
LEMMA EffectIsContractual ==
  ASSUME CoreInv, Effect
  PROVE  [RegistryNext \/ LinkPurge]_registryVars
BY ActiveIsUser DEF Effect, RegistryNext, Client

-----------------------------------------------------------------------------
(* What a step does to the loop's own variables. *)
ScanEffect ==
    \/ UNCHANGED loopVars
    \/ phase = "select" /\ phase' = "scan" /\ ready' = ReadyNow /\ next' = 1
         /\ count' = Cardinality(ReadyNow)
    \/ BackToSelect
    \/ \E s : Visiting(s) /\ (VisitDone \/ VisitSkipped \/ StopServing \/ Crash)

(* How a visit to a client ends. *)
LEMMA ClientVisitScan ==
  ASSUME NEW s, ClientVisit(s)
  PROVE  Visiting(s) /\ (VisitDone \/ VisitSkipped \/ StopServing \/ Crash)
<1>0. ASSUME NEW messages, NEW failing, Finish(messages, failing)
      PROVE  VisitDone \/ StopServing
  BY <1>0 DEF Finish
<1>1. CASE ChatPacket(s)
  BY <1>0, <1>1 DEF ChatPacket, Receive
<1>2. CASE JoinCommand(s)
  <2>1. Visiting(s)
    BY <1>2 DEF JoinCommand, Receive
  <2>2. ASSUME NEW r \in Room, JoinRoom(s, r) PROVE VisitDone \/ StopServing
    BY <1>0, <2>2 DEF JoinRoom, SendAndStop
  <2>3. CASE RefuseUnauthed(s) \/ RefuseRoom(s) \/ RefuseNameless(s) \/ JoinBlank(s)
    BY <1>0, <2>1, <2>3 DEF RefuseUnauthed, RefuseRoom, RefuseNameless, JoinBlank, SendAndSkip
  <2> QED BY <1>2, <2>1, <2>2, <2>3 DEF JoinCommand
<1>3. CASE LeaveCommand(s)
  <2>1. Visiting(s)
    BY <1>3 DEF LeaveCommand, Receive
  <2>2. ASSUME NEW r \in Room, LeaveRoom(s, r) \/ LeaveOtherRoom(s, r)
        PROVE  VisitDone \/ StopServing
    BY <1>0, <2>2 DEF LeaveRoom, LeaveOtherRoom, SendAndStop
  <2>3. CASE RefuseUnauthed(s) \/ RefuseRoom(s) \/ LeaveBlank(s)
    BY <1>0, <2>1, <2>3 DEF RefuseUnauthed, RefuseRoom, LeaveBlank
  <2> QED BY <1>3, <2>1, <2>2, <2>3 DEF LeaveCommand
<1>4. CASE NickCommand(s)
  <2>1. Visiting(s)
    BY <1>4 DEF NickCommand, Receive
  <2>2. ASSUME NEW n \in Name, NickName(s, n) PROVE VisitDone \/ StopServing
    BY <1>0, <2>2 DEF NickName
  <2>3. CASE RefuseUnauthed(s) \/ NickBlank(s)
    BY <1>0, <2>1, <2>3 DEF RefuseUnauthed, NickBlank, SendAndSkip, SendAndStop
  <2> QED BY <1>4, <2>1, <2>2, <2>3 DEF NickCommand
<1>5. CASE HelpCommand(s) \/ UnknownCommand(s)
  BY <1>0, <1>5 DEF HelpCommand, UnknownCommand, Receive
<1>6. CASE AccountCommand(s)
  BY <1>0, <1>6 DEF AccountCommand, Receive, AccountBlank, ForwardAccount
<1>7. CASE ClientDisconnect(s)
  BY <1>7 DEF ClientDisconnect, SendAndSkip
<1>8. CASE ReplyPacket(s)
  BY <1>0, <1>8 DEF ReplyPacket, Receive, HandleReply
<1> QED BY <1>1, <1>2, <1>3, <1>4, <1>5, <1>6, <1>7, <1>8 DEF ClientVisit

(* What a step does to the scan: phase, index, ready set and count. *)
LEMMA StepScan ==
  ASSUME [Next]_vars
  PROVE  ScanEffect
<1> USE DEF ScanEffect
<1>1. CASE UNCHANGED vars
  BY <1>1 DEF vars
<1>3. CASE Select \/ AcceptFails \/ NothingToAccept
  BY <1>3 DEF Select, AcceptFails, NothingToAccept
<1>4. CASE LinkDisconnect
  BY <1>4 DEF LinkDisconnect
<1>5. CASE AuthReply
  BY <1>5 DEF AuthReply, HandleReply, Finish
<1>6. ASSUME NEW s \in Socket, ClientVisit(s) PROVE ScanEffect
  BY <1>6, ClientVisitScan
<1>7. ASSUME NEW s \in Socket, ReceiveError(s) PROVE ScanEffect
  BY <1>7 DEF ReceiveError, SendAndStop
<1>8. ASSUME NEW s \in Socket, Accept(s) PROVE ScanEffect
  BY <1>8 DEF Accept
<1>9. CASE Peers
  BY <1>9 DEF Peers, ClientConnects, LinkFault, AuthServerAnswers, ClientSends, ClientFault,
              LoopUnchanged
<1>10. CASE SelectTimeout \/ Stopped
  BY <1>1, <1>10 DEF SelectTimeout, Stopped
<1> QED
  BY <1>1, <1>3, <1>4, <1>5, <1>6, <1>7, <1>8, <1>9, <1>10 DEF Next, Server

-----------------------------------------------------------------------------
(* Each conjunct of the invariant, one lemma each. *)

(* The vector stays one of distinct open handles. *)
LEMMA ConnectionsNext ==
  ASSUME CoreInv, [Next]_vars, Effect
  PROVE  /\ ConnectionsOK'
         /\ IsInjective(activeConnections')
         /\ handles \subseteq handles'
<1>1. /\ activeConnections \in Seq(Socket) /\ IsInjective(activeConnections)
      /\ handles \subseteq Socket /\ AuthLink \in handles
      /\ ToSet(activeConnections) \subseteq handles
  BY DEF CoreInv, ConnectionsOK, UsersAreConnections
<1>2. \A s : /\ EraseFirst(activeConnections, s) \in Seq(Socket)
             /\ IsInjective(EraseFirst(activeConnections, s))
             /\ ToSet(EraseFirst(activeConnections, s)) = ToSet(activeConnections) \ {s}
  BY <1>1, EraseFirstProperties
<1>3. \A s \in Client \ handles :
             /\ Append(activeConnections, s) \in Seq(Socket)
             /\ IsInjective(Append(activeConnections, s))
             /\ ToSet(Append(activeConnections, s)) = ToSet(activeConnections) \cup {s}
  BY <1>1, PushBackProperties DEF Client
<1> DEFINE Kept ==
      /\ activeConnections' \in Seq(Socket) /\ IsInjective(activeConnections')
      /\ handles' \subseteq Socket /\ AuthLink \in handles' /\ handles \subseteq handles'
      /\ ToSet(activeConnections') \subseteq handles'
<1>4. Kept
  <2>1. CASE SameConnections
    BY <1>1, <2>1 DEF SameConnections
  <2>2. ASSUME NEW s, activeConnections' = EraseFirst(activeConnections, s), handles' = handles
        PROVE  Kept
    BY <1>1, <1>2, <2>2
  <2>3. ASSUME NEW s \in Client \ handles, activeConnections' = Append(activeConnections, s),
               handles' = handles \cup {s}
        PROVE  Kept
    BY <1>1, <1>3, <2>3 DEF Client
  <2> QED BY <2>1, <2>2, <2>3 DEF Effect
<1>5. next' \in Nat \ {0}
  <2>1. next \in Nat \ {0}
    BY DEF CoreInv, ConnectionsOK
  <2>2. ASSUME NEW s, Visiting(s) PROVE Index \in Nat \ {0}
    BY <2>2, VisitedIsActive DEF CoreInv, ConnectionsOK
  <2> QED BY <2>1, <2>2, StepScan
          DEF ScanEffect, loopVars, BackToSelect, VisitDone, VisitSkipped, StopServing, Crash
<1> QED BY <1>4, <1>5 DEF ConnectionsOK

(* userinfo_map and activeConnections change together. *)
LEMMA UsersNext ==
  ASSUME CoreInv, [Next]_vars, Effect
  PROVE  UsersAreConnections'
<1>1. /\ activeConnections \in Seq(Socket) /\ IsInjective(activeConnections)
      /\ ToSet(activeConnections) \subseteq handles /\ AuthLink \in handles
      /\ DOMAIN userInfo = ToSet(activeConnections) \ {AuthLink}
  BY DEF CoreInv, ConnectionsOK, UsersAreConnections
<1>2. IsInjective(activeConnections')
  BY ConnectionsNext
<1>3. \A s : ToSet(EraseFirst(activeConnections, s)) = ToSet(activeConnections) \ {s}
  BY <1>1, EraseFirstProperties
<1>4. CASE UNCHANGED registryVars /\ SameConnections
  BY <1>1, <1>4 DEF registryVars, SameConnections, UsersAreConnections
<1>5. CASE SameConnections /\ DOMAIN userInfo' = DOMAIN userInfo
  BY <1>1, <1>5 DEF SameConnections, UsersAreConnections
<1>6. ASSUME NEW s, NEW r, AddToRoom(s, r) \/ RemoveFromRoom(s, r) \/ SetUsername(s, r) \/ AddAuthedUser(s)
      PROVE  DOMAIN userInfo' = DOMAIN userInfo
  BY <1>6 DEF AddToRoom, RemoveFromRoom, SetUsername, AddAuthedUser
<1>7. ASSUME NEW s \in Client, PurgeUser(s), activeConnections' = EraseFirst(activeConnections, s)
      PROVE  UsersAreConnections'
  <2>1. DOMAIN userInfo' = DOMAIN userInfo \ {s}
    BY <1>7 DEF PurgeUser, Restrict
  <2> QED BY <1>1, <1>2, <1>3, <1>7, <2>1 DEF UsersAreConnections
<1>8. CASE activeConnections' = EraseFirst(activeConnections, AuthLink) /\ LinkPurge
  BY <1>1, <1>2, <1>3, <1>8, LinkPurgeIsIdle DEF UsersAreConnections
<1>9. ASSUME NEW s \in Client \ handles, InitializeUser(s),
             activeConnections' = Append(activeConnections, s)
      PROVE  UsersAreConnections'
  <2>1. DOMAIN userInfo' = DOMAIN userInfo \cup {s}
    BY <1>9 DEF InitializeUser, Put
  <2>2. ToSet(activeConnections') = ToSet(activeConnections) \cup {s}
    BY <1>1, <1>9, PushBackProperties DEF Client
  <2> QED BY <1>1, <1>2, <2>1, <2>2 DEF UsersAreConnections, Client
<1> QED BY <1>4, <1>5, <1>6, <1>7, <1>8, <1>9 DEF Effect

(* The registry's own invariant, from its proof. *)
LEMMA RegistryNextInv ==
  ASSUME CoreInv, Effect
  PROVE  RegistryInv'
BY EffectIsContractual, RegistryInvNext, LinkPurgeIsIdle DEF CoreInv

(* Who enters a room has passed the checks; who loses what they checked    *)
(* leaves every room in the same visit.                                    *)
LEMMA MembersNext ==
  ASSUME CoreInv, [Next]_vars, Effect
  PROVE  MembersAreEntitled'
<1> DEFINE Members(r) == ToSet(GetRoomUsers(r))
<1>1. /\ RegistryInv /\ ConnectionsOK /\ UsersAreConnections
      /\ \A r \in Room : \A s \in Members(r) : Entitled(s)
  BY DEF CoreInv, MembersAreEntitled, Entitled
<1>2. \A r \in Room : GetRoomUsers(r) \in Seq(Socket) /\ IsInjective(GetRoomUsers(r))
  BY <1>1, EmptyVector DEF RegistryInv, RegistryTypeOK, NoDuplicates, GetRoomUsers
<1>3. SUFFICES ASSUME NEW r \in Room, NEW t \in Members(r)'
               PROVE  Entitled(t)'
  BY DEF MembersAreEntitled, Entitled
<1>4. CASE UNCHANGED registryVars /\ SameConnections
  BY <1>1, <1>4
     DEF registryVars, SameConnections, GetRoomUsers, Entitled, IsActive, IsUserAuthed, GetUsername
<1>5. ASSUME NEW s \in Client, NEW q \in Room, Entitled(s), AddToRoom(s, q), SameConnections
      PROVE  Entitled(t)'
  <2>1. \A u : Entitled(u) => Entitled(u)'
    <3>1. \A u : GetUsername(u)' = GetUsername(u)
      BY <1>1, <1>5 DEF AddToRoom, GetUsername, RegistryInv, RegistryTypeOK, UserInfo
    <3> QED BY <1>5, <3>1 DEF AddToRoom, SameConnections, Entitled, IsActive, IsUserAuthed
  <2>2. t \in Members(r) \/ t = s
    <3>1. CASE ~CanAdd(s, q)
      BY <1>3, <1>5, <3>1 DEF AddToRoom, GetRoomUsers
    <3>2. CASE CanAdd(s, q)
      <4>1. roomMap' = Put(roomMap, q, Append(GetRoomUsers(q), s))
        BY <1>5, <3>2 DEF AddToRoom
      <4>2. s \in Socket
        BY DEF Client
      <4>3. ToSet(Append(GetRoomUsers(q), s)) = Members(q) \cup {s}
        BY <1>2, <4>2, AppendProperties DEF ToSet
      <4>4. GetRoomUsers(r)' = IF r = q THEN Append(GetRoomUsers(q), s) ELSE GetRoomUsers(r)
        BY <4>1 DEF GetRoomUsers, Put
      <4> QED BY <1>3, <4>3, <4>4
    <3> QED BY <3>1, <3>2
  <2> QED BY <1>1, <1>5, <2>1, <2>2
<1>6. ASSUME NEW s \in Client, NEW q \in Room, IsActive(s), RemoveFromRoom(s, q), SameConnections
      PROVE  Entitled(t)'
  <2>1. \A u : Entitled(u) => Entitled(u)'
    <3>1. \A u : GetUsername(u)' = GetUsername(u)
      BY <1>1, <1>6 DEF RemoveFromRoom, GetUsername, RegistryInv, RegistryTypeOK, UserInfo
    <3> QED BY <1>6, <3>1 DEF RemoveFromRoom, SameConnections, Entitled, IsActive, IsUserAuthed
  <2>2. t \in Members(r)
    <3>1. CASE ~IsInRoom(s, q)
      BY <1>3, <1>6, <3>1 DEF RemoveFromRoom, GetRoomUsers
    <3>2. CASE IsInRoom(s, q)
      BY <1>1, <1>2, <1>3, <1>6, <3>2, EraseFirstProperties
         DEF RemoveFromRoom, RoomsWithout, GetRoomUsers
    <3> QED BY <3>1, <3>2
  <2> QED BY <1>1, <2>1, <2>2
<1>7. ASSUME NEW s \in Client, NEW n \in Name, SetUsername(s, n), SameConnections
      PROVE  Entitled(t)'
  <2>1. t \in Members(r)
    BY <1>3, <1>7 DEF SetUsername, GetRoomUsers
  <2>2. GetUsername(t) # NoName => GetUsername(t)' # NoName
    BY <1>1, <1>7, NoNameAssumption DEF SetUsername, GetUsername, RegistryInv, RegistryTypeOK, UserInfo
  <2> QED BY <1>1, <1>7, <2>1, <2>2 DEF SetUsername, SameConnections, Entitled, IsActive, IsUserAuthed
<1>8. ASSUME NEW s \in Socket, AddAuthedUser(s), SameConnections
      PROVE  Entitled(t)'
  <2>1. authedUsers \in Seq(Socket)
    BY <1>1 DEF RegistryInv, RegistryTypeOK
  <2>2. ToSet(authedUsers) \subseteq ToSet(authedUsers')
    BY <1>8, <2>1, AppendProperties DEF AddAuthedUser, ToSet
  <2> QED BY <1>1, <1>3, <1>8, <2>2
          DEF AddAuthedUser, SameConnections, GetRoomUsers, Entitled, IsActive, IsUserAuthed, GetUsername
<1>9. ASSUME NEW s \in Client, PurgeUser(s), activeConnections' = EraseFirst(activeConnections, s)
      PROVE  Entitled(t)'
  <2>1. t \in Members(r)
    BY <1>1, <1>2, <1>3, <1>9, EraseFirstProperties DEF PurgeUser, RoomsWithout, GetRoomUsers
  <2>2. t \in DOMAIN userInfo'
    BY <1>3, RegistryNextInv DEF RegistryInv, NoPhantomMember, GetRoomUsers, ToSet
  <2>3. t # s /\ GetUsername(t)' = GetUsername(t) /\ authedUsers' = authedUsers
    BY <1>9, <2>2 DEF PurgeUser, Restrict, GetUsername
  <2>4. ToSet(activeConnections') = ToSet(activeConnections) \ {s}
    BY <1>1, <1>9, EraseFirstProperties DEF ConnectionsOK, UsersAreConnections
  <2> QED BY <1>1, <2>1, <2>3, <2>4 DEF Entitled, IsActive, IsUserAuthed
<1>10. CASE activeConnections' = EraseFirst(activeConnections, AuthLink) /\ LinkPurge
  <2>1. t \in Members(r) /\ GetUsername(t)' = GetUsername(t) /\ authedUsers' = authedUsers
    BY <1>3, <1>10, LinkPurgeIsIdle DEF GetRoomUsers, GetUsername
  <2>2. t # AuthLink
    BY <1>1, <2>1 DEF RegistryInv, NoPhantomMember, UsersAreConnections, GetRoomUsers, ToSet
  <2>3. ToSet(activeConnections') = ToSet(activeConnections) \ {AuthLink}
    BY <1>1, <1>10, EraseFirstProperties DEF ConnectionsOK, UsersAreConnections
  <2> QED BY <1>1, <2>1, <2>2, <2>3 DEF Entitled, IsActive, IsUserAuthed
<1>11. ASSUME NEW s \in Client \ handles, InitializeUser(s),
              activeConnections' = Append(activeConnections, s)
       PROVE  Entitled(t)'
  <2>1. t \in Members(r) /\ authedUsers' = authedUsers
    BY <1>3, <1>11 DEF InitializeUser, GetRoomUsers
  <2>2. Entitled(t) /\ t # s
    BY <1>1, <1>11, <2>1 DEF ConnectionsOK, Entitled, IsActive
  <2>3. GetUsername(t)' = GetUsername(t)
    BY <1>11, <2>2 DEF InitializeUser, Put, GetUsername
  <2>4. ToSet(activeConnections') = ToSet(activeConnections) \cup {s}
    BY <1>1, <1>11, PushBackProperties DEF ConnectionsOK, UsersAreConnections, Client
  <2> QED BY <2>1, <2>2, <2>3, <2>4 DEF Entitled, IsActive, IsUserAuthed
<1> QED BY <1>4, <1>5, <1>6, <1>7, <1>8, <1>9, <1>10, <1>11 DEF Effect

(* What the queues between the two servers and `asked` may become. *)
QueueEffect ==
    \/ UNCHANGED <<linkVars, asked>>
    \/ \E q \in Request :
          /\ IsActive(q.id) \/ (q.id = Nobody /\ q.kind = "register")
          /\ requests' \in {requests, Append(requests, q)}
          /\ asked' = IF q.kind = "login" THEN asked \cup {q.id} ELSE asked
          /\ UNCHANGED replies
    \/ \E k \in 1 .. Len(replies) :
          replies' = SubSeq(replies, k + 1, Len(replies)) /\ UNCHANGED <<requests, asked>>
    \/ requests' = <<>> /\ replies' \in {replies, <<>>} /\ UNCHANGED asked
    \/ \E k \in 1 .. Len(requests), what \in Answers(Head(requests).kind) :
          /\ replies' = Append(replies, [what |-> what, id |-> Head(requests).id])
          /\ requests' = SubSeq(requests, k + 1, Len(requests))
          /\ UNCHANGED asked
    \/ \E s \in Client \ handles : asked' = asked \ {s} /\ UNCHANGED linkVars

(* What a step does to the queues to and from the auth server. *)
LEMMA StepQueue ==
  ASSUME CoreInv, [Next]_vars
  PROVE  QueueEffect
<1>1. CASE UNCHANGED vars
  BY <1>1 DEF vars, linkVars, heardVars, QueueEffect
<1>2. CASE Select \/ LinkDisconnect \/ AcceptFails \/ NothingToAccept
  BY <1>2 DEF Select, LinkDisconnect, AcceptFails, NothingToAccept, linkVars, heardVars, QueueEffect
<1>3. CASE AuthReply
  <2>1. replies \in Seq(Reply)
    BY DEF CoreInv, LoginsWereAsked
  <2>2. PICK k \in 1 .. MaxCoalesce :
           k <= Len(replies) /\ replies' = SubSeq(replies, k + 1, Len(replies))
    BY <1>3 DEF AuthReply
  <2>3. k \in 1 .. Len(replies)
    BY <2>1, <2>2, ChatServerAssumption
  <2> QED BY <1>3, <2>2, <2>3 DEF AuthReply, heardVars, QueueEffect
<1>4. ASSUME NEW s \in Socket, AccountCommand(s) PROVE QueueEffect
  <2>1. s \in Client /\ IsActive(s) /\ UNCHANGED replies
    BY <1>4, VisitedIsActive DEF AccountCommand, Receive, CoreInv
  <2>2. CASE AccountBlank(s)
    BY <2>1, <2>2 DEF AccountBlank, linkVars, QueueEffect
  <2>3. ASSUME NEW kind \in {"login", "register"}, ForwardAccount(s, kind) PROVE QueueEffect
    <3>1. PICK q \in Request :
             q.kind = kind /\ q.id = s /\ requests' \in {requests, Append(requests, q)}
      BY <2>3 DEF ForwardAccount, SendToAuthServer
    <3>2. asked' = IF kind = "login" THEN asked \cup {s} ELSE asked
      BY <2>3 DEF ForwardAccount
    <3> QED BY <2>1, <3>1, <3>2 DEF QueueEffect
  <2> QED BY <1>4, <2>2, <2>3 DEF AccountCommand
<1>13. ASSUME NEW s \in Socket, ReplyPacket(s) PROVE QueueEffect
  <2>1. UNCHANGED <<replies, asked>>
    BY <1>13 DEF ReplyPacket, Receive
  <2>2. Misparsed \in Request /\ Misparsed.id = Nobody /\ Misparsed.kind = "register"
    BY ChatServerAssumption DEF Misparsed, Request, Asker
  <2>3. requests' \in {requests, Append(requests, Misparsed)}
    BY <1>13 DEF ReplyPacket, SendToAuthServer
  <2> HIDE DEF Misparsed
  <2> QED BY <2>1, <2>2, <2>3 DEF QueueEffect
<1>5. ASSUME NEW s \in Socket, ClientVisit(s), ~AccountCommand(s), ~ReplyPacket(s)
      PROVE  UNCHANGED <<linkVars, asked>>
  BY <1>5 DEF ClientVisit, ChatPacket, JoinCommand, LeaveCommand, NickCommand, HelpCommand,
              UnknownCommand, ClientDisconnect, Receive, linkVars, heardVars
<1>6. ASSUME NEW s \in Socket, ReceiveError(s) PROVE UNCHANGED <<linkVars, asked>>
  BY <1>6 DEF ReceiveError, linkVars, heardVars
<1>7. ASSUME NEW s \in Socket, Accept(s) PROVE QueueEffect
  BY <1>7 DEF Accept, linkVars, QueueEffect
<1>8. CASE AuthServerAnswers
  <2>1. requests \in Seq(Request)
    BY DEF CoreInv, LoginsWereAsked
  <2>2. PICK what \in Answers(Head(requests).kind) :
           replies' = Append(replies, [what |-> what, id |-> Head(requests).id])
    BY <1>8 DEF AuthServerAnswers
  <2>3. PICK k \in 1 .. MaxCoalesce :
           k <= Len(requests) /\ requests' = SubSeq(requests, k + 1, Len(requests))
    BY <1>8 DEF AuthServerAnswers
  <2>4. k \in 1 .. Len(requests)
    BY <2>1, <2>3, ChatServerAssumption
  <2> QED BY <1>8, <2>2, <2>3, <2>4 DEF AuthServerAnswers, LoopUnchanged, heardVars, QueueEffect
<1>9. CASE LinkFault
  BY <1>9 DEF LinkFault, LoopUnchanged, heardVars, QueueEffect
<1>10. ASSUME ClientConnects \/ \E s \in Client : ClientSends(s) \/ ClientFault(s)
       PROVE  UNCHANGED <<linkVars, asked>>
  BY <1>10 DEF ClientConnects, ClientSends, ClientFault, LoopUnchanged, heardVars
<1>11. CASE SelectTimeout \/ Stopped
  BY <1>1, <1>11 DEF SelectTimeout, Stopped
<1>12. UNCHANGED <<linkVars, asked>> => QueueEffect
  BY DEF QueueEffect
<1> QED
  BY <1>1, <1>2, <1>3, <1>4, <1>5, <1>6, <1>7, <1>8, <1>9, <1>10, <1>11, <1>12, <1>13
     DEF Next, Server, Peers

(* A login once asked for stays so: a new connection has a new handle.     *)
LEMMA AskedGrows ==
  ASSUME CoreInv, [Next]_vars
  PROVE  asked \subseteq asked'
BY StepQueue DEF QueueEffect, CoreInv, LoginsWereAsked

(* What a step does to the rumours: none is forgotten, and a new one is    *)
(* about an open handle.                                                   *)
LEMMA RumoursGrow ==
  ASSUME CoreInv, [Next]_vars
  PROVE  rumours \subseteq rumours' /\ rumours' \subseteq [what : ReplyKinds, id : handles]
<1>1. rumours \subseteq [what : ReplyKinds, id : handles]
  BY DEF CoreInv, LoginsWereAsked
<1>2. ASSUME rumours' = rumours
      PROVE  rumours \subseteq rumours' /\ rumours' \subseteq [what : ReplyKinds, id : handles]
  BY <1>1, <1>2
<1>3. CASE UNCHANGED vars
  BY <1>2, <1>3 DEF vars, heardVars
<1>4. CASE Select \/ LinkDisconnect \/ AcceptFails \/ NothingToAccept \/ AuthReply
  BY <1>2, <1>4 DEF Select, LinkDisconnect, AcceptFails, NothingToAccept, AuthReply, heardVars
<1>5. ASSUME NEW s \in Socket, ClientVisit(s), ~ReplyPacket(s)
      PROVE  rumours' = rumours
  BY <1>5 DEF ClientVisit, ChatPacket, JoinCommand, LeaveCommand, NickCommand, HelpCommand,
              UnknownCommand, AccountCommand, ClientDisconnect, heardVars
<1>6. ASSUME NEW s \in Socket, ReplyPacket(s)
      PROVE  rumours \subseteq rumours' /\ rumours' \subseteq [what : ReplyKinds, id : handles]
  <2>1. PICK what \in ReplyKinds, id \in RepliesAbout : Overheard([what |-> what, id |-> id])
    BY <1>6, ChatServerAssumption DEF ReplyPacket
  <2>2. IsActive(id) => id \in handles
    BY DEF IsActive, CoreInv, ConnectionsOK
  <2> QED BY <1>1, <2>1, <2>2 DEF Overheard
<1>7. ASSUME NEW s \in Socket, Accept(s) PROVE rumours' = rumours
  BY <1>1, <1>7 DEF Accept
<1>8. ASSUME NEW s \in Socket, ReceiveError(s) PROVE rumours' = rumours
  BY <1>8 DEF ReceiveError, heardVars
<1>9. CASE Peers
  BY <1>2, <1>9 DEF Peers, ClientConnects, LinkFault, AuthServerAnswers, ClientSends, ClientFault,
                    LoopUnchanged, heardVars
<1>10. CASE SelectTimeout \/ Stopped
  BY <1>2, <1>3, <1>10 DEF SelectTimeout, Stopped, vars, heardVars
<1> QED
  BY <1>2, <1>3, <1>4, <1>5, <1>6, <1>7, <1>8, <1>9, <1>10 DEF vars, heardVars, Next, Server

(* Requests and replies carry the socket of the connection that asked.     *)
LEMMA LoginsNext ==
  ASSUME CoreInv, [Next]_vars, Effect
  PROVE  LoginsWereAsked'
<1> DEFINE Asked(request) == request.kind = "login" => request.id \in asked
           Answered(reply) == reply.what \in Answers("login") => reply.id \in asked
<1>1. /\ asked \subseteq handles \cap Client
      /\ \A s \in ToSet(authedUsers) : s \in asked \/ Heard(s, "loggedIn")
      /\ requests \in Seq(Request) /\ replies \in Seq(Reply)
      /\ \A request \in ToSet(requests) : Asked(request)
      /\ \A reply \in ToSet(replies) : Answered(reply)
      /\ ToSet(activeConnections) \subseteq handles
  BY DEF CoreInv, LoginsWereAsked, ConnectionsOK
<1>2. handles \subseteq handles'
  BY ConnectionsNext
<1>3. asked \subseteq asked' /\ asked' \subseteq handles' \cap Client
  <2>1. \A q \in Request : IsActive(q.id) => q.id \in handles \cap Client
    BY <1>1, ChatServerAssumption DEF CoreInv, ConnectionsOK, IsActive, Request, Asker
  <2> QED BY <1>1, <1>2, <2>1, StepQueue DEF QueueEffect
<1>7. rumours \subseteq rumours' /\ rumours' \subseteq [what : ReplyKinds, id : handles']
  BY <1>2, RumoursGrow
<1>4. \A s \in ToSet(authedUsers') : s \in asked' \/ Heard(s, "loggedIn")'
  <2>1. ASSUME NEW s \in Socket, AddAuthedUser(s)
        PROVE  ToSet(authedUsers') \subseteq ToSet(authedUsers) \cup {s}
    <3>1. authedUsers \in Seq(Socket)
      BY DEF CoreInv, RegistryInv, RegistryTypeOK
    <3>2. authedUsers' \in {authedUsers, Append(authedUsers, s)}
      BY <2>1 DEF AddAuthedUser
    <3>3. ToSet(Append(authedUsers, s)) = ToSet(authedUsers) \cup {s}
      BY <3>1, AppendElements
    <3> QED BY <3>2, <3>3
  <2>2. \/ authedUsers' = authedUsers
        \/ \E s \in Socket : AddAuthedUser(s) /\ (s \in asked \/ Heard(s, "loggedIn")')
    BY DEF Effect, LinkPurge, registryVars, AddToRoom, RemoveFromRoom, SetUsername, PurgeUser,
           InitializeUser
  <2>3. \A s : Heard(s, "loggedIn") => Heard(s, "loggedIn")'
    BY <1>7 DEF Heard
  <2> QED BY <1>1, <1>3, <2>1, <2>2, <2>3
<1> DEFINE RequestsOK ==
      requests' \in Seq(Request) /\ \A request \in ToSet(requests') : Asked(request)'
<1>5. RequestsOK
  <2>1. CASE requests' = requests
    BY <1>1, <1>3, <2>1
  <2>2. CASE requests' = <<>>
    BY <2>2, EmptyVector
  <2>3. ASSUME NEW q \in Request, requests' = Append(requests, q),
               asked' = IF q.kind = "login" THEN asked \cup {q.id} ELSE asked
        PROVE  RequestsOK
    <3>1. Asked(q)'
      BY <2>3
    <3>2. requests' \in Seq(Request) /\ ToSet(requests') = ToSet(requests) \cup {q}
      BY <1>1, <2>3, AppendElements
    <3> QED BY <1>1, <1>3, <3>1, <3>2
  <2>4. ASSUME NEW k \in 1 .. Len(requests), requests' = SubSeq(requests, k + 1, Len(requests))
        PROVE  RequestsOK
    <3>1. requests' \in Seq(Request) /\ ToSet(requests') \subseteq ToSet(requests)
      BY <1>1, <2>4, SuffixElements
    <3> QED BY <1>1, <1>3, <3>1
  <2> HIDE DEF RequestsOK
  <2> QED BY <2>1, <2>2, <2>3, <2>4, StepQueue DEF QueueEffect, linkVars
<1> DEFINE RepliesOK ==
      replies' \in Seq(Reply) /\ \A reply \in ToSet(replies') : Answered(reply)'
<1>6. RepliesOK
  <2>1. CASE replies' = replies
    BY <1>1, <1>3, <2>1
  <2>2. CASE replies' = <<>>
    BY <2>2, EmptyVector
  <2>3. ASSUME NEW k \in 1 .. Len(replies), replies' = SubSeq(replies, k + 1, Len(replies))
        PROVE  RepliesOK
    <3>1. replies' \in Seq(Reply) /\ ToSet(replies') \subseteq ToSet(replies)
      BY <1>1, <2>3, SuffixElements
    <3> QED BY <1>1, <1>3, <3>1
  <2>4. ASSUME NEW k \in 1 .. Len(requests), NEW what \in Answers(Head(requests).kind),
               replies' = Append(replies, [what |-> what, id |-> Head(requests).id])
        PROVE  RepliesOK
    <3> DEFINE reply == [what |-> what, id |-> Head(requests).id]
    <3>1. Head(requests) \in Request /\ Asked(Head(requests))
      BY <1>1, <2>4, SuffixElements
    <3>2. reply \in Reply /\ Answered(reply)
      BY <3>1 DEF Answers, Request, Reply, ReplyKinds
    <3> HIDE DEF reply
    <3>3. replies' \in Seq(Reply) /\ ToSet(replies') = ToSet(replies) \cup {reply}
      BY <1>1, <2>4, <3>2, AppendElements DEF reply
    <3> QED BY <1>1, <1>3, <3>2, <3>3
  <2> HIDE DEF RepliesOK
  <2> QED BY <2>1, <2>2, <2>3, <2>4, StepQueue DEF QueueEffect, linkVars
<1> QED BY <1>3, <1>4, <1>5, <1>6, <1>7 DEF LoginsWereAsked

-----------------------------------------------------------------------------
(* Before the first pass there is the connection to the auth server only. *)
LEMMA CoreInvInit == Init => CoreInv
<1> SUFFICES ASSUME Init PROVE CoreInv
  OBVIOUS
<1>1. RegistryInv
  BY RegistryInvInit DEF Init
<1>2. /\ activeConnections \in Seq(Socket) /\ IsInjective(activeConnections)
      /\ ToSet(activeConnections) = {AuthLink}
  BY ChatServerAssumption DEF Init, IsInjective, ToSet
<1>3. ConnectionsOK /\ UsersAreConnections
  BY <1>2, ChatServerAssumption DEF Init, RegistryInit, ConnectionsOK, UsersAreConnections
<1>4. MembersAreEntitled
  BY EmptyVector DEF Init, RegistryInit, MembersAreEntitled, GetRoomUsers
<1>5. LoginsWereAsked
  BY EmptyVector DEF Init, RegistryInit, LoginsWereAsked
<1> QED BY <1>1, <1>3, <1>4, <1>5 DEF CoreInv

(* Every step keeps the invariant. *)
LEMMA CoreInvNext == CoreInv /\ [Next]_vars => CoreInv'
<1> SUFFICES ASSUME CoreInv, [Next]_vars PROVE CoreInv'
  OBVIOUS
<1>1. Effect
  BY StepEffect
<1> QED
  BY <1>1, RegistryNextInv, ConnectionsNext, UsersNext, MembersNext, LoginsNext DEF CoreInv

(* It holds throughout. *)
LEMMA CoreInvHolds == Spec => []CoreInv
BY CoreInvInit, CoreInvNext, PTL DEF Spec

(* RegistryContract: the handlers use the two maps as their class expects, *)
(* with one exception.  removeFromRoom is called for a socket that is no   *)
(* user, and dereferences the end iterator, exactly when the auth server's *)
(* connection is lost (line 312).                                          *)
THEOREM LoopKeepsContract == Spec => RegistryContract
<1>1. Init => RegistryInit
  BY DEF Init
<1>2. CoreInv /\ [Next]_vars => [RegistryNext \/ LinkPurge]_registryVars
  BY StepEffect, EffectIsContractual
<1> QED BY <1>1, <1>2, CoreInvHolds, PTL DEF Spec, RegistryContract

(* As long as that connection lasts, the loop implements the abstract      *)
(* registry: every step is one of its steps, or leaves it alone.           *)
THEOREM LoopImplementsRegistry ==
  ASSUME LinkFaults = {}
  PROVE  Spec => RegistrySpec
<1> DEFINE LinkLasts == wire[AuthLink] \in {"open", "absent"}
<1>1. Init => LinkLasts /\ RegistryInit
  BY ChatServerAssumption DEF Init
<1>2. CoreInv /\ LinkLasts /\ [Next]_vars => LinkLasts'
  <2> SUFFICES ASSUME CoreInv, LinkLasts, [Next]_vars PROVE wire'[AuthLink] = wire[AuthLink]
    OBVIOUS
  <2>1. ~LinkFault
    BY DEF LinkFault, Closes, Breaks
  <2>2. ASSUME NEW s \in Client, ClientFault(s) PROVE wire'[AuthLink] = wire[AuthLink]
    <3>1. \E state : wire' = [wire EXCEPT ![s] = state]
      BY <2>2 DEF ClientFault, Closes, Breaks
    <3> QED BY <3>1 DEF Client
  <2>3. CASE Peers
    BY <2>1, <2>2, <2>3 DEF Peers, ClientConnects, ClientSends, AuthServerAnswers, netVars
  <2>4. ASSUME NEW s \in Socket, Accept(s) PROVE wire'[AuthLink] = wire[AuthLink]
    BY <2>4 DEF Accept, Client
  <2>5. ASSUME NEW s \in Socket, ClientVisit(s) PROVE wire'[AuthLink] = wire[AuthLink]
    BY <2>5 DEF ClientVisit, ChatPacket, JoinCommand, LeaveCommand, NickCommand, HelpCommand,
                UnknownCommand, AccountCommand, ReplyPacket, Receive, ClientDisconnect, netVars
  <2>6. CASE \/ Select \/ AuthReply \/ LinkDisconnect \/ AcceptFails \/ NothingToAccept
             \/ \E s \in Socket : ReceiveError(s)
    BY <2>6 DEF Select, AuthReply, LinkDisconnect, AcceptFails, NothingToAccept, ReceiveError, netVars
  <2>7. CASE SelectTimeout \/ Stopped \/ UNCHANGED vars
    BY <2>7 DEF SelectTimeout, Stopped, vars, netVars
  <2> QED BY <2>3, <2>4, <2>5, <2>6, <2>7 DEF Next, Server
<1>3. CoreInv /\ LinkLasts /\ [Next]_vars => [RegistryNext]_registryVars
  BY StepEffect, EffectIsContractual DEF LinkPurge
<1> QED BY <1>1, <1>2, <1>3, CoreInvHolds, PTL DEF Spec, RegistrySpec

(* UsersAreConnections: userinfo_map and activeConnections, changed by     *)
(* different statements, always hold the same clients, each once.          *)
THEOREM UsersAlwaysConnections == Spec => []UsersAreConnections
<1>1. CoreInv => UsersAreConnections
  BY DEF CoreInv
<1> QED BY <1>1, CoreInvHolds, PTL

(* MembersAreEntitled: whoever is in a room is connected, authorised and   *)
(* named, although the checks are made in three handlers and undone in a   *)
(* fourth.                                                                 *)
THEOREM MembersAlwaysEntitled == Spec => []MembersAreEntitled
<1>1. CoreInv => MembersAreEntitled
  BY DEF CoreInv
<1> QED BY <1>1, CoreInvHolds, PTL
-----------------------------------------------------------------------------
(* Messages that are no answer of the auth server. *)
Utterance == {m \in Message : m.what \notin ReplyKinds}

Words == MessageKinds \ ReplyKinds

(* A message to one socket, other than an answer. *)
LEMMA PersonalUtterance ==
  ASSUME NEW what \in Words, NEW s \in Socket
  PROVE  /\ Personal(what, s) \in Utterance
         /\ <<Personal(what, s)>> \in Seq(Utterance)
<1>1. <<s>> \in Seq(Socket)
  OBVIOUS
<1>2. Personal(what, s) \in Utterance
  BY <1>1 DEF Personal, Notice, Utterance, Message, Words
<1>3. \A m \in Utterance : <<m>> \in Seq(Utterance)
  OBVIOUS
<1> QED BY <1>2, <1>3

(* A message to a room. *)
LEMMA RoomUtterance ==
  ASSUME NEW what \in Words, NEW r \in Room, NEW to \in Seq(Socket)
  PROVE  /\ Notice(what, r, to) \in Utterance
         /\ <<Notice(what, r, to)>> \in Seq(Utterance)
<1>1. Notice(what, r, to) \in Utterance
  BY DEF Notice, Utterance, Message, Words
<1>2. \A m \in Utterance : <<m>> \in Seq(Utterance)
  OBVIOUS
<1> QED BY <1>1, <1>2

(* The vectors of members and of rooms that the handlers read. *)
LEMMA Getters ==
  ASSUME RegistryInv
  PROVE  /\ \A r : GetRoomUsers(r) \in Seq(Socket)
         /\ \A s : GetUserRooms(s) \in Seq(Room)
BY EmptyVector DEF RegistryInv, RegistryTypeOK, UserInfo, GetRoomUsers, GetUserRooms

(* One message for each of a user's rooms. *)
LEMMA RoomsUtterances ==
  ASSUME RegistryInv, NEW s, NEW what \in Words
  PROVE  LET rooms == GetUserRooms(s) IN
         [k \in DOMAIN rooms |-> Notice(what, rooms[k], GetRoomUsers(rooms[k]))] \in Seq(Utterance)
<1> DEFINE rooms == GetUserRooms(s)
           messages == [k \in DOMAIN rooms |-> Notice(what, rooms[k], GetRoomUsers(rooms[k]))]
<1>1. rooms \in Seq(Room) /\ \A k \in DOMAIN rooms : GetRoomUsers(rooms[k]) \in Seq(Socket)
  BY Getters
<1>2. Len(rooms) \in Nat /\ DOMAIN rooms = 1 .. Len(rooms) /\ \A k \in DOMAIN rooms : rooms[k] \in Room
  BY <1>1
<1> HIDE DEF rooms
<1>3. \A k \in DOMAIN rooms : messages[k] \in Utterance
  BY <1>1, <1>2, RoomUtterance
<1>4. messages \in [1 .. Len(rooms) -> Utterance]
  BY <1>2, <1>3
<1> HIDE DEF messages
<1>5. messages \in Seq(Utterance)
  BY <1>2, <1>4
<1> QED BY <1>5 DEF messages, rooms

(* What the rooms of a leaving user hear. *)
LEMMA DepartureUtterances ==
  ASSUME RegistryInv, NEW s
  PROVE  DepartureMessages(s) \in Seq(Utterance)
<1> DEFINE rooms == GetUserRooms(s)
           remaining == RoomsWithout(s, ToSet(rooms))
           messages == [k \in DOMAIN rooms |-> Notice("left", rooms[k], remaining[rooms[k]])]
<1>1. rooms \in Seq(Room)
  BY Getters
<1>2. Len(rooms) \in Nat /\ DOMAIN rooms = 1 .. Len(rooms) /\ \A k \in DOMAIN rooms : rooms[k] \in Room
  BY <1>1
<1>3. \A k \in DOMAIN rooms : rooms[k] \in DOMAIN roomMap
  <2>1. CASE s \in DOMAIN userInfo
    BY <2>1 DEF RegistryInv, NoLostMember, GetUserRooms, ToSet
  <2>2. CASE s \notin DOMAIN userInfo
    BY <2>2 DEF GetUserRooms
  <2> QED BY <2>1, <2>2
<1>4. \A r \in DOMAIN roomMap : remaining[r] \in Seq(Socket)
  BY EraseFirstProperties DEF RoomsWithout, RegistryInv, RegistryTypeOK, NoDuplicates
<1> HIDE DEF rooms, remaining
<1>5. "left" \in Words
  BY DEF Words, MessageKinds, ReplyKinds
<1>6. \A k \in DOMAIN rooms : messages[k] \in Utterance
  BY <1>2, <1>3, <1>4, <1>5, RoomUtterance
<1>7. messages \in [1 .. Len(rooms) -> Utterance]
  BY <1>2, <1>6
<1> HIDE DEF messages
<1>8. messages \in Seq(Utterance)
  BY <1>2, <1>7
<1> QED BY <1>8 DEF messages, remaining, rooms, DepartureMessages

-----------------------------------------------------------------------------
(* What a visit to a client sends, unless the client speaks for the auth   *)
(* server, is no answer of the auth server.                                *)
LEMMA VisitUtterances ==
  ASSUME CoreInv, NEW s \in Socket, ClientVisit(s), ~ReplyPacket(s)
  PROVE  sent' \in Seq(Utterance)
<1> DEFINE Said == sent' \in Seq(Utterance)
<1>1. RegistryInv
  BY DEF CoreInv
<1>2. \A what \in {"notAuthed", "invalidRoom", "setNickFirst", "setNickAndJoin", "joinFirst",
                   "youJoined", "youLeft", "untyped", "notInRoom", "nickUsage", "renamed",
                   "commands", "weakPassword", "login", "register"} :
        \A t \in Socket : <<Personal(what, t)>> \in Seq(Utterance)
  BY PersonalUtterance DEF Words, MessageKinds, ReplyKinds
<1>3. \A what \in {"joined", "left"} : \A r \in Room : \A to \in Seq(Socket) :
        <<Notice(what, r, to)>> \in Seq(Utterance)
  BY RoomUtterance DEF Words, MessageKinds, ReplyKinds
<1>4. <<>> \in Seq(Utterance)
  OBVIOUS
<1>5. \A p, q \in Seq(Utterance) : p \o q \in Seq(Utterance)
  OBVIOUS
<1>6. ASSUME NEW messages, NEW failing, messages \in Seq(Utterance), Finish(messages, failing)
      PROVE  Said
  BY <1>6 DEF Finish
<1>7. ASSUME RefuseUnauthed(s) \/ RefuseRoom(s) \/ RefuseNameless(s) \/ JoinBlank(s) \/ LeaveBlank(s)
      PROVE  Said
  BY <1>2, <1>4, <1>6, <1>7
     DEF RefuseUnauthed, RefuseRoom, RefuseNameless, JoinBlank, LeaveBlank, SendAndSkip
<1>8. CASE ChatPacket(s)
  <2>1. ChatHint(s) \in Seq(Utterance)
    BY <1>2, <1>4 DEF ChatHint
  <2>2. ChatMessages(s) \in Seq(Utterance)
    <3>1. CASE ~IsUserAuthed(s)
      BY <1>2, <3>1 DEF ChatMessages
    <3>2. CASE IsUserAuthed(s)
      <4> DEFINE rooms == GetUserRooms(s)
                 chat == [k \in DOMAIN rooms |-> Notice("chat", rooms[k], GetRoomUsers(rooms[k]))]
      <4>1. chat \in Seq(Utterance)
        BY <1>1, RoomsUtterances DEF Words, MessageKinds, ReplyKinds
      <4>2. ChatMessages(s) = chat \o ChatHint(s)
        BY <3>2 DEF ChatMessages
      <4> HIDE DEF chat
      <4> QED BY <1>5, <2>1, <4>1, <4>2
    <3> QED BY <3>1, <3>2
  <2> QED BY <1>6, <1>8, <2>2 DEF ChatPacket
<1>9. CASE JoinCommand(s)
  <2>1. ASSUME NEW r \in Room, JoinRoom(s, r) PROVE Said
    <3> DEFINE joined == <<Notice("joined", r, GetRoomUsers(r))>>
    <3>1. joined \in Seq(Utterance) /\ joined \o <<Personal("youJoined", s)>> \in Seq(Utterance)
      BY <1>1, <1>2, <1>3, <1>5, Getters
    <3>2. \E failing : SendAndStop(joined) \/ Finish(joined \o <<Personal("youJoined", s)>>, failing)
      BY <2>1 DEF JoinRoom
    <3> HIDE DEF joined
    <3> QED BY <1>6, <3>1, <3>2 DEF SendAndStop
  <2> QED BY <1>7, <1>9, <2>1 DEF JoinCommand
<1>10. CASE LeaveCommand(s)
  <2>1. ASSUME NEW r \in Room, LeaveRoom(s, r) PROVE Said
    <3> DEFINE left == <<Notice("left", r, RoomsWithout(s, {r})[r])>>
    <3>1. RoomsWithout(s, {r})[r] \in Seq(Socket)
      <4>1. Visiting(s) /\ s \in Client
        BY <1>10 DEF LeaveCommand, Receive
      <4>2. s \in DOMAIN userInfo
        BY <4>1, VisitedIsActive, ActiveIsUser DEF CoreInv
      <4>3. r \in DOMAIN roomMap
        BY <1>1, <2>1, <4>2 DEF LeaveRoom, IsInRoom, GetUserRooms, RegistryInv, NoLostMember
      <4> QED BY <1>1, <4>3, EraseFirstProperties
              DEF RoomsWithout, RegistryInv, RegistryTypeOK, NoDuplicates
    <3>2. left \in Seq(Utterance)
      BY <1>3, <3>1
    <3>3. PICK failing \in SendFailures, what \in {"youLeft", "untyped"} :
             SendAndStop(left) \/ Finish(left \o <<Personal(what, s)>>, failing)
      BY <2>1 DEF LeaveRoom
    <3> HIDE DEF left
    <3>4. left \o <<Personal(what, s)>> \in Seq(Utterance)
      BY <1>2, <1>5, <3>2
    <3> QED BY <1>6, <3>2, <3>3, <3>4 DEF SendAndStop
  <2>2. ASSUME NEW r \in Room, LeaveOtherRoom(s, r) PROVE Said
    BY <1>2, <1>6, <2>2 DEF LeaveOtherRoom
  <2> QED BY <1>7, <1>10, <2>1, <2>2 DEF LeaveCommand
<1>11. CASE NickCommand(s)
  <2>1. CASE NickBlank(s)
    BY <1>2, <2>1 DEF NickBlank, SendAndStop, SendAndSkip
  <2>2. ASSUME NEW n \in Name, NickName(s, n) PROVE Said
    <3>1. RenameMessages(s) \in Seq(Utterance)
      BY <1>1, <1>2, RoomsUtterances DEF RenameMessages, Words, MessageKinds, ReplyKinds
    <3> QED BY <1>6, <2>2, <3>1 DEF NickName
  <2> QED BY <1>7, <1>11, <2>1, <2>2 DEF NickCommand
<1>12. CASE HelpCommand(s) \/ UnknownCommand(s)
  BY <1>2, <1>4, <1>6, <1>12 DEF HelpCommand, UnknownCommand
<1>13. CASE AccountCommand(s)
  BY <1>2, <1>6, <1>13, ChatServerAssumption DEF AccountCommand, AccountBlank, ForwardAccount
<1>14. CASE ClientDisconnect(s)
  BY <1>1, <1>14, DepartureUtterances DEF ClientDisconnect, SendAndSkip
<1> QED BY <1>8, <1>9, <1>10, <1>11, <1>12, <1>13, <1>14 DEF ClientVisit

(* Messages are well formed, and answers to logins go to those who asked   *)
(* or whom a client named.                                                 *)
SentOK ==
    /\ sent \in Seq(Message)
    /\ \A k \in DOMAIN sent :
          sent[k].what \in Answers("login") =>
              \A s \in ToSet(sent[k].to) : s \in asked \/ Heard(s, sent[k].what)

(* What the handling of a reply sends. *)
LEMMA ReplySent ==
  ASSUME CoreInv, NEW reply, HandleReply(reply), reply.what \in ReplyKinds,
         asked \subseteq asked',
         reply = [what |-> reply.what, id |-> reply.id],
         reply.what \in Answers("login") /\ IsActive(reply.id) =>
            reply.id \in asked \/ reply \in rumours'
  PROVE  SentOK'
<1>1. sent' = ReplyMessages(reply)
  BY DEF HandleReply, Finish
<1>2. CASE ~IsActive(reply.id)
  BY <1>1, <1>2 DEF ReplyMessages, SentOK
<1>3. CASE IsActive(reply.id)
  <2> DEFINE m == Personal(reply.what, reply.id)
  <2>1. reply.id \in Socket /\ reply.what \in MessageKinds
    BY <1>3 DEF IsActive, ToSet, CoreInv, ConnectionsOK, MessageKinds
  <2>2. <<reply.id>> \in Seq(Socket) /\ ToSet(<<reply.id>>) = {reply.id}
    BY <2>1 DEF ToSet
  <2>3. m \in Message /\ m.what = reply.what /\ m.to = <<reply.id>>
    BY <2>1, <2>2 DEF Personal, Notice, Message
  <2>4. sent' = <<m>>
    BY <1>1, <1>3 DEF ReplyMessages
  <2>5. reply \in rumours' => Heard(reply.id, reply.what)'
    BY DEF Heard
  <2>6. reply.what \in Answers("login") => (reply.id \in asked' \/ Heard(reply.id, reply.what)')
    BY <1>3, <2>5
  <2> HIDE DEF m
  <2>7. sent' \in Seq(Message) /\ DOMAIN sent' = {1} /\ sent'[1] = m
    BY <2>3, <2>4
  <2> QED BY <2>2, <2>3, <2>6, <2>7 DEF SentOK, Heard
<1> QED BY <1>2, <1>3

(* Every step keeps the answers to logins with them. *)
LEMMA SentNext ==
  ASSUME CoreInv, SentOK, [Next]_vars
  PROVE  SentOK'
<1>1. CASE sent' \in Seq(Utterance)
  <2>1. \A k \in DOMAIN sent' : sent'[k] \in Utterance
    BY <1>1
  <2>2. Utterance \subseteq Message
    BY DEF Utterance
  <2>3. sent' \in Seq(Message)
    BY <1>1, <2>2, SeqMonotonic
  <2> QED BY <2>1, <2>3 DEF Utterance, ReplyKinds, Answers, SentOK
<1>2. CASE sent' = sent
  BY <1>2, AskedGrows, RumoursGrow DEF SentOK, Heard
<1>3. CASE AuthReply
  <2>1. HasPacket(AuthLink) /\ HandleReply(Head(replies))
    BY <1>3 DEF AuthReply
  <2>2. /\ Head(replies) \in Reply
        /\ Head(replies).what \in Answers("login") => Head(replies).id \in asked
    BY <2>1, ReplyInTurn
  <2> QED BY <2>1, <2>2, AskedGrows, ReplySent DEF Reply
<1>11. ASSUME NEW s \in Socket, ReplyPacket(s) PROVE SentOK'
  <2>1. PICK what \in ClientReplies, id \in RepliesAbout :
           HandleReply([what |-> what, id |-> id]) /\ Overheard([what |-> what, id |-> id])
    BY <1>11 DEF ReplyPacket
  <2>2. IsActive(id) => [what |-> what, id |-> id] \in rumours'
    BY <2>1 DEF Overheard
  <2> QED BY <2>1, <2>2, AskedGrows, ReplySent, ChatServerAssumption
<1>4. <<>> \in Seq(Utterance)
  OBVIOUS
<1>5. CASE Select \/ LinkDisconnect \/ AcceptFails \/ NothingToAccept
  BY <1>1, <1>4, <1>5, DepartureUtterances
     DEF Select, LinkDisconnect, AcceptFails, NothingToAccept, CoreInv
<1>6. ASSUME NEW s \in Socket, ClientVisit(s) PROVE SentOK'
  BY <1>1, <1>6, <1>11, VisitUtterances
<1>7. ASSUME NEW s \in Socket, ReceiveError(s) PROVE SentOK'
  BY <1>1, <1>4, <1>7 DEF ReceiveError, SendAndStop
<1>8. ASSUME NEW s \in Socket, Accept(s) PROVE SentOK'
  <2>1. <<Personal("welcome", s)>> \in Seq(Utterance)
    BY PersonalUtterance DEF Words, MessageKinds, ReplyKinds
  <2> QED BY <1>1, <1>8, <2>1 DEF Accept
<1>9. CASE Peers
  BY <1>2, <1>9 DEF Peers, ClientConnects, LinkFault, AuthServerAnswers, ClientSends, ClientFault,
                    LoopUnchanged
<1>10. CASE SelectTimeout \/ Stopped \/ UNCHANGED vars
  BY <1>2, <1>10 DEF SelectTimeout, Stopped, vars
<1> QED
  BY <1>3, <1>5, <1>6, <1>7, <1>8, <1>9, <1>10 DEF Next, Server

(* NoInheritedLogin: no connection owes its authorisation, or the answer   *)
(* it gets, to a login that it did not send, unless a client's own packet  *)
(* of that kind named it while it was connected.                           *)
THEOREM LoginsAreNotInherited == Spec => []NoInheritedLogin
<1>1. Init => SentOK
  BY EmptyVector DEF Init, SentOK
<1>2. CoreInv /\ SentOK /\ [Next]_vars => SentOK'
  BY SentNext
<1>3. CoreInv /\ SentOK => NoInheritedLogin
  BY DEF CoreInv, LoginsWereAsked, SentOK, NoInheritedLogin, Answers, Heard
<1> QED BY <1>1, <1>2, <1>3, CoreInvHolds, PTL DEF Spec

-----------------------------------------------------------------------------
(* The types of what the peers change. *)
NetOK ==
    /\ wire \in [Socket -> {"absent", "open", "closed", "reset", "aborted"}]
    /\ inbox \in [Client -> Nat]
    /\ backlog \in Nat

(* One visit, as far as the scan is concerned: only the visited socket may *)
(* lose what is pending, and only it may be erased from the vector.        *)
VisitEffect(s) ==
    /\ Visiting(s)
    /\ UNCHANGED <<wire, backlog>>
    /\ inbox' \in [Client -> Nat] /\ \A t \in Client \ {s} : inbox'[t] = inbox[t]
    /\ s = AuthLink \/ replies' = replies
    /\ \/ activeConnections' = activeConnections
       \/ activeConnections' = EraseFirst(activeConnections, s) /\ next' = Index + 1
       \/ phase' # "scan"
    /\ VisitDone \/ VisitSkipped \/ StopServing \/ Crash

(* What the peers do between two visits makes no readable socket           *)
(* unreadable and takes no caller out of the backlog.                      *)
PeerEffect ==
    /\ UNCHANGED <<loopVars, activeConnections>>
    /\ NetOK' /\ backlog <= backlog'
    /\ \A s \in Socket : Readable(s) => Readable(s)'

(* Every step of the peers has that effect. *)
LEMMA PeersEffect ==
  ASSUME CoreInv, NetOK, Peers
  PROVE  PeerEffect
<1>1. /\ wire \in [Socket -> {"absent", "open", "closed", "reset", "aborted"}]
      /\ inbox \in [Client -> Nat] /\ backlog \in Nat
      /\ AuthLink \in Socket \ Client /\ Client \subseteq Socket
  BY ChatServerAssumption DEF NetOK, Client
<1>2. UNCHANGED <<loopVars, activeConnections>>
  BY DEF Peers, ClientConnects, LinkFault, AuthServerAnswers, ClientSends, ClientFault, LoopUnchanged
<1>3. CASE ClientConnects
  BY <1>1, <1>2, <1>3
     DEF ClientConnects, PeerEffect, NetOK, Readable, Broken, Pending, linkVars
<1>4. ASSUME NEW s \in Client, ClientSends(s) PROVE PeerEffect
  <2>1. /\ inbox' \in [Client -> Nat] /\ inbox'[s] > 0
        /\ \A t \in Client \ {s} : inbox'[t] = inbox[t]
    BY <1>1, <1>4 DEF ClientSends
  <2>2. UNCHANGED <<wire, backlog, replies>>
    BY <1>4 DEF ClientSends, linkVars
  <2> QED BY <1>1, <1>2, <2>1, <2>2 DEF PeerEffect, NetOK, Readable, Broken, Pending, Client
<1>5. ASSUME NEW s \in Socket, NEW faults, Closes(s, faults) \/ Breaks(s, faults)
      PROVE  /\ wire' \in [Socket -> {"absent", "open", "closed", "reset", "aborted"}]
             /\ wire'[s] \in {"closed", "reset", "aborted"}
             /\ \A t \in Socket \ {s} : wire'[t] = wire[t]
  BY <1>1, <1>5 DEF Closes, Breaks
<1>6. ASSUME NEW s \in Client, ClientFault(s) PROVE PeerEffect
  <2>1. /\ inbox' \in [Client -> Nat]
        /\ \A t \in Client \ {s} : inbox'[t] = inbox[t]
        /\ UNCHANGED <<backlog, replies>>
    BY <1>1, <1>6 DEF ClientFault, linkVars
  <2>2. /\ wire' \in [Socket -> {"absent", "open", "closed", "reset", "aborted"}]
        /\ wire'[s] \in {"closed", "reset", "aborted"}
        /\ \A t \in Socket \ {s} : wire'[t] = wire[t]
    BY <1>1, <1>5, <1>6 DEF ClientFault
  <2> QED BY <1>1, <1>2, <2>1, <2>2 DEF PeerEffect, NetOK, Readable, Broken, Pending, Client
<1>7. CASE LinkFault
  <2>1. /\ wire' \in [Socket -> {"absent", "open", "closed", "reset", "aborted"}]
        /\ wire'[AuthLink] \in {"closed", "reset", "aborted"}
        /\ \A t \in Socket \ {AuthLink} : wire'[t] = wire[t]
    BY <1>1, <1>5, <1>7 DEF LinkFault
  <2>2. UNCHANGED <<inbox, backlog>>
    BY <1>7 DEF LinkFault
  <2> QED BY <1>1, <1>2, <2>1, <2>2 DEF PeerEffect, NetOK, Readable, Broken, Pending
<1>8. CASE AuthServerAnswers
  <2>1. UNCHANGED <<wire, inbox, backlog>>
    BY <1>8 DEF AuthServerAnswers, netVars
  <2>2. replies' # <<>>
    <3>1. PICK e : replies' = Append(replies, e)
      BY <1>8 DEF AuthServerAnswers
    <3>2. PICK S : replies \in Seq(S)
      BY DEF CoreInv, LoginsWereAsked
    <3>3. replies \in Seq(S \cup {e})
      BY <3>2, SeqMonotonic
    <3>4. Len(replies') = Len(replies) + 1 /\ Len(replies) \in Nat
      BY <3>1, <3>3, AppendProperties
    <3> QED BY <3>4
  <2> QED BY <1>1, <1>2, <2>1, <2>2 DEF PeerEffect, NetOK, Readable, Broken, Pending
<1> QED BY <1>3, <1>4, <1>6, <1>7, <1>8 DEF Peers

(* Every visit of a client has that effect. *)
LEMMA ClientVisitEffect ==
  ASSUME CoreInv, NetOK, NEW s \in Socket, ClientVisit(s)
  PROVE  VisitEffect(s)
<1>1. Visiting(s) /\ s \in Client
  BY DEF ClientVisit, ChatPacket, JoinCommand, LeaveCommand, NickCommand, HelpCommand,
         UnknownCommand, AccountCommand, ReplyPacket, ClientDisconnect, Receive
<1>2. VisitDone \/ VisitSkipped \/ StopServing \/ Crash
  BY ClientVisitScan
<1>3. CASE ClientDisconnect(s)
  <2>1. UNCHANGED <<wire, backlog, inbox, replies>>
    BY <1>3 DEF ClientDisconnect, netVars, linkVars
  <2>2. activeConnections' = EraseFirst(activeConnections, s) /\ next' = Index + 1
    BY <1>3 DEF ClientDisconnect, SendAndSkip, VisitSkipped
  <2> QED BY <1>1, <1>2, <2>1, <2>2 DEF VisitEffect, NetOK
<1>4. CASE ~ClientDisconnect(s)
  <2>1. \E command : Receive(s, command)
    BY <1>4 DEF ClientVisit, ChatPacket, JoinCommand, LeaveCommand, NickCommand, HelpCommand,
                UnknownCommand, AccountCommand, ReplyPacket
  <2>2. UNCHANGED <<wire, backlog, replies, activeConnections>>
    BY <2>1 DEF Receive
  <2>3. PICK k \in 1 .. MaxCoalesce : k <= inbox[s] /\ inbox' = [inbox EXCEPT ![s] = @ - k]
    BY <2>1 DEF Receive
  <2>4. inbox' \in [Client -> Nat] /\ \A t \in Client \ {s} : inbox'[t] = inbox[t]
    BY <1>1, <2>3, ChatServerAssumption DEF NetOK
  <2> QED BY <1>1, <1>2, <2>2, <2>4 DEF VisitEffect
<1> QED BY <1>3, <1>4

(* Every step, as far as the scan is concerned. *)
LEMMA StepVisit ==
  ASSUME CoreInv, NetOK, [Next]_vars
  PROVE  \/ \E s : VisitEffect(s)
         \/ Select /\ NetOK'
         \/ BackToSelect /\ NetOK'
         \/ PeerEffect
<1>1. CASE UNCHANGED vars
  BY <1>1 DEF vars, netVars, linkVars, loopVars, PeerEffect, NetOK, Readable, Broken, Pending
<1>2. CASE SelectTimeout \/ Stopped
  BY <1>1, <1>2 DEF SelectTimeout, Stopped
<1>3. CASE Select
  BY <1>3 DEF Select, netVars, NetOK
<1>4. CASE NothingToAccept
  BY <1>4 DEF NothingToAccept, netVars, NetOK
<1>5. CASE AcceptFails
  BY <1>5 DEF AcceptFails, NetOK
<1>6. ASSUME NEW s \in Socket, Accept(s) PROVE BackToSelect /\ NetOK'
  BY <1>6 DEF Accept, NetOK, Client
<1>7. ASSUME NEW s \in Socket, ClientVisit(s) PROVE VisitEffect(s)
  BY <1>7, ClientVisitEffect
<1>8. ASSUME NEW s \in Socket, ReceiveError(s) PROVE VisitEffect(s)
  BY <1>8 DEF ReceiveError, SendAndStop, netVars, linkVars, VisitEffect, NetOK
<1>9. CASE LinkDisconnect
  BY <1>9 DEF LinkDisconnect, netVars, linkVars, VisitEffect, NetOK, VisitSkipped, Crash
<1>10. CASE AuthReply
  BY <1>10 DEF AuthReply, HandleReply, Finish, netVars, VisitEffect, NetOK
<1>11. CASE Peers
  BY <1>11, PeersEffect
<1> QED
  BY <1>1, <1>2, <1>3, <1>4, <1>5, <1>6, <1>7, <1>8, <1>9, <1>10, <1>11 DEF Next, Server

-----------------------------------------------------------------------------
(* Whatever the scan has still to visit is readable, and whoever is to be  *)
(* accepted is waiting.  The sockets it has visited may have become        *)
(* unreadable and may still be in the ready set, left there by `continue`; *)
(* they lie behind the index.                                              *)
ReadyIsReadable ==
    phase = "scan" =>
        /\ \A k \in Unvisited : Readable(activeConnections[k])
        /\ Listen \in ready => backlog > 0

(* Erasing the visited socket moves those behind it one place forward. *)
LEMMA ErasedShift ==
  ASSUME CoreInv, NEW i \in DOMAIN activeConnections
  PROVE  LET rest == EraseFirst(activeConnections, activeConnections[i]) IN
         /\ Len(rest) = Len(activeConnections) - 1
         /\ \A k \in i .. Len(rest) : rest[k] = activeConnections[k + 1]
<1> DEFINE s == activeConnections[i]
<1>1. activeConnections \in Seq(Socket) /\ IsInjective(activeConnections)
  BY DEF CoreInv, ConnectionsOK, UsersAreConnections
<1>2. \A j \in DOMAIN activeConnections : activeConnections[j] = s => j = i
  BY <1>1 DEF IsInjective
<1>3. FirstIndex(activeConnections, s) = i
  BY <1>1, <1>2 DEF FirstIndex
<1>4. EraseFirst(activeConnections, s) = RemoveAt(activeConnections, i)
  BY <1>3 DEF EraseFirst, ToSet
<1> HIDE DEF s
<1>5. /\ Len(RemoveAt(activeConnections, i)) = Len(activeConnections) - 1
      /\ \A k \in 1 .. (Len(activeConnections) - 1) :
           RemoveAt(activeConnections, i)[k] =
             IF k < i THEN activeConnections[k] ELSE activeConnections[k + 1]
  BY <1>1, RemoveAtElements
<1> QED BY <1>1, <1>4, <1>5 DEF s

(* What a visit leaves to be visited was to be visited before, and is not  *)
(* the socket just visited.                                                *)
LEMMA LeftToVisit ==
  ASSUME CoreInv, NEW s, VisitEffect(s), phase' = "scan", NEW k \in Unvisited'
  PROVE  \E j \in Unvisited : /\ activeConnections'[k] = activeConnections[j]
                              /\ activeConnections[j] # s /\ activeConnections[j] \in Socket
<1>1. /\ Index \in Unvisited /\ Index \in DOMAIN activeConnections
      /\ s = activeConnections[Index]
  BY VisitedIsActive DEF VisitEffect, CoreInv
<1>2. /\ activeConnections \in Seq(Socket) /\ IsInjective(activeConnections)
      /\ next \in Nat \ {0} /\ next <= Index
  BY <1>1 DEF CoreInv, ConnectionsOK, UsersAreConnections, Unvisited
<1>3. next' = Index + 1 /\ ready' \subseteq ready
  BY DEF VisitEffect, VisitDone, VisitSkipped, StopServing, Crash
<1>4. k \in Index + 1 .. Len(activeConnections') /\ activeConnections'[k] \in ready
  BY <1>3 DEF Unvisited, Selected
<1>5. CASE activeConnections' = activeConnections
  <2>1. k \in DOMAIN activeConnections /\ k # Index /\ k \in Unvisited
    BY <1>1, <1>2, <1>4, <1>5 DEF Unvisited, Selected
  <2> QED BY <1>1, <1>2, <1>5, <2>1 DEF IsInjective
<1>6. CASE activeConnections' = EraseFirst(activeConnections, s)
  <2>1. /\ Len(activeConnections') = Len(activeConnections) - 1
        /\ \A j \in Index .. Len(activeConnections') : activeConnections'[j] = activeConnections[j + 1]
    BY <1>1, <1>6, ErasedShift
  <2>2. activeConnections'[k] = activeConnections[k + 1]
    BY <1>1, <1>2, <1>4, <2>1
  <2>3. k + 1 \in DOMAIN activeConnections /\ k + 1 # Index /\ k + 1 \in Unvisited
    BY <1>1, <1>2, <1>4, <2>1, <2>2 DEF Unvisited, Selected
  <2> QED BY <1>1, <1>2, <2>2, <2>3 DEF IsInjective
<1> QED BY <1>5, <1>6 DEF VisitEffect

(* Every step keeps what is left of the ready set readable. *)
LEMMA ReadyNext ==
  ASSUME CoreInv, NetOK, ReadyIsReadable, [Next]_vars
  PROVE  NetOK' /\ ReadyIsReadable'
<1>1. ASSUME NEW s, VisitEffect(s) PROVE NetOK' /\ ReadyIsReadable'
  <2>1. NetOK'
    BY <1>1 DEF VisitEffect, NetOK
  <2>2. SUFFICES ASSUME phase' = "scan"
                 PROVE  /\ \A k \in Unvisited' : Readable(activeConnections[k])'
                        /\ Listen \in ready' => backlog' > 0
    BY <2>1 DEF ReadyIsReadable
  <2>3. phase = "scan" /\ ready' \subseteq ready /\ backlog' = backlog
    BY <1>1 DEF VisitEffect, Visiting, VisitDone, VisitSkipped, StopServing, Crash
  <2>4. ASSUME NEW k \in Unvisited' PROVE Readable(activeConnections[k])'
    <3>1. PICK j \in Unvisited : /\ activeConnections'[k] = activeConnections[j]
                                 /\ activeConnections[j] # s /\ activeConnections[j] \in Socket
      BY <1>1, <2>2, LeftToVisit
    <3>2. Readable(activeConnections[j])
      BY <2>3 DEF ReadyIsReadable
    <3> QED BY <1>1, <3>1, <3>2 DEF VisitEffect, Readable, Broken, Pending, Client
  <2> QED BY <2>3, <2>4 DEF ReadyIsReadable
<1>2. CASE Select /\ NetOK'
  <2>1. /\ ready' = ReadyNow /\ activeConnections' = activeConnections
        /\ UNCHANGED <<wire, inbox, backlog, replies>>
    BY <1>2 DEF Select, netVars, linkVars
  <2>2. Listen \notin Socket /\ Watched \subseteq Socket
    BY ChatServerAssumption DEF Watched, CoreInv, ConnectionsOK
  <2>3. \A s \in ReadyNow : s \in Socket => Readable(s)
    BY <2>2 DEF ReadyNow
  <2>4. Listen \in ReadyNow => backlog > 0
    BY <2>2 DEF ReadyNow
  <2>5. next' = 1
    BY <1>2 DEF Select
  <2>6. \A k \in Unvisited' : activeConnections[k] \in ReadyNow \cap Socket
    BY <2>1, <2>5 DEF Unvisited, Selected, CoreInv, ConnectionsOK
  <2> QED BY <1>2, <2>1, <2>3, <2>4, <2>6 DEF ReadyIsReadable, Readable, Broken, Pending
<1>3. CASE BackToSelect /\ NetOK'
  BY <1>3 DEF BackToSelect, ReadyIsReadable
<1>4. CASE PeerEffect
  <2>1. Unvisited' = Unvisited /\ activeConnections' = activeConnections
    BY <1>4 DEF PeerEffect, loopVars, Unvisited, Selected
  <2>2. \A k \in Unvisited : activeConnections[k] \in Socket
    BY DEF Unvisited, CoreInv, ConnectionsOK
  <2>3. backlog \in Nat /\ backlog' \in Nat /\ backlog <= backlog'
    BY <1>4 DEF PeerEffect, NetOK
  <2>4. UNCHANGED <<phase, ready>> /\ NetOK'
    BY <1>4 DEF PeerEffect, loopVars
  <2> QED BY <1>4, <2>1, <2>2, <2>3, <2>4 DEF ReadyIsReadable, PeerEffect
<1> QED BY <1>1, <1>2, <1>3, <1>4, StepVisit

(* It holds throughout. *)
LEMMA ReadyHolds == Spec => [](CoreInv /\ NetOK /\ ReadyIsReadable)
<1>1. Init => NetOK /\ ReadyIsReadable
  BY ChatServerAssumption DEF Init, NetOK, ReadyIsReadable, Client
<1>2. CoreInv /\ NetOK /\ ReadyIsReadable /\ [Next]_vars => NetOK' /\ ReadyIsReadable'
  BY ReadyNext
<1> QED BY <1>1, <1>2, CoreInvHolds, PTL DEF Spec

(* NeverBlocks: the thread calls recv() and accept() only when they return *)
(* at once, although `continue` leaves sockets in the ready set and count  *)
(* too high.                                                               *)
THEOREM ThreadNeverBlocks == Spec => []NeverBlocks
<1>1. CoreInv /\ NetOK /\ ReadyIsReadable => NeverBlocks
  <2> SUFFICES ASSUME CoreInv, NetOK, ReadyIsReadable PROVE NeverBlocks
    OBVIOUS
  <2>1. ASSUME NEW s \in Socket, Visiting(s) PROVE Readable(s)
    BY <2>1, VisitedIsActive DEF CoreInv, Visiting, ReadyIsReadable
  <2>2. ASSUME WillAccept PROVE backlog > 0
    BY <2>2 DEF WillAccept, ScanOver, ReadyIsReadable
  <2> QED BY <2>1, <2>2 DEF NeverBlocks
<1> QED BY <1>1, ReadyHolds, PTL

-----------------------------------------------------------------------------
(* count never falls below the number of sockets left in the ready set:    *)
(* each decrement goes with an FD_CLR.                                     *)
CountOK ==
    /\ phase \in {"select", "scan", "down", "crashed"}
    /\ ready \subseteq Socket \cup {Listen} /\ IsFiniteSet(ready)
    /\ count \in Nat /\ Cardinality(ready) <= count

(* What select() reports can be counted. *)
LEMMA ReadyNowFinite ==
  ASSUME ConnectionsOK
  PROVE  ReadyNow \subseteq Socket \cup {Listen} /\ IsFiniteSet(ReadyNow)
<1> DEFINE all == ToSet(activeConnections)
<1>1. activeConnections \in Surjection(1 .. Len(activeConnections), all)
  BY DEF ConnectionsOK, Surjection, ToSet
<1>2. IsFiniteSet(1 .. Len(activeConnections))
  BY FS_Interval DEF ConnectionsOK
<1>3. IsFiniteSet(all)
  <2> HIDE DEF all
  <2> QED BY <1>1, <1>2, FS_Surjection
<1>4. all \subseteq Socket /\ ReadyNow \subseteq all \cup {Listen}
  BY DEF ConnectionsOK, ReadyNow, Watched, ToSet
<1> HIDE DEF all
<1>5. IsFiniteSet(all \cup {Listen})
  BY <1>3, FS_AddElement
<1> QED BY <1>4, <1>5, FS_Subset

(* No step takes more from count than from the ready set. *)
LEMMA CountNext ==
  ASSUME CoreInv, CountOK, [Next]_vars
  PROVE  CountOK'
<1>1. CASE UNCHANGED loopVars
  BY <1>1 DEF loopVars, CountOK
<1>2. CASE phase' = "scan" /\ ready' = ReadyNow /\ count' = Cardinality(ReadyNow)
  <2>1. ReadyNow \subseteq Socket \cup {Listen} /\ IsFiniteSet(ReadyNow)
    BY ReadyNowFinite DEF CoreInv
  <2> QED BY <1>2, <2>1, FS_CardinalityType DEF CountOK
<1>3. CASE BackToSelect
  BY <1>3, FS_EmptySet DEF BackToSelect, CountOK
<1>4. ASSUME NEW s, Visiting(s), VisitDone PROVE CountOK'
  <2>1. s \in ready /\ ready' = ready \ {s} /\ count' = count - 1 /\ phase' = phase
    BY <1>4, VisitedIsActive DEF CoreInv, VisitDone
  <2>2. IsFiniteSet(ready') /\ Cardinality(ready') = Cardinality(ready) - 1
    BY <2>1, FS_RemoveElement DEF CountOK
  <2>3. Cardinality(ready) \in Nat /\ Cardinality(ready') \in Nat
    BY <2>2, FS_CardinalityType DEF CountOK
  <2> QED BY <2>1, <2>2, <2>3 DEF CountOK
<1>5. CASE VisitSkipped \/ StopServing \/ Crash
  BY <1>5 DEF VisitSkipped, StopServing, Crash, CountOK
<1> QED BY <1>1, <1>2, <1>3, <1>4, <1>5, StepScan DEF ScanEffect

(* ChatTypeOK: every variable of the loop and of the network keeps its     *)
(* type; count in particular is never negative.                            *)
THEOREM ChatTypeCorrect == Spec => []ChatTypeOK
<1>1. Init => SentOK /\ CountOK
  BY EmptyVector, FS_EmptySet DEF Init, SentOK, CountOK
<1>2. CoreInv /\ SentOK /\ CountOK /\ [Next]_vars => SentOK' /\ CountOK'
  BY SentNext, CountNext
<1>3. CoreInv /\ NetOK /\ SentOK /\ CountOK => ChatTypeOK
  BY DEF CoreInv, RegistryInv, ConnectionsOK, LoginsWereAsked, NetOK, SentOK, CountOK, ChatTypeOK
<1> QED BY <1>1, <1>2, <1>3, ReadyHolds, PTL DEF Spec
=============================================================================
