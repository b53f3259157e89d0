----------------------- MODULE SessionRegistryProofs -----------------------
(***************************************************************************)
(* Proofs about SessionRegistry: its vectors and its two maps stay well    *)
(* typed, free of duplicates and in step with each other, for every set of *)
(* sockets, rooms and nicknames and however the methods are called.        *)
(***************************************************************************)
EXTENDS SessionRegistry, VectorFacts, SequenceTheorems, TLAPS

(* Erasing the first occurrence from a vector without duplicates removes   *)
(* the element and keeps the others.                                       *)
LEMMA EraseFirstProperties ==
  ASSUME NEW S, NEW q \in Seq(S), NEW e, IsInjective(q)
  PROVE  /\ EraseFirst(q, e) \in Seq(S)
         /\ IsInjective(EraseFirst(q, e))
         /\ ToSet(EraseFirst(q, e)) = ToSet(q) \ {e}
<1>1. CASE e \in ToSet(q)
  <2>1. PICK k \in DOMAIN q : q[k] = e
    BY <1>1 DEF ToSet
  <2>2. \A j \in DOMAIN q : q[j] = e => k <= j
    BY <2>1 DEF IsInjective
  <2>3. FirstIndex(q, e) \in DOMAIN q /\ q[FirstIndex(q, e)] = e
    BY <2>1, <2>2 DEF FirstIndex
  <2> QED BY <1>1, <2>3, RemoveAtElements, RemoveAtInjective DEF EraseFirst
<1>2. CASE e \notin ToSet(q)
  BY <1>2 DEF EraseFirst
<1> QED BY <1>1, <1>2

(* The same for erasing the last occurrence. *)
LEMMA EraseLastProperties ==
  ASSUME NEW S, NEW q \in Seq(S), NEW e, IsInjective(q)
  PROVE  /\ EraseLast(q, e) \in Seq(S)
         /\ IsInjective(EraseLast(q, e))
         /\ ToSet(EraseLast(q, e)) = ToSet(q) \ {e}
<1>1. CASE e \in ToSet(q)
  <2>1. PICK k \in DOMAIN q : q[k] = e
    BY <1>1 DEF ToSet
  <2>2. \A j \in DOMAIN q : q[j] = e => j <= k
    BY <2>1 DEF IsInjective
  <2>3. LastIndex(q, e) \in DOMAIN q /\ q[LastIndex(q, e)] = e
    BY <2>1, <2>2 DEF LastIndex
  <2> QED BY <1>1, <2>3, RemoveAtElements, RemoveAtInjective DEF EraseLast
<1>2. CASE e \notin ToSet(q)
  BY <1>2 DEF EraseLast
<1> QED BY <1>1, <1>2

(* The empty vector has no elements. *)
LEMMA EmptyVector ==
  ASSUME NEW S
  PROVE  << >> \in Seq(S) /\ IsInjective(<< >>) /\ ToSet(<< >>) = {}
BY DEF IsInjective, ToSet

-----------------------------------------------------------------------------
(* The inductive invariant.  No conjunct is inductive alone: addToRoom     *)
(* checks the USER's list before it appends to the ROOM's vector, so that  *)
(* the vector stays free of duplicates only because NoPhantomMember holds; *)
(* removeFromRoom walks the user's list to find the vectors to clean, so   *)
(* NoPhantomMember survives only because NoLostMember and NoDuplicates do. *)
RegistryInv ==
    /\ RegistryTypeOK
    /\ NoDuplicates
    /\ NoPhantomMember
    /\ NoLostMember

(* At start both maps and the vector are empty. *)
LEMMA RegistryInvInit == RegistryInit => RegistryInv
<1> SUFFICES ASSUME RegistryInit PROVE RegistryInv
  OBVIOUS
<1>1. RegistryTypeOK
  BY EmptyVector DEF RegistryInit, RegistryTypeOK
<1>2. NoDuplicates
  BY EmptyVector DEF RegistryInit, NoDuplicates
<1> QED BY <1>1, <1>2 DEF RegistryInv, RegistryInit, NoPhantomMember, NoLostMember

(* initializeUser adds a user without rooms, or does nothing. *)
LEMMA InitializeUserInv ==
  ASSUME RegistryInv, NEW s \in Socket, InitializeUser(s)
  PROVE  RegistryInv'
<1> USE DEF RegistryInv
<1>1. CASE s \in DOMAIN userInfo
  <2>1. userInfo' = userInfo
    BY <1>1 DEF InitializeUser
  <2> QED BY <2>1 DEF InitializeUser, RegistryTypeOK, NoDuplicates, NoPhantomMember, NoLostMember
<1>2. CASE s \notin DOMAIN userInfo
  <2>1. /\ DOMAIN userInfo' = DOMAIN userInfo \cup {s}
        /\ \A t \in DOMAIN userInfo : userInfo'[t] = userInfo[t]
        /\ userInfo'[s] = [username |-> NoName, rooms |-> << >>]
        /\ userInfo' = [t \in DOMAIN userInfo' |-> userInfo'[t]]
    BY <1>2 DEF InitializeUser, Put
  <2>2. userInfo'[s] \in UserInfo /\ IsInjective(userInfo'[s].rooms) /\ ToSet(userInfo'[s].rooms) = {}
    BY <2>1, EmptyVector DEF UserInfo, Username
  <2>3. roomMap' = roomMap /\ authedUsers' = authedUsers /\ misused' = misused
    BY DEF InitializeUser
  <2>4. RegistryTypeOK'
    BY <2>1, <2>2, <2>3 DEF RegistryTypeOK
  <2>5. NoDuplicates'
    BY <2>1, <2>2, <2>3 DEF NoDuplicates
  <2>6. NoPhantomMember'
    BY <2>1, <2>3 DEF NoPhantomMember
  <2>7. NoLostMember'
    BY <2>1, <2>2, <2>3 DEF NoLostMember
  <2> QED BY <2>4, <2>5, <2>6, <2>7
<1> QED BY <1>1, <1>2

(* setUsername touches no list of rooms. *)
LEMMA SetUsernameInv ==
  ASSUME RegistryInv, NEW s \in Socket, NEW n \in Name, SetUsername(s, n)
  PROVE  RegistryInv'
<1> USE DEF RegistryInv
<1>1. /\ DOMAIN userInfo' = DOMAIN userInfo
      /\ \A t \in DOMAIN userInfo : userInfo'[t] \in UserInfo /\ userInfo'[t].rooms = userInfo[t].rooms
      /\ userInfo' = [t \in DOMAIN userInfo |-> userInfo'[t]]
  BY DEF SetUsername, RegistryTypeOK, UserInfo, Username
<1>2. roomMap' = roomMap /\ authedUsers' = authedUsers /\ misused' = misused
  BY DEF SetUsername
<1>3. RegistryTypeOK'
  BY <1>1, <1>2 DEF RegistryTypeOK
<1>4. NoDuplicates' /\ NoPhantomMember' /\ NoLostMember'
  BY <1>1, <1>2 DEF NoDuplicates, NoPhantomMember, NoLostMember
<1> QED BY <1>3, <1>4

(* addToRoom appends to both vectors, or to none. *)
LEMMA AddToRoomInv ==
  ASSUME RegistryInv, NEW s \in Socket, NEW r \in Room, AddToRoom(s, r)
  PROVE  RegistryInv'
<1> USE DEF RegistryInv
<1>1. CASE ~CanAdd(s, r)
  BY <1>1 DEF AddToRoom, RegistryTypeOK, NoDuplicates, NoPhantomMember, NoLostMember
<1>2. CASE CanAdd(s, r)
  <2> DEFINE room == Append(GetRoomUsers(r), s)
             list == Append(userInfo[s].rooms, r)
  <2>1. /\ GetRoomUsers(r) \in Seq(Socket) /\ IsInjective(GetRoomUsers(r))
        /\ s \notin ToSet(GetRoomUsers(r))
    BY <1>2, EmptyVector DEF GetRoomUsers, CanAdd, RegistryTypeOK, NoDuplicates, NoPhantomMember
  <2>2. room \in Seq(Socket) /\ IsInjective(room) /\ ToSet(room) = ToSet(GetRoomUsers(r)) \cup {s}
    BY <2>1, PushBackProperties
  <2>3. /\ userInfo[s].rooms \in Seq(Room) /\ IsInjective(userInfo[s].rooms)
        /\ s \in DOMAIN userInfo /\ r \notin ToSet(userInfo[s].rooms)
    BY <1>2 DEF CanAdd, RegistryTypeOK, NoDuplicates, UserInfo
  <2>4. list \in Seq(Room) /\ IsInjective(list) /\ ToSet(list) = ToSet(userInfo[s].rooms) \cup {r}
    BY <2>3, PushBackProperties
  <2>5. /\ DOMAIN roomMap' = DOMAIN roomMap \cup {r}
        /\ roomMap'[r] = room
        /\ \A q \in DOMAIN roomMap \ {r} : roomMap'[q] = roomMap[q]
        /\ roomMap' = [q \in DOMAIN roomMap' |-> roomMap'[q]]
    BY <1>2 DEF AddToRoom, Put
  <2>6. /\ DOMAIN userInfo' = DOMAIN userInfo
        /\ userInfo'[s] = [username |-> userInfo[s].username, rooms |-> list]
        /\ \A t \in DOMAIN userInfo \ {s} : userInfo'[t] = userInfo[t]
        /\ userInfo' = [t \in DOMAIN userInfo |-> userInfo'[t]]
        /\ authedUsers' = authedUsers /\ misused' = misused
    BY <1>2, <2>3 DEF AddToRoom, RegistryTypeOK, UserInfo
  <2> HIDE DEF room, list
  <2>7. userInfo'[s] \in UserInfo /\ userInfo'[s].rooms = list
    BY <2>3, <2>4, <2>6 DEF RegistryTypeOK, UserInfo
  <2>8. RegistryTypeOK'
    BY <2>2, <2>5, <2>6, <2>7 DEF RegistryTypeOK
  <2>9. NoDuplicates'
    BY <2>2, <2>4, <2>5, <2>6, <2>7 DEF NoDuplicates
  <2>10. NoPhantomMember'
    <3> SUFFICES ASSUME NEW q \in DOMAIN roomMap', NEW t \in ToSet(roomMap'[q])
                 PROVE  t \in DOMAIN userInfo' /\ q \in ToSet(userInfo'[t].rooms)
      BY DEF NoPhantomMember
    <3>1. CASE t = s /\ q = r
      BY <3>1, <2>3, <2>4, <2>6, <2>7
    <3>2. CASE ~(t = s /\ q = r)
      <4>1. q \in DOMAIN roomMap /\ t \in ToSet(roomMap[q])
        BY <3>2, <2>2, <2>5, EmptyVector DEF GetRoomUsers
      <4> QED BY <4>1, <2>4, <2>6, <2>7 DEF NoPhantomMember
    <3> QED BY <3>1, <3>2
  <2>11. NoLostMember'
    <3> SUFFICES ASSUME NEW t \in DOMAIN userInfo', NEW q \in ToSet(userInfo'[t].rooms)
                 PROVE  q \in DOMAIN roomMap' /\ t \in ToSet(roomMap'[q])
      BY DEF NoLostMember
    <3>1. CASE t = s /\ q = r
      BY <3>1, <2>2, <2>5
    <3>2. CASE ~(t = s /\ q = r)
      <4>1. t \in DOMAIN userInfo /\ q \in ToSet(userInfo[t].rooms)
        BY <3>2, <2>4, <2>6, <2>7
      <4> QED BY <4>1, <2>2, <2>5 DEF NoLostMember, GetRoomUsers
    <3> QED BY <3>1, <3>2
  <2> QED BY <2>8, <2>9, <2>10, <2>11
<1> QED BY <1>1, <1>2

(* What the inner loop of removeFromRoom leaves of the rooms. *)
LEMMA RoomsWithoutProperties ==
  ASSUME RegistryInv, NEW s \in Socket, NEW left
  PROVE  /\ DOMAIN RoomsWithout(s, left) = DOMAIN roomMap
         /\ RoomsWithout(s, left) \in [DOMAIN roomMap -> Seq(Socket)]
         /\ \A q \in DOMAIN roomMap :
              /\ IsInjective(RoomsWithout(s, left)[q])
              /\ ToSet(RoomsWithout(s, left)[q]) =
                   IF q \in left THEN ToSet(roomMap[q]) \ {s} ELSE ToSet(roomMap[q])
<1>1. \A q \in DOMAIN roomMap : roomMap[q] \in Seq(Socket) /\ IsInjective(roomMap[q])
  BY DEF RegistryInv, RegistryTypeOK, NoDuplicates
<1>2. \A q \in DOMAIN roomMap :
        /\ EraseFirst(roomMap[q], s) \in Seq(Socket)
        /\ IsInjective(EraseFirst(roomMap[q], s))
        /\ ToSet(EraseFirst(roomMap[q], s)) = ToSet(roomMap[q]) \ {s}
  BY <1>1, EraseFirstProperties
<1> QED BY <1>1, <1>2 DEF RoomsWithout

(* removeFromRoom(socket, room) erases from both vectors, or from none. *)
LEMMA RemoveFromRoomInv ==
  ASSUME RegistryInv, NEW s \in DOMAIN userInfo, NEW r \in Room, RemoveFromRoom(s, r)
  PROVE  RegistryInv'
<1> USE DEF RegistryInv
<1>1. CASE ~IsInRoom(s, r)
  BY <1>1 DEF RemoveFromRoom, Dereference, RegistryTypeOK, NoDuplicates, NoPhantomMember,
              NoLostMember
<1>2. CASE IsInRoom(s, r)
  <2> DEFINE rooms == RoomsWithout(s, {r})
             list == EraseLast(userInfo[s].rooms, r)
  <2>1. /\ roomMap' = rooms
        /\ DOMAIN rooms = DOMAIN roomMap
        /\ rooms \in [DOMAIN roomMap -> Seq(Socket)]
        /\ \A q \in DOMAIN roomMap :
             /\ IsInjective(rooms[q])
             /\ ToSet(rooms[q]) = IF q = r THEN ToSet(roomMap[q]) \ {s} ELSE ToSet(roomMap[q])
    <3>1. s \in Socket
      BY DEF RegistryTypeOK
    <3>2. roomMap' = rooms
      BY <1>2 DEF RemoveFromRoom
    <3> QED BY <3>1, <3>2, RoomsWithoutProperties
  <2>2. userInfo[s].rooms \in Seq(Room) /\ IsInjective(userInfo[s].rooms)
    BY DEF RegistryTypeOK, NoDuplicates, UserInfo
  <2>3. list \in Seq(Room) /\ IsInjective(list) /\ ToSet(list) = ToSet(userInfo[s].rooms) \ {r}
    BY <2>2, EraseLastProperties
  <2>4. /\ DOMAIN userInfo' = DOMAIN userInfo
        /\ userInfo'[s] = [username |-> userInfo[s].username, rooms |-> list]
        /\ \A t \in DOMAIN userInfo \ {s} : userInfo'[t] = userInfo[t]
        /\ userInfo' = [t \in DOMAIN userInfo |-> userInfo'[t]]
        /\ authedUsers' = authedUsers /\ misused' = misused
    BY <1>2 DEF RemoveFromRoom, Dereference, RegistryTypeOK, UserInfo
  <2> HIDE DEF rooms, list
  <2>5. userInfo'[s] \in UserInfo /\ userInfo'[s].rooms = list
    BY <2>3, <2>4 DEF RegistryTypeOK, UserInfo
  <2>6. RegistryTypeOK'
    BY <2>1, <2>4, <2>5 DEF RegistryTypeOK
  <2>7. NoDuplicates'
    BY <2>1, <2>3, <2>4, <2>5 DEF NoDuplicates
  <2>8. NoPhantomMember'
    <3> SUFFICES ASSUME NEW q \in DOMAIN roomMap, NEW t \in ToSet(rooms[q])
                 PROVE  t \in DOMAIN userInfo' /\ q \in ToSet(userInfo'[t].rooms)
      BY <2>1 DEF NoPhantomMember
    <3>1. t \in ToSet(roomMap[q]) /\ ~(q = r /\ t = s)
      BY <2>1
    <3> QED BY <3>1, <2>3, <2>4, <2>5 DEF NoPhantomMember
  <2>9. NoLostMember'
    <3> SUFFICES ASSUME NEW t \in DOMAIN userInfo, NEW q \in ToSet(userInfo'[t].rooms)
                 PROVE  q \in DOMAIN roomMap' /\ t \in ToSet(roomMap'[q])
      BY <2>4 DEF NoLostMember
    <3>1. q \in ToSet(userInfo[t].rooms) /\ ~(q = r /\ t = s)
      BY <2>3, <2>4, <2>5
    <3> QED BY <3>1, <2>1 DEF NoLostMember
  <2> QED BY <2>6, <2>7, <2>8, <2>9
<1> QED BY <1>1, <1>2

(* removeFromRoom(socket, -1) leaves no trace of the user in either map. *)
LEMMA PurgeUserInv ==
  ASSUME RegistryInv, NEW s \in DOMAIN userInfo, PurgeUser(s)
  PROVE  RegistryInv'
<1> USE DEF RegistryInv
<1> DEFINE mine == ToSet(userInfo[s].rooms)
           rooms == RoomsWithout(s, mine)
<1> HIDE DEF mine
<1>1. /\ roomMap' = rooms
      /\ DOMAIN rooms = DOMAIN roomMap
      /\ rooms \in [DOMAIN roomMap -> Seq(Socket)]
      /\ \A q \in DOMAIN roomMap :
           /\ IsInjective(rooms[q])
           /\ ToSet(rooms[q]) = IF q \in mine THEN ToSet(roomMap[q]) \ {s} ELSE ToSet(roomMap[q])
  <2>1. s \in Socket
    BY DEF RegistryTypeOK
  <2>2. roomMap' = rooms
    BY DEF PurgeUser, GetUserRooms, mine
  <2>3. /\ DOMAIN rooms = DOMAIN roomMap
        /\ rooms \in [DOMAIN roomMap -> Seq(Socket)]
        /\ \A q \in DOMAIN roomMap :
             /\ IsInjective(rooms[q])
             /\ ToSet(rooms[q]) = IF q \in mine THEN ToSet(roomMap[q]) \ {s} ELSE ToSet(roomMap[q])
    BY <2>1, RoomsWithoutProperties
  <2> QED BY <2>2, <2>3
<1>2. /\ DOMAIN userInfo' = DOMAIN userInfo \ {s}
      /\ \A t \in DOMAIN userInfo \ {s} : userInfo'[t] = userInfo[t]
      /\ userInfo' = [t \in DOMAIN userInfo' |-> userInfo'[t]]
      /\ authedUsers' = authedUsers /\ misused' = misused
  BY DEF PurgeUser, Dereference, Restrict
<1> HIDE DEF rooms
<1>3. RegistryTypeOK'
  BY <1>1, <1>2 DEF RegistryTypeOK
<1>4. NoDuplicates'
  BY <1>1, <1>2 DEF NoDuplicates
<1>5. NoPhantomMember'
  <2> SUFFICES ASSUME NEW q \in DOMAIN roomMap, NEW t \in ToSet(rooms[q])
               PROVE  t \in DOMAIN userInfo' /\ q \in ToSet(userInfo'[t].rooms)
    BY <1>1 DEF NoPhantomMember
  <2>1. t \in ToSet(roomMap[q]) /\ t \in DOMAIN userInfo /\ q \in ToSet(userInfo[t].rooms)
    BY <1>1 DEF NoPhantomMember
  <2>2. t # s
    BY <2>1, <1>1 DEF mine
  <2> QED BY <2>1, <2>2, <1>2
<1>6. NoLostMember'
  <2> SUFFICES ASSUME NEW t \in DOMAIN userInfo', NEW q \in ToSet(userInfo'[t].rooms)
               PROVE  q \in DOMAIN roomMap' /\ t \in ToSet(roomMap'[q])
    BY DEF NoLostMember
  <2>1. t \in DOMAIN userInfo /\ t # s /\ q \in ToSet(userInfo[t].rooms)
    BY <1>2
  <2> QED BY <2>1, <1>1 DEF NoLostMember
<1> QED BY <1>3, <1>4, <1>5, <1>6

(* removeFromRoom(socket, -1) of a socket the map does not hold: the        *)
(* history of misuse grows, and the class's members are as they were.      *)
LEMMA MisuseInv ==
  ASSUME RegistryInv, NEW s \in Socket \ DOMAIN userInfo, PurgeUser(s)
  PROVE  /\ roomMap' = roomMap /\ userInfo' = userInfo /\ authedUsers' = authedUsers
         /\ RegistryInv'
<1>1. roomMap' = roomMap
  <2>1. ToSet(GetUserRooms(s)) = {}
    BY EmptyVector DEF GetUserRooms
  <2>2. roomMap = [r \in DOMAIN roomMap |-> roomMap[r]]
    BY DEF RegistryInv, RegistryTypeOK
  <2> QED BY <2>1, <2>2 DEF PurgeUser, RoomsWithout
<1>2. userInfo' = userInfo
  <2>1. DOMAIN userInfo \ {s} = DOMAIN userInfo
    OBVIOUS
  <2>2. userInfo = [t \in DOMAIN userInfo |-> userInfo[t]]
    BY DEF RegistryInv, RegistryTypeOK
  <2> QED BY <2>1, <2>2 DEF PurgeUser, Restrict
<1>3. authedUsers' = authedUsers /\ misused' = misused \cup {s}
  BY DEF PurgeUser, Dereference
<1> QED BY <1>1, <1>2, <1>3
        DEF RegistryInv, RegistryTypeOK, NoDuplicates, NoPhantomMember, NoLostMember

(* AddAuthedUser appends an absent socket, or does nothing. *)
LEMMA AddAuthedUserInv ==
  ASSUME RegistryInv, NEW s \in Socket, AddAuthedUser(s)
  PROVE  RegistryInv'
<1> USE DEF RegistryInv
<1>1. authedUsers' \in Seq(Socket) /\ IsInjective(authedUsers')
  BY PushBackProperties DEF AddAuthedUser, IsUserAuthed, RegistryTypeOK, NoDuplicates
<1>2. roomMap' = roomMap /\ userInfo' = userInfo /\ misused' = misused
  BY DEF AddAuthedUser
<1>3. RegistryTypeOK' /\ NoDuplicates'
  BY <1>1, <1>2 DEF RegistryTypeOK, NoDuplicates
<1> QED BY <1>2, <1>3 DEF NoPhantomMember, NoLostMember

-----------------------------------------------------------------------------

(* Every call keeps the invariant. *)
LEMMA RegistryInvNext == RegistryInv /\ [RegistryNext]_registryVars => RegistryInv'
<1> SUFFICES ASSUME RegistryInv, [RegistryNext]_registryVars PROVE RegistryInv'
  OBVIOUS
<1>1. CASE UNCHANGED registryVars
  BY <1>1 DEF registryVars, RegistryInv, RegistryTypeOK, NoDuplicates, NoPhantomMember, NoLostMember
<1>2. ASSUME NEW s \in Socket, InitializeUser(s) PROVE RegistryInv'
  BY <1>2, InitializeUserInv
<1>3. ASSUME NEW s \in Socket, AddAuthedUser(s) PROVE RegistryInv'
  BY <1>3, AddAuthedUserInv
<1>4. ASSUME NEW s \in Socket, NEW n \in Name, SetUsername(s, n) PROVE RegistryInv'
  BY <1>4, SetUsernameInv
<1>5. ASSUME NEW s \in Socket, NEW r \in Room, AddToRoom(s, r) PROVE RegistryInv'
  BY <1>5, AddToRoomInv
<1>6. ASSUME NEW s \in Socket, s \in DOMAIN userInfo, NEW r \in Room, RemoveFromRoom(s, r) PROVE RegistryInv'
  BY <1>6, RemoveFromRoomInv
<1>7. ASSUME NEW s \in Socket, s \in DOMAIN userInfo, PurgeUser(s) PROVE RegistryInv'
  BY <1>7, PurgeUserInv
<1> QED BY <1>1, <1>2, <1>3, <1>4, <1>5, <1>6, <1>7 DEF RegistryNext

(* The members of cUserRoomInfoHandler keep their types: RegistryTypeOK    *)
(* holds in every state the class can reach.                               *)
THEOREM RegistryTypeCorrect == RegistrySpec => []RegistryTypeOK
<1>1. RegistryInv => RegistryTypeOK
  BY DEF RegistryInv
<1> QED BY <1>1, RegistryInvInit, RegistryInvNext, PTL DEF RegistrySpec

(* No vector of the class ever holds an element twice, so erasing the      *)
(* first occurrence erases the only one (lines 36-43).                     *)
THEOREM RegistryNoDuplicates == RegistrySpec => []NoDuplicates
<1>1. RegistryInv => NoDuplicates
  BY DEF RegistryInv
<1> QED BY <1>1, RegistryInvInit, RegistryInvNext, PTL DEF RegistrySpec

(* The two maps never disagree about who is in which room: no member of a  *)
(* room's vector is unknown or has left, and no user's list names a room   *)
(* whose vector misses the user.                                           *)
THEOREM RegistryMapsAgree == RegistrySpec => [](NoPhantomMember /\ NoLostMember)
<1>1. RegistryInv => NoPhantomMember /\ NoLostMember
  BY DEF RegistryInv
<1> QED BY <1>1, RegistryInvInit, RegistryInvNext, PTL DEF RegistrySpec

(* No user's list names a room whose vector misses the user: who the       *)
(* server says is in a room is told what is said there.                    *)
THEOREM RegistryLosesNobody == RegistrySpec => []NoLostMember
<1>1. RegistryInv => NoLostMember
  BY DEF RegistryInv
<1> QED BY <1>1, RegistryInvInit, RegistryInvNext, PTL DEF RegistrySpec

-----------------------------------------------------------------------------
(* A vector keeps the order of all but one socket when that one is         *)
(* appended, and when its first occurrence is erased.                      *)
LEMMA AppendKeepsOrder ==
  ASSUME NEW q \in Seq(Socket), NEW s \in Socket, NEW t \in Socket \ {s}, NEW u \in Socket \ {s}
  PROVE  StandsBefore(Append(q, s), t, u) <=> StandsBefore(q, t, u)
<1> DEFINE b == Append(q, s)
<1>1. /\ b \in Seq(Socket) /\ Len(b) = Len(q) + 1
      /\ \A i \in 1 .. Len(q) : b[i] = q[i]
      /\ b[Len(q) + 1] = s
  BY AppendProperties
<1> HIDE DEF b
<1>2. \A i \in DOMAIN b : b[i] # s => i \in DOMAIN q /\ b[i] = q[i]
  BY <1>1
<1>3. \A i \in DOMAIN q : i \in DOMAIN b /\ b[i] = q[i]
  BY <1>1
<1>4. StandsBefore(b, t, u) <=> StandsBefore(q, t, u)
  BY <1>2, <1>3 DEF StandsBefore
<1> QED BY <1>4 DEF b

LEMMA EraseFirstKeepsOrder ==
  ASSUME NEW q \in Seq(Socket), IsInjective(q),
         NEW s \in Socket, NEW t \in Socket \ {s}, NEW u \in Socket \ {s}
  PROVE  StandsBefore(EraseFirst(q, s), t, u) <=> StandsBefore(q, t, u)
<1>1. CASE s \notin ToSet(q)
  BY <1>1 DEF EraseFirst
<1>2. CASE s \in ToSet(q)
  <2> DEFINE k == FirstIndex(q, s)
             b == RemoveAt(q, k)
  <2>1. k \in DOMAIN q /\ q[k] = s
    <3>1. PICK i \in DOMAIN q : q[i] = s
      BY <1>2 DEF ToSet
    <3>2. \A j \in DOMAIN q : q[j] = s => i <= j
      BY <3>1 DEF IsInjective
    <3> QED BY <3>1, <3>2 DEF FirstIndex
  <2> HIDE DEF k
  <2>2. /\ b \in Seq(Socket) /\ Len(b) = Len(q) - 1
        /\ \A i \in 1 .. (Len(q) - 1) : b[i] = IF i < k THEN q[i] ELSE q[i + 1]
    BY <2>1, RemoveAtElements
  <2> HIDE DEF b
  <2> DEFINE Old(i) == IF i < k THEN i ELSE i + 1
             New(i) == IF i < k THEN i ELSE i - 1
  <2>3. Len(q) \in Nat /\ DOMAIN q = 1 .. Len(q) /\ DOMAIN b = 1 .. (Len(q) - 1) /\ k \in 1 .. Len(q)
    BY <2>1, <2>2
  <2>4. \A i \in DOMAIN b : Old(i) \in DOMAIN q /\ b[i] = q[Old(i)]
    BY <2>2, <2>3
  <2>5. \A i \in DOMAIN q \ {k} : New(i) \in DOMAIN b /\ Old(New(i)) = i
    BY <2>3
  <2>6. /\ \A i, j \in DOMAIN b : i <= j => Old(i) <= Old(j)
        /\ \A i, j \in DOMAIN q \ {k} : i <= j => New(i) <= New(j)
    BY <2>3
  <2>7. \A i \in DOMAIN q \ {k} : b[New(i)] = q[i]
    BY <2>4, <2>5
  <2> HIDE DEF Old, New
  <2>8. StandsBefore(b, t, u) => StandsBefore(q, t, u)
    BY <2>4, <2>6 DEF StandsBefore
  <2>9. StandsBefore(q, t, u) => StandsBefore(b, t, u)
    <3>1. \A i \in DOMAIN q : q[i] = t \/ q[i] = u => i # k
      BY <2>1
    <3> QED BY <3>1, <2>5, <2>6, <2>7 DEF StandsBefore
  <2>10. EraseFirst(q, s) = b
    BY <1>2 DEF EraseFirst, b, k
  <2> QED BY <2>8, <2>9, <2>10
<1> QED BY <1>1, <1>2

(* What the inner loop of removeFromRoom leaves of the order of a room.    *)
LEMMA RoomsWithoutKeepsOrder ==
  ASSUME RegistryInv, NEW s \in Socket, NEW left, NEW r \in DOMAIN roomMap,
         NEW t \in Socket \ {s}, NEW u \in Socket \ {s}
  PROVE  StandsBefore(RoomsWithout(s, left)[r], t, u) <=> StandsBefore(roomMap[r], t, u)
<1>1. roomMap[r] \in Seq(Socket) /\ IsInjective(roomMap[r])
  BY DEF RegistryInv, RegistryTypeOK, NoDuplicates
<1>2. StandsBefore(EraseFirst(roomMap[r], s), t, u) <=> StandsBefore(roomMap[r], t, u)
  BY <1>1, EraseFirstKeepsOrder
<1> QED BY <1>2 DEF RoomsWithout

(* Every method changes the vectors and the lists of one socket only.      *)
LEMMA OneUserPerCallStep ==
  ASSUME RegistryInv, NEW s \in Socket,
         \/ InitializeUser(s)
         \/ AddAuthedUser(s)
         \/ \E n \in Name : SetUsername(s, n)
         \/ \E r \in Room : AddToRoom(s, r)
         \/ s \in DOMAIN userInfo /\ \E r \in Room : RemoveFromRoom(s, r)
         \/ s \in DOMAIN userInfo /\ PurgeUser(s)
  PROVE  OneUserPerCall
<1> DEFINE Rooms == \A r \in DOMAIN roomMap : r \in DOMAIN roomMap' /\
                      \A t, u \in Socket \ {s} :
                        StandsBefore(roomMap'[r], t, u) <=> StandsBefore(roomMap[r], t, u)
           Lists == \A t \in DOMAIN userInfo \ {s} :
                      t \in DOMAIN userInfo' /\ userInfo'[t] = userInfo[t]
<1> SUFFICES Rooms /\ Lists
  BY DEF OneUserPerCall
<1>1. CASE InitializeUser(s) \/ AddAuthedUser(s) \/ \E n \in Name : SetUsername(s, n)
  <2>1. roomMap' = roomMap
    BY <1>1 DEF InitializeUser, AddAuthedUser, SetUsername
  <2>2. Lists
    BY <1>1 DEF InitializeUser, AddAuthedUser, SetUsername, Put
  <2> QED BY <2>1, <2>2
<1>2. ASSUME NEW r \in Room, AddToRoom(s, r) PROVE Rooms /\ Lists
  <2>1. CASE ~CanAdd(s, r)
    BY <1>2, <2>1 DEF AddToRoom
  <2>2. CASE CanAdd(s, r)
    <3>1. /\ r \in DOMAIN roomMap => roomMap'[r] = Append(roomMap[r], s)
          /\ \A q \in DOMAIN roomMap : q \in DOMAIN roomMap' /\ (q # r => roomMap'[q] = roomMap[q])
      BY <1>2, <2>2 DEF AddToRoom, Put, GetRoomUsers
    <3>2. r \in DOMAIN roomMap => roomMap[r] \in Seq(Socket)
      BY DEF RegistryInv, RegistryTypeOK
    <3>3. ASSUME NEW q \in DOMAIN roomMap, NEW t \in Socket \ {s}, NEW u \in Socket \ {s}
          PROVE  StandsBefore(roomMap'[q], t, u) <=> StandsBefore(roomMap[q], t, u)
      <4>1. CASE q # r
        BY <3>1, <4>1
      <4>2. CASE q = r
        <5>1. roomMap[r] \in Seq(Socket) /\ roomMap'[r] = Append(roomMap[r], s)
          BY <3>1, <3>2, <4>2
        <5>2. StandsBefore(Append(roomMap[r], s), t, u) <=> StandsBefore(roomMap[r], t, u)
          BY <5>1, AppendKeepsOrder
        <5> QED BY <4>2, <5>1, <5>2
      <4> QED BY <4>1, <4>2
    <3>4. Lists
      BY <1>2, <2>2 DEF AddToRoom
    <3> QED BY <3>1, <3>3, <3>4
  <2> QED BY <2>1, <2>2
<1>3. ASSUME NEW r \in Room, s \in DOMAIN userInfo, RemoveFromRoom(s, r) PROVE Rooms /\ Lists
  <2>1. CASE ~IsInRoom(s, r)
    BY <1>3, <2>1 DEF RemoveFromRoom
  <2>2. CASE IsInRoom(s, r)
    <3>1. roomMap' = RoomsWithout(s, {r}) /\ Lists
      BY <1>3, <2>2 DEF RemoveFromRoom
    <3>2. DOMAIN roomMap' = DOMAIN roomMap
      BY <3>1 DEF RoomsWithout
    <3> QED BY <3>1, <3>2, RoomsWithoutKeepsOrder
  <2> QED BY <2>1, <2>2
<1>4. ASSUME PurgeUser(s) PROVE Rooms /\ Lists
  <2>1. roomMap' = RoomsWithout(s, ToSet(GetUserRooms(s))) /\ Lists
    BY <1>4 DEF PurgeUser, Restrict
  <2>2. DOMAIN roomMap' = DOMAIN roomMap
    BY <2>1 DEF RoomsWithout
  <2> QED BY <2>1, <2>2, RoomsWithoutKeepsOrder
<1> QED BY <1>1, <1>2, <1>3, <1>4

(* A call about one user moves no other user: the others keep their places *)
(* in the order of every room's vector (the order in which a broadcast     *)
(* reaches them) and their own lists (removeFromRoom, addToRoom).              *)
THEOREM RegistryLeavesOthersAlone == RegistrySpec => OthersUndisturbed
<1>1. RegistryInv /\ [RegistryNext]_registryVars => [OneUserPerCall]_registryVars
  BY OneUserPerCallStep DEF RegistryNext
<1> QED BY <1>1, RegistryInvInit, RegistryInvNext, PTL DEF RegistrySpec, OthersUndisturbed
=============================================================================
