-------------------------- MODULE SessionRegistry --------------------------
(***************************************************************************)
(* The chat server's session state: class cUserRoomInfoHandler             *)
(* (TCPServerWithSelect/cUserRoomInfoHandler.cpp).                         *)
(*                                                                         *)
(* The class stores room membership TWICE: room_map gives the sockets of a *)
(* room, userinfo_map the rooms of a socket.  Nothing but the order of its *)
(* statements keeps the two in step.  Its third member, authedUsers, is    *)
(* append-only: no method ever removes a socket from it.                   *)
(*                                                                         *)
(* Each method is an operator: the mutators are actions on the variables   *)
(* they assign, the getters are state functions.  A method's Boolean       *)
(* result is an operator of its own.  The standalone specification at the  *)
(* end calls the methods in any order a caller that keeps to the class's   *)
(* contract may: removeFromRoom dereferences find(socket) unchecked (lines *)
(* 20-22), so it may be called only for a socket that was initialised.     *)
(* A call that breaks the contract is undefined behaviour; what the class  *)
(* does then is that its maps stay as they are, what the process does is   *)
(* its caller's to say, and `misused` remembers the call.                  *)
(*                                                                         *)
(* Operators named <definition>_<fault> are mutants: plausible bugs that    *)
(* the properties are shown to detect.  No specification uses them.        *)
(*                                                                         *)
(* Abstracted: a room number and a nickname are model values; sockets are  *)
(* the handles accept() returned.                                          *)
(***************************************************************************)
EXTENDS Integers, Sequences, FiniteSets, TLC, Functions, SequencesExt

CONSTANTS
    Socket,     \* socket handles
    Room,       \* room numbers
    Name,       \* non-empty nicknames
    NoName      \* the empty string: "Don't let user enter rooms unless ..."

ASSUME NoNameAssumption == NoName \notin Name

VARIABLES
    roomMap,      \* room_map: a partial function, room -> vector of sockets
    userInfo,     \* userinfo_map: a partial function, socket -> UserInfo
    authedUsers,  \* vector of authorised sockets
    misused       \* history: sockets removed without an entry in userinfo_map

registryVars == <<roomMap, userInfo, authedUsers, misused>>

Username == Name \cup {NoName}

UserInfo == [username : Username, rooms : Seq(Room)]

-----------------------------------------------------------------------------
(* Getters.  A missing key answers the empty value. *)

GetRoomUsers(r) == IF r \in DOMAIN roomMap THEN roomMap[r] ELSE <<>>

GetUserRooms(s) == IF s \in DOMAIN userInfo THEN userInfo[s].rooms ELSE <<>>

GetUsername(s) == IF s \in DOMAIN userInfo THEN userInfo[s].username ELSE NoName

IsUserAuthed(s) == s \in ToSet(authedUsers)

-----------------------------------------------------------------------------
(* Mutators. *)

(* The map with its entry for a key set. *)
Put(map, key, value) ==
    [k \in DOMAIN map \cup {key} |-> IF k = key THEN value ELSE map[k]]

(* std::map::insert leaves an existing entry alone. *)
InitializeUser(s) ==
    /\ userInfo' = IF s \in DOMAIN userInfo
                   THEN userInfo
                   ELSE Put(userInfo, s, [username |-> NoName, rooms |-> <<>>])
    /\ UNCHANGED <<roomMap, authedUsers, misused>>

SetUsername(s, n) ==
    /\ userInfo' = IF s \in DOMAIN userInfo
                   THEN [userInfo EXCEPT ![s].username = n]
                   ELSE userInfo
    /\ UNCHANGED <<roomMap, authedUsers, misused>>

(* Mutant: the loop over the user's rooms is left out. *)
CanAdd_again(s, r) == s \in DOMAIN userInfo

(* addToRoom answers true exactly when it adds. *)
CanAdd(s, r) == s \in DOMAIN userInfo /\ r \notin ToSet(userInfo[s].rooms)

AddToRoom(s, r) ==
    /\ IF CanAdd(s, r)
       THEN /\ roomMap' = Put(roomMap, r, Append(GetRoomUsers(r), s))
            /\ userInfo' = [userInfo EXCEPT ![s].rooms = Append(@, r)]
       ELSE UNCHANGED <<roomMap, userInfo>>
    /\ UNCHANGED <<authedUsers, misused>>

(* The inner loop stops at the first occurrence of the socket in a room's  *)
(* vector; the outer one remembers the last matching index of the user's   *)
(* own rooms.                                                              *)
FirstIndex(seq, e) ==
    CHOOSE i \in DOMAIN seq : seq[i] = e /\ \A j \in DOMAIN seq : seq[j] = e => i <= j

LastIndex(seq, e) ==
    CHOOSE i \in DOMAIN seq : seq[i] = e /\ \A j \in DOMAIN seq : seq[j] = e => j <= i

(* Mutants: the element is overwritten, not erased; the front is erased.   *)
EraseFirst_overwrites(seq, e) ==
    IF e \in ToSet(seq) THEN [seq EXCEPT ![FirstIndex(seq, e)] = 0] ELSE seq

EraseFirst_front(seq, e) == IF e \in ToSet(seq) THEN Tail(seq) ELSE seq

EraseFirst(seq, e) ==
    IF e \in ToSet(seq) THEN RemoveAt(seq, FirstIndex(seq, e)) ELSE seq

EraseLast(seq, e) ==
    IF e \in ToSet(seq) THEN RemoveAt(seq, LastIndex(seq, e)) ELSE seq

(* s leaves the vector of each of the rooms `left`; a room emptied this    *)
(* way stays in the map.                                                   *)
RoomsWithout(s, left) ==
    [r \in DOMAIN roomMap |-> IF r \in left THEN EraseFirst(roomMap[r], s)
                                            ELSE roomMap[r]]

(* removeFromRoom(socket, room) answers true exactly when it removes. *)
IsInRoom(s, r) == r \in ToSet(GetUserRooms(s))

(* `itInfo->second` for a socket that the map does not hold. *)
Dereference(s) ==
    misused' = IF s \in DOMAIN userInfo THEN misused ELSE misused \cup {s}

(* Mutant: roomToLeave is not compared, every vector loses the user. *)
RemoveFromRoom_everywhere(s, r) ==
    /\ IF IsInRoom(s, r)
       THEN /\ roomMap' = RoomsWithout(s, DOMAIN roomMap)
            /\ userInfo' = [userInfo EXCEPT ![s].rooms = EraseLast(@, r)]
       ELSE UNCHANGED <<roomMap, userInfo>>
    /\ Dereference(s)
    /\ UNCHANGED authedUsers

RemoveFromRoom(s, r) ==
    /\ IF IsInRoom(s, r)
       THEN /\ roomMap' = RoomsWithout(s, {r})
            /\ userInfo' = [userInfo EXCEPT ![s].rooms = EraseLast(@, r)]
       ELSE UNCHANGED <<roomMap, userInfo>>
    /\ Dereference(s)
    /\ UNCHANGED authedUsers

(* Mutant: only the last of the user's rooms is cleaned. *)
PurgeUser_lastRoom(s) ==
    /\ roomMap' = LET rooms == GetUserRooms(s) IN
                  RoomsWithout(s, IF rooms = <<>> THEN {} ELSE {Last(rooms)})
    /\ userInfo' = Restrict(userInfo, DOMAIN userInfo \ {s})
    /\ Dereference(s)
    /\ UNCHANGED authedUsers

(* removeFromRoom(socket, -1): every room, then the user's entry.  The     *)
(* socket's authorisation is not touched.                                  *)
PurgeUser(s) ==
    /\ roomMap' = RoomsWithout(s, ToSet(GetUserRooms(s)))
    /\ userInfo' = Restrict(userInfo, DOMAIN userInfo \ {s})
    /\ Dereference(s)
    /\ UNCHANGED authedUsers

AddAuthedUser(s) ==
    /\ authedUsers' = IF IsUserAuthed(s) THEN authedUsers ELSE Append(authedUsers, s)
    /\ UNCHANGED <<roomMap, userInfo, misused>>

-----------------------------------------------------------------------------
(* The class under any caller that respects removeFromRoom's contract. *)

RegistryInit ==
    /\ roomMap = [r \in {} |-> <<>>]
    /\ userInfo = [s \in {} |-> <<>>]
    /\ authedUsers = <<>>
    /\ misused = {}

RegistryNext ==
    \E s \in Socket :
        \/ InitializeUser(s)
        \/ AddAuthedUser(s)
        \/ \E n \in Name : SetUsername(s, n)
        \/ \E r \in Room : AddToRoom(s, r)
        \/ s \in DOMAIN userInfo /\ \E r \in Room : RemoveFromRoom(s, r)
        \/ s \in DOMAIN userInfo /\ PurgeUser(s)

RegistrySpec == RegistryInit /\ [][RegistryNext]_registryVars

-----------------------------------------------------------------------------
(* Properties. *)

(* Types of the three members and of the history. *)
RegistryTypeOK ==
    /\ DOMAIN roomMap \subseteq Room
    /\ roomMap \in [DOMAIN roomMap -> Seq(Socket)]
    /\ DOMAIN userInfo \subseteq Socket
    /\ userInfo \in [DOMAIN userInfo -> UserInfo]
    /\ authedUsers \in Seq(Socket)
    /\ misused \subseteq Socket

(* No vector holds an element twice: removeFromRoom erases only the first  *)
(* occurrence, so a second copy would outlive the user, and a broadcast    *)
(* would reach that user twice.                                            *)
NoDuplicates ==
    /\ \A r \in DOMAIN roomMap : IsInjective(roomMap[r])
    /\ \A s \in DOMAIN userInfo : IsInjective(userInfo[s].rooms)
    /\ IsInjective(authedUsers)

(* Whoever a room's vector names is a known user who has the room in its   *)
(* own list: a broadcast never reaches a socket that left or disconnected. *)
NoPhantomMember ==
    \A r \in DOMAIN roomMap : \A s \in ToSet(roomMap[r]) :
        s \in DOMAIN userInfo /\ r \in ToSet(userInfo[s].rooms)

(* Every room in a user's list has the user in its vector: the user gets   *)
(* what is said in every room the server says it is in.                    *)
NoLostMember ==
    \A s \in DOMAIN userInfo : \A r \in ToSet(userInfo[s].rooms) :
        r \in DOMAIN roomMap /\ s \in ToSet(roomMap[r])

(* t stands in the vector, at or before u: the order of joining, and with  *)
(* t = u membership.                                                       *)
StandsBefore(room, t, u) ==
    \E i, j \in DOMAIN room : i <= j /\ room[i] = t /\ room[j] = u

(* A call about one socket leaves every other member of every room in its  *)
(* place in the order of joining, and every other user's list alone.       *)
OneUserPerCall ==
    \E s \in Socket :
        /\ \A r \in DOMAIN roomMap : r \in DOMAIN roomMap' /\
              \A t, u \in Socket \ {s} :
                 StandsBefore(roomMap'[r], t, u) <=> StandsBefore(roomMap[r], t, u)
        /\ \A t \in DOMAIN userInfo \ {s} :
              t \in DOMAIN userInfo' /\ userInfo'[t] = userInfo[t]

OthersUndisturbed == [][OneUserPerCall]_registryVars
=============================================================================
