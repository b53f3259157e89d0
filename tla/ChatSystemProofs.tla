-------------------------- MODULE ChatSystemProofs --------------------------
(***************************************************************************)
(* The two servers together, for any number of clients, requests, faults   *)
(* and crashes.  The auth server's steps here are steps of AuthServer, so  *)
(* what is proved of it alone holds here.                                  *)
(***************************************************************************)
EXTENDS ChatSystem, ChatServerProofs

AuthProofs == INSTANCE AuthServerProofs WITH
    Peer <- {AuthLink}, Asker <- Asker, Kinds <- {"register", "login"},
    PeerFaults <- LinkFaults, MaxPackets <- MaxRequests, MaxBacklog <- 1,
    activeConnections <- authConnections, handles <- authHandles, phase <- authPhase,
    ready <- authReady, next <- authNext, request <- authRequest, userID <- authUserID,
    answer <- authAnswer, wire <- authWire, inbox <- authInbox, backlog <- authBacklog,
    crashes <- authCrashes

(* What AuthServer assumes of its constants. *)
LEMMA AuthAssumed ==
    /\ Listen \notin {AuthLink}
    /\ TooLong \subseteq Email
    /\ ShortPassword \subseteq Password
    /\ NoRequest \notin AuthProofs!Request
    /\ NoAnswer \notin AuthProofs!Answer
    /\ LinkFaults \subseteq {"close", "reset", "abort"}
    /\ DatabaseFaults \in BOOLEAN
    /\ {"register", "login"} \subseteq {"register", "login"}
    /\ MaxCoalesce \in Nat \ {0}
    /\ MaxRequests \in Nat
    /\ 1 \in Nat
    /\ MaxCrashes \in Nat
<1>1. AuthProofs!Request = Request /\ AuthProofs!Answer = Auth!Answer
  BY DEF AuthProofs!Request, AuthProofs!Answer, Request, Auth!Answer, Auth!Request
<1> QED BY <1>1, ChatServerAssumption, SystemAssumption DEF FaultKinds

AuthInv == AuthProofs!AuthInv /\ AuthProofs!ScanInv

(* The instance of the proofs is that of the model. *)
LEMMA SameAuth == AuthProofs!Next = Auth!Next
BY DEF Auth!tables, AuthProofs!tables, Auth!loopVars, AuthProofs!loopVars, Auth!netVars,
       AuthProofs!netVars, Auth!vars, AuthProofs!vars, Auth!Statements,
       AuthProofs!Statements, Auth!Running, AuthProofs!Running, Auth!Broken,
       AuthProofs!Broken, Auth!Readable, AuthProofs!Readable, Auth!SaysGoodbye,
       AuthProofs!SaysGoodbye, Auth!HasPacket, AuthProofs!HasPacket, Auth!IsActive,
       AuthProofs!IsActive, Auth!ReadyNow, AuthProofs!ReadyNow, Auth!Unvisited,
       AuthProofs!Unvisited, Auth!Index, AuthProofs!Index, Auth!Visiting,
       AuthProofs!Visiting, Auth!count, AuthProofs!count, Auth!ScanOver,
       AuthProofs!ScanOver, Auth!WillAccept, AuthProofs!WillAccept, Auth!Continue,
       AuthProofs!Continue, Auth!Reply, AuthProofs!Reply, Auth!Proceed,
       AuthProofs!Proceed, Auth!Die, AuthProofs!Die, Auth!Kill, AuthProofs!Kill,
       Auth!AtStatement, AuthProofs!AtStatement, Auth!StatementThrows,
       AuthProofs!StatementThrows, Auth!Start, AuthProofs!Start, Auth!Emails,
       AuthProofs!Emails, Auth!CheckExisting, AuthProofs!CheckExisting, Auth!Row,
       AuthProofs!Row, Auth!Receive, AuthProofs!Receive, Auth!CreateAccount,
       AuthProofs!CreateAccount, Auth!Greatest, AuthProofs!Greatest, Auth!NextId,
       AuthProofs!NextId, Auth!InsertUser, AuthProofs!InsertUser, Auth!LastId,
       AuthProofs!LastId, Auth!SelectId, AuthProofs!SelectId, Auth!InsertAccount,
       AuthProofs!InsertAccount, Auth!ReplyRegistered, AuthProofs!ReplyRegistered,
       Auth!Authenticate, AuthProofs!Authenticate, Auth!GetAccount,
       AuthProofs!GetAccount, Auth!UpdateUser, AuthProofs!UpdateUser,
       Auth!GetCreationDate, AuthProofs!GetCreationDate, Auth!Disconnect,
       AuthProofs!Disconnect, Auth!ReceiveError, AuthProofs!ReceiveError, Auth!Select,
       AuthProofs!Select, Auth!BackToSelect, AuthProofs!BackToSelect, Auth!Accept,
       AuthProofs!Accept, Auth!AcceptFails, AuthProofs!AcceptFails, Auth!NothingToAccept,
       AuthProofs!NothingToAccept, Auth!Handling, AuthProofs!Handling, Auth!Server,
       AuthProofs!Server, Auth!ServerUnchanged, AuthProofs!ServerUnchanged,
       Auth!PeerConnects, AuthProofs!PeerConnects, Auth!PeerSends, AuthProofs!PeerSends,
       Auth!PeerFault, AuthProofs!PeerFault, Auth!Peers, AuthProofs!Peers,
       Auth!SelectTimeout, AuthProofs!SelectTimeout, Auth!Stopped, AuthProofs!Stopped,
       Auth!Next, AuthProofs!Next, Auth!Request, AuthProofs!Request, Auth!ToSet,
       AuthProofs!ToSet, Auth!RemoveAt, AuthProofs!RemoveAt, Auth!Cardinality,
       AuthProofs!Cardinality

-----------------------------------------------------------------------------
(* Every step of the system is one of the auth server's, or none. *)
LEMMA AuthMoves ==
  ASSUME [SystemNext]_systemVars
  PROVE  [AuthProofs!Next]_AuthProofs!vars
<1>2. UNCHANGED authVars => UNCHANGED AuthProofs!vars
  BY DEF AuthProofs!vars, AuthProofs!tables, AuthProofs!loopVars, AuthProofs!netVars, authVars
<1>3. CASE ChatThread \/ ClientStep \/ NetworkFault
  BY <1>2, <1>3 DEF ChatThread, ClientStep, NetworkFault
<1>4. CASE AuthThread \/ AuthEnds \/ RequestArrives \/ AuthHears
  <2>1. Auth!Next
    BY <1>4 DEF AuthThread, AuthEnds, RequestArrives, AuthHears, Auth!Next, Auth!Peers
  <2> QED BY <2>1, SameAuth
<1>5. CASE SystemStopped \/ SystemIdle \/ UNCHANGED systemVars
  BY <1>2, <1>5 DEF SystemStopped, SystemIdle, systemVars
<1> QED BY <1>3, <1>4, <1>5 DEF SystemNext

LEMMA AuthInvStarts == SystemInit => AuthInv
<1> SUFFICES ASSUME SystemInit PROVE AuthInv
  OBVIOUS
<1>1. AuthProofs!AuthTypeOK
  BY AuthAssumed DEF SystemInit, AuthProofs!AuthTypeOK, AuthProofs!Statements
<1>2. /\ AuthProofs!IdsConsecutive /\ AuthProofs!AccountsHaveUsers
      /\ AuthProofs!AccountsAreDistinct /\ AuthProofs!OrphansUnseen
  <2>1. DOMAIN users = 1 .. 0 /\ DOMAIN accounts = {}
    BY DEF SystemInit
  <2> QED
    BY <2>1 DEF AuthProofs!IdsConsecutive, AuthProofs!AccountsHaveUsers, AuthProofs!UserIds,
                AuthProofs!AccountsAreDistinct, AuthProofs!OrphansUnseen
<1>3. AuthProofs!StatementOK
  BY DEF SystemInit, AuthProofs!StatementOK, AuthProofs!Statements
<1>4. AuthProofs!ScanInv
  BY AuthAssumed, AuthProofs!EmptyIsInjective
     DEF SystemInit, AuthProofs!ScanInv, AuthProofs!VectorOK, AuthProofs!PendingReadable,
         AuthProofs!Statements
<1> QED BY <1>1, <1>2, <1>3, <1>4 DEF AuthInv, AuthProofs!AuthInv

LEMMA AuthInvGoesOn ==
  ASSUME AuthInv, [SystemNext]_systemVars
  PROVE  AuthInv'
<1>1. AuthProofs!AuthInv'
  BY AuthMoves, AuthAssumed, AuthProofs!AuthInvNext DEF AuthInv
<1>2. AuthProofs!ScanInv'
  BY AuthMoves, AuthAssumed, AuthProofs!ScanNext DEF AuthInv
<1> QED BY <1>1, <1>2 DEF AuthInv

-----------------------------------------------------------------------------
(* What the chat server sees of a step of the auth server. *)

(* The statements that handle a request of each kind. *)
HandledBy(kind) == IF kind = "register"
                   THEN {"insertUser", "selectId", "insertAccount", "reply"}
                   ELSE {"getAccount", "updateUser", "getDate"}

InHand == authPhase \in Auth!Statements

(* An answer belongs to the last visit; its connection is the only one. *)
AnswerIsLast ==
    /\ InHand => authPhase \in HandledBy(authRequest.kind)
    /\ authAnswer # NoAnswer => authPhase = "scan" /\ authNext > 1

Takes(k) ==
    /\ k \in 1 .. MaxCoalesce /\ k <= Len(authInbox[AuthLink])
    /\ authInbox' = [authInbox EXCEPT ![AuthLink] = SubSeq(@, k + 1, Len(@))]

Gives(q) ==
    /\ authAnswer' # NoAnswer /\ authAnswer'.request = q
    /\ ReplyKind[authAnswer'.what] \in Answers(q.kind)
    /\ authPhase' = "scan" /\ authNext' > 1

AuthEffect ==
    \/ authPhase' \in {"crashed", "down"} /\ authAnswer' = NoAnswer
    \/ /\ ~InHand /\ authPhase' \in {"select", "scan"}
       /\ authAnswer' = NoAnswer /\ UNCHANGED authInbox
    \/ /\ InHand /\ authPhase' \in HandledBy(authRequest.kind)
       /\ UNCHANGED <<authInbox, authRequest, authAnswer>>
    \/ InHand /\ Gives(authRequest) /\ UNCHANGED authInbox
    \/ /\ ~InHand /\ authAnswer = NoAnswer
       /\ \E k \in Nat : Takes(k)
       /\ Gives(Head(authInbox[AuthLink]))
    \/ /\ ~InHand /\ authAnswer = NoAnswer /\ authAnswer' = NoAnswer
       /\ \E k \in Nat : Takes(k)
       /\ authRequest' = Head(authInbox[AuthLink])
       /\ authPhase' \in HandledBy(authRequest'.kind)

LEMMA AuthTypes ==
  ASSUME AuthInv
  PROVE  /\ authInbox \in [{AuthLink} -> Seq(Request)]
         /\ authConnections \in Seq({AuthLink}) /\ Len(authConnections) <= 1
         /\ authNext \in Nat \ {0} /\ authUserID \in Nat
         /\ InHand => authRequest \in Request /\ authAnswer = NoAnswer /\ Auth!Unvisited # {}
<1>1. Auth!Statements = AuthProofs!Statements /\ Auth!Unvisited = AuthProofs!Unvisited
      /\ AuthProofs!Request = Request
  BY DEF Auth!Statements, AuthProofs!Statements, Auth!Unvisited, AuthProofs!Unvisited,
         AuthProofs!Request, Request
<1>2. /\ authInbox \in [{AuthLink} -> Seq(Request)] /\ authConnections \in Seq({AuthLink})
      /\ authNext \in Nat \ {0} /\ authUserID \in Nat
      /\ InHand => authRequest \in Request
  BY <1>1 DEF AuthInv, AuthProofs!AuthInv, AuthProofs!AuthTypeOK, InHand
<1>3. \A i, j \in DOMAIN authConnections : i = j
  BY <1>2 DEF AuthInv, AuthProofs!ScanInv, AuthProofs!VectorOK, AuthProofs!IsInjective
<1>4. Len(authConnections) <= 1
  <2>1. DOMAIN authConnections = 1 .. Len(authConnections) /\ Len(authConnections) \in Nat
    BY <1>2
  <2>2. SUFFICES ASSUME Len(authConnections) > 1 PROVE FALSE
    BY <2>1
  <2>3. 1 \in DOMAIN authConnections /\ 2 \in DOMAIN authConnections
    BY <2>1, <2>2
  <2>4. 1 = 2
    BY <1>3, <2>3
  <2> QED BY <2>4
<1> QED BY <1>1, <1>2, <1>4 DEF AuthInv, AuthProofs!AuthInv, AuthProofs!StatementOK, InHand

(* A visit of the scan is a visit of the link, and the only one. *)
LEMMA OneVisit ==
  ASSUME AuthInv, AnswerIsLast, Auth!Unvisited # {}
  PROVE  /\ Auth!Index = 1 /\ authConnections[Auth!Index] = AuthLink
         /\ authAnswer = NoAnswer
<1>0. /\ authConnections \in Seq({AuthLink}) /\ Len(authConnections) <= 1
      /\ authNext \in Nat \ {0}
  BY AuthTypes
<1>1. /\ Len(authConnections) \in Nat /\ Len(authConnections) <= 1
      /\ authNext \in Nat \ {0}
  BY <1>0
<1>2. PICK k \in Auth!Unvisited : k \in authNext .. Len(authConnections)
  BY DEF Auth!Unvisited
<1>3. Len(authConnections) = 1 /\ authNext = 1
  <2>1. ASSUME NEW n \in Nat, NEW m \in Nat \ {0}, NEW j \in m .. n, n <= 1
        PROVE  n = 1 /\ m = 1
    BY <2>1
  <2> QED BY <1>1, <1>2, <2>1
<1>4. \A j \in Auth!Unvisited : j = 1
  BY <1>3 DEF Auth!Unvisited
<1>5. Auth!Unvisited = {1}
  BY <1>4
<1>6. Auth!Index = 1
  BY <1>5 DEF Auth!Index
<1> QED BY <1>0, <1>3, <1>6 DEF AnswerIsLast

LEMMA ReplyGives ==
  ASSUME AuthInv, AnswerIsLast, Auth!Unvisited # {}, NEW q \in Request, NEW id \in Nat,
         NEW what \in {"registered", "exists", "weakPassword", "loggedIn", "denied"},
         what \in {"registered", "exists", "weakPassword"} <=> q.kind = "register",
         Auth!Reply(q, what, id)
  PROVE  Gives(q)
<1>1. /\ authAnswer' = [to |-> AuthLink, request |-> q, what |-> what, userId |-> id]
      /\ authPhase' = "scan" /\ authNext' = 2
  BY OneVisit DEF Auth!Reply, Auth!Continue
<1>2. authAnswer' \in Auth!Answer
  BY <1>1 DEF Auth!Answer, Auth!Request, Request
<1>3. authAnswer' # NoAnswer
  BY <1>2, SystemAssumption
<1>4. authAnswer'.request = q /\ authAnswer'.what = what
  BY <1>1
<1>5. ReplyKind[what] \in Answers(q.kind)
  BY DEF ReplyKind, Answers, Request
<1> QED BY <1>1, <1>3, <1>4, <1>5 DEF Gives

LEMMA ReceiveTakes ==
  ASSUME AuthInv, AnswerIsLast, Auth!Receive(AuthLink)
  PROVE  /\ ~InHand /\ Auth!Unvisited # {} /\ authAnswer = NoAnswer
         /\ Head(authInbox[AuthLink]) \in Request
         /\ \E k \in Nat : Takes(k)
<1>1. PICK k \in 1 .. MaxCoalesce :
         /\ k <= Len(authInbox[AuthLink])
         /\ authInbox' = [authInbox EXCEPT ![AuthLink] = SubSeq(@, k + 1, Len(@))]
  BY DEF Auth!Receive
<1>2. ~InHand /\ Auth!Unvisited # {}
  BY DEF Auth!Receive, Auth!Visiting, InHand, Auth!Statements
<1>3. authInbox[AuthLink] \in Seq(Request) /\ authInbox[AuthLink] # <<>>
  BY AuthTypes DEF Auth!Receive, Auth!HasPacket
<1>4. Head(authInbox[AuthLink]) \in Request
  BY <1>3
<1>5. k \in Nat
  OBVIOUS
<1> QED BY <1>1, <1>2, <1>4, <1>5, OneVisit DEF Takes

LEMMA RequestsAreTaken ==
  ASSUME AuthInv, AnswerIsLast, Auth!CreateAccount(AuthLink) \/ Auth!Authenticate(AuthLink)
  PROVE  AuthEffect
<1> DEFINE q == Head(authInbox[AuthLink])
<1>1. Auth!Receive(AuthLink)
  BY DEF Auth!CreateAccount, Auth!Authenticate
<1>2. /\ ~InHand /\ Auth!Unvisited # {} /\ authAnswer = NoAnswer /\ q \in Request
      /\ \E k \in Nat : Takes(k)
  BY <1>1, ReceiveTakes
<1>3. q.kind \in {"register", "login"}
  BY <1>2 DEF Request
<1>4. CASE Auth!CreateAccount(AuthLink)
  <2>1. \/ /\ q.kind = "register"
           /\ Auth!Reply(q, "exists", 0) \/ Auth!Reply(q, "weakPassword", 0)
        \/ /\ q.kind = "register" /\ authRequest' = q /\ authAnswer' = NoAnswer
           /\ authPhase' = "insertUser"
    BY <1>4 DEF Auth!CreateAccount, Auth!Proceed
  <2>2. ASSUME Auth!Reply(q, "exists", 0) \/ Auth!Reply(q, "weakPassword", 0),
               q.kind = "register"
        PROVE  Gives(q)
    BY <1>2, <2>2, ReplyGives
  <2> HIDE DEF q
  <2> QED BY <1>2, <2>1, <2>2 DEF AuthEffect, HandledBy, q
<1>5. CASE Auth!Authenticate(AuthLink)
  <2>1. \/ q.kind = "login" /\ Auth!Reply(q, "denied", 0)
        \/ /\ q.kind = "login" /\ authRequest' = q /\ authAnswer' = NoAnswer
           /\ authPhase' = "getAccount"
    BY <1>5 DEF Auth!Authenticate, Auth!Proceed
  <2>2. ASSUME Auth!Reply(q, "denied", 0), q.kind = "login"
        PROVE  Gives(q)
    BY <1>2, <2>2, ReplyGives
  <2> HIDE DEF q
  <2> QED BY <1>2, <2>1, <2>2 DEF AuthEffect, HandledBy, q
<1> QED BY <1>4, <1>5

LEMMA HandlingGoesOn ==
  ASSUME AuthInv, AnswerIsLast, Auth!Handling
  PROVE  AuthEffect
<1>1. InHand
  BY DEF Auth!Handling, Auth!InsertUser, Auth!SelectId, Auth!InsertAccount, Auth!ReplyRegistered,
         Auth!GetAccount, Auth!UpdateUser, Auth!GetCreationDate, InHand, Auth!Statements
<1>2. authRequest \in Request /\ authUserID \in Nat /\ Auth!Unvisited # {}
      /\ authPhase \in HandledBy(authRequest.kind)
  BY <1>1, AuthTypes DEF AnswerIsLast
<1>3. authRequest.kind \in {"register", "login"}
  BY <1>2 DEF Request
<1>4. /\ authPhase \in {"insertUser", "selectId", "insertAccount", "reply"} =>
            authRequest.kind = "register"
      /\ authPhase \in {"getAccount", "updateUser", "getDate"} => authRequest.kind = "login"
  BY <1>2, <1>3 DEF HandledBy
<1>5. CASE Auth!InsertUser \/ Auth!SelectId \/ Auth!UpdateUser
  BY <1>1, <1>3, <1>4, <1>5
     DEF Auth!InsertUser, Auth!SelectId, Auth!UpdateUser, Auth!Proceed, AuthEffect, HandledBy
<1>6. CASE Auth!InsertAccount
  BY <1>1, <1>4, <1>6 DEF Auth!InsertAccount, Auth!Die, Auth!Proceed, AuthEffect, HandledBy
<1>7. CASE Auth!ReplyRegistered
  <2>1. Gives(authRequest)
    BY <1>2, <1>4, <1>7, ReplyGives DEF Auth!ReplyRegistered
  <2> QED BY <1>1, <1>7, <2>1 DEF Auth!ReplyRegistered, AuthEffect
<1>8. CASE Auth!GetAccount
  <2>1. Auth!Reply(authRequest, "denied", 0) => Gives(authRequest)
    BY <1>2, <1>4, <1>8, ReplyGives DEF Auth!GetAccount
  <2> QED
    BY <1>1, <1>4, <1>8, <2>1 DEF Auth!GetAccount, Auth!Proceed, AuthEffect, HandledBy
<1>9. CASE Auth!GetCreationDate
  <2>1. Auth!Reply(authRequest, "loggedIn", authUserID) => Gives(authRequest)
    BY <1>2, <1>4, <1>9, ReplyGives DEF Auth!GetCreationDate
  <2> QED BY <1>1, <1>9, <2>1 DEF Auth!GetCreationDate, Auth!Die, AuthEffect
<1> QED BY <1>5, <1>6, <1>7, <1>8, <1>9 DEF Auth!Handling

LEMMA StepHasEffect ==
  ASSUME AuthInv, AnswerIsLast, Auth!Server \/ Auth!Kill \/ Auth!StatementThrows
  PROVE  AuthEffect
<1>1. CASE Auth!Kill \/ Auth!StatementThrows
  BY <1>1 DEF Auth!Kill, Auth!StatementThrows, Auth!Die, AuthEffect
<1>2. CASE Auth!Select \/ Auth!NothingToAccept \/ Auth!AcceptFails
  BY <1>2 DEF Auth!Select, Auth!NothingToAccept, Auth!AcceptFails, Auth!BackToSelect,
              Auth!ScanOver, Auth!WillAccept, AuthEffect, InHand, Auth!Statements
<1>3. CASE Auth!Handling
  BY <1>3, HandlingGoesOn
<1>4. ASSUME NEW c \in {AuthLink},
             Auth!Disconnect(c) \/ Auth!ReceiveError(c) \/ Auth!Accept(c)
      PROVE  AuthEffect
  BY <1>4 DEF Auth!Disconnect, Auth!ReceiveError, Auth!Accept, Auth!BackToSelect,
              Auth!Visiting, Auth!Continue, Auth!WillAccept, Auth!ScanOver, AuthEffect,
              InHand, Auth!Statements
<1> QED BY <1>1, <1>2, <1>3, <1>4, RequestsAreTaken DEF Auth!Server

-----------------------------------------------------------------------------
(* Three queues in a row, seen as one. *)

LEMMA QueueTypes ==
  ASSUME NEW S, NEW a \in Seq(S), NEW b \in Seq(S), NEW c \in Seq(S)
  PROVE  /\ a \o b \o c \in Seq(S)
         /\ Len(a \o b \o c) = Len(a) + Len(b) + Len(c)
         /\ a \o b \o c = a \o (b \o c)
<1>1. a \o b \in Seq(S) /\ Len(a \o b) = Len(a) + Len(b)
  BY ConcatProperties
<1> QED BY <1>1, ConcatProperties, ConcatAssociative

LEMMA QueueGrows ==
  ASSUME NEW S, NEW a \in Seq(S), NEW b \in Seq(S), NEW c \in Seq(S), NEW e \in S
  PROVE  a \o b \o Append(c, e) = Append(a \o b \o c, e)
<1>1. a \o b \in Seq(S) /\ a \o b \o c \in Seq(S) /\ <<e>> \in Seq(S)
  BY QueueTypes, ConcatProperties
<1>2. Append(c, e) = c \o <<e>> /\ Append(a \o b \o c, e) = a \o b \o c \o <<e>>
  BY <1>1, AppendIsConcat
<1> QED BY <1>1, <1>2, ConcatAssociative

(* The last queue gives its first element to the one in the middle. *)
LEMMA HeadAndTail ==
  ASSUME NEW S, NEW c \in Seq(S), c # <<>>
  PROVE  Head(c) \in S /\ Tail(c) \in Seq(S) /\ c = <<Head(c)>> \o Tail(c)
<1>1. c = SubSeq(c, 1, Len(c)) /\ Len(c) \in Nat \ {0} /\ Head(c) = c[1]
  BY SubSeqFull, EmptySeq
<1>2. SubSeq(c, 1, Len(c)) = <<c[1]>> \o SubSeq(c, 1 + 1, Len(c))
  BY <1>1, SubSeqRecursiveFirst
<1>3. Head(c) \in S /\ Tail(c) \in Seq(S)
  BY HeadTailProperties
<1> QED BY <1>1, <1>2, <1>3, TailIsSubSeq

(* A start of a queue that nothing stands before, or all of the first      *)
(* queue, goes.                                                            *)
LEMMA QueueShrinks ==
  ASSUME NEW S, NEW a \in Seq(S), NEW b \in Seq(S), a # <<>>,
         NEW k \in 1 .. Len(a)
  PROVE  /\ a \o b # <<>> /\ Head(a \o b) = Head(a) /\ k <= Len(a \o b)
         /\ SubSeq(a, k + 1, Len(a)) \o b = SubSeq(a \o b, k + 1, Len(a \o b))
<1> DEFINE q == a \o b
           x == SubSeq(a, k + 1, Len(a))
<1>1. /\ q \in Seq(S) /\ Len(q) = Len(a) + Len(b)
      /\ \A i \in 1 .. Len(a) + Len(b) : q[i] = IF i <= Len(a) THEN a[i] ELSE b[i - Len(a)]
  BY ConcatProperties
<1>2. Len(a) \in Nat /\ Len(b) \in Nat /\ k \in Nat /\ k >= 1 /\ k <= Len(a)
  OBVIOUS
<1>3. /\ x \in Seq(S) /\ Len(x) = Len(a) - k
      /\ \A i \in 1 .. Len(a) - k : x[i] = a[i + k]
  OBVIOUS
<1>4. /\ SubSeq(q, k + 1, Len(q)) \in Seq(S) /\ Len(SubSeq(q, k + 1, Len(q))) = Len(q) - k
      /\ \A i \in 1 .. Len(q) - k : SubSeq(q, k + 1, Len(q))[i] = q[i + k]
  <2> HIDE DEF q
  <2> QED BY <1>1, <1>2
<1> HIDE DEF q, x
<1>5. /\ x \o b \in Seq(S) /\ Len(x \o b) = Len(x) + Len(b)
      /\ \A i \in 1 .. Len(x) + Len(b) : (x \o b)[i] = IF i <= Len(x) THEN x[i] ELSE b[i - Len(x)]
  BY <1>3, ConcatProperties
<1>6. ASSUME NEW i \in 1 .. Len(q) - k
      PROVE  (x \o b)[i] = SubSeq(q, k + 1, Len(q))[i]
  <2>1. SubSeq(q, k + 1, Len(q))[i] = q[i + k]
    BY <1>4
  <2>2. q[i + k] = IF i + k <= Len(a) THEN a[i + k] ELSE b[i + k - Len(a)]
    BY <1>1, <1>2
  <2>3. (x \o b)[i] = IF i <= Len(a) - k THEN x[i] ELSE b[i - (Len(a) - k)]
    BY <1>1, <1>2, <1>3, <1>5
  <2>4. i <= Len(a) - k => x[i] = a[i + k]
    BY <1>2, <1>3
  <2>5. (i <= Len(a) - k <=> i + k <= Len(a)) /\ i - (Len(a) - k) = i + k - Len(a)
    BY <1>1, <1>2
  <2> QED BY <2>1, <2>2, <2>3, <2>4, <2>5
<1>7. Len(x \o b) = Len(q) - k
  BY <1>1, <1>2, <1>3, <1>5
<1>8. x \o b = SubSeq(q, k + 1, Len(q))
  BY <1>4, <1>5, <1>6, <1>7, SeqEqual
<1>9. q # <<>> /\ Head(q) = Head(a) /\ k <= Len(q)
  <2>1. q[1] = a[1] /\ Len(q) > 0
    BY <1>1, <1>2
  <2>2. Head(q) = q[1] /\ Head(a) = a[1]
    BY <1>1, <2>1
  <2> QED BY <1>1, <1>2, <2>1, <2>2
<1> QED BY <1>8, <1>9 DEF q, x

-----------------------------------------------------------------------------
(* The connection between the servers. *)

LinkTypes ==
    /\ taken \in Seq(Request) /\ requests \in Seq(Request) /\ replies \in Seq(Reply)
    /\ wire \in [Socket -> {"absent", "open", "closed", "reset", "aborted"}]

(* What the auth server is at work on stands first in what it has taken. *)
TakenInHand ==
    IF InHand THEN taken # <<>> /\ Len(taken) <= MaxCoalesce /\ Head(taken) = authRequest
              ELSE taken = <<>>

LinkInv == AnswerIsLast /\ LinkTypes /\ TakenInHand

LEMMA UnansweredTypes ==
  ASSUME AuthInv, LinkTypes
  PROVE  Unanswered \in Seq(Request)
<1>1. authInbox[AuthLink] \in Seq(Request)
  BY AuthTypes
<1> QED BY <1>1, QueueTypes, EmptySeq DEF LinkTypes, Unanswered

LEMMA LinkIsClient == AuthLink \in Socket /\ Client \subseteq Socket /\ AuthLink \notin Client
BY ChatServerAssumption DEF Client

(* The registration that the auth server makes of a text of this one's.    *)
LEMMA MisparsedTypes == Misparsed \in Request
BY ChatServerAssumption DEF Misparsed, Request, Asker

(* What a step of the chat server does to the connection. *)
ServerEffect ==
    /\ wire'[AuthLink] = wire[AuthLink]
    /\ \/ UNCHANGED requests
       \/ /\ \E q \in Request : requests' = Append(requests, q)
          /\ wire[AuthLink] = "open" /\ UNCHANGED replies

LEMMA ServerOnLink ==
  ASSUME LinkTypes, Server, UNCHANGED taken
  PROVE  ServerEffect /\ LinkTypes'
<1> USE LinkIsClient
<1>1. CASE Select \/ LinkDisconnect \/ AcceptFails \/ NothingToAccept
  BY <1>1 DEF Select, LinkDisconnect, AcceptFails, NothingToAccept, linkVars, netVars,
              ServerEffect, LinkTypes
<1>8. ASSUME NEW s \in Socket, AccountCommand(s) \/ ReplyPacket(s)
      PROVE  ServerEffect /\ LinkTypes'
  <2>1. UNCHANGED <<wire, replies>>
    BY <1>8 DEF AccountCommand, ReplyPacket, Receive
  <2>2. UNCHANGED requests \/ \E q \in Request : SendToAuthServer(q)
    BY <1>8, MisparsedTypes DEF AccountCommand, AccountBlank, ForwardAccount, ReplyPacket
  <2>3. \/ UNCHANGED requests
        \/ wire[AuthLink] = "open" /\ \E q \in Request : requests' = Append(requests, q)
    BY <2>2 DEF SendToAuthServer
  <2>4. requests' \in Seq(Request)
    BY <2>3, AppendProperties DEF LinkTypes
  <2> QED BY <2>1, <2>3, <2>4 DEF ServerEffect, LinkTypes
<1>2. CASE AuthReply
  <2>1. PICK k \in 1 .. MaxCoalesce :
           k <= Len(replies) /\ replies' = SubSeq(replies, k + 1, Len(replies))
    BY <1>2 DEF AuthReply
  <2>2. k \in 1 .. Len(replies)
    BY <2>1, ChatServerAssumption DEF LinkTypes
  <2>3. replies' \in Seq(Reply)
    BY <2>1, <2>2 DEF LinkTypes
  <2> QED BY <1>2, <2>3 DEF AuthReply, netVars, ServerEffect, LinkTypes
<1>4. ASSUME NEW s \in Socket, ClientVisit(s), ~AccountCommand(s), ~ReplyPacket(s)
      PROVE  UNCHANGED <<wire, requests, replies>>
  BY <1>4 DEF ClientVisit, ChatPacket, JoinCommand, LeaveCommand, NickCommand, HelpCommand,
              UnknownCommand, ClientDisconnect, Receive, linkVars, netVars
<1>5. ASSUME NEW s \in Socket, ReceiveError(s)
      PROVE  UNCHANGED <<wire, requests, replies>>
  BY <1>5 DEF ReceiveError, linkVars, netVars
<1>6. ASSUME NEW s \in Socket, Accept(s) PROVE ServerEffect /\ LinkTypes'
  BY <1>6 DEF Accept, linkVars, ServerEffect, LinkTypes
<1>7. UNCHANGED <<wire, requests, replies>> => ServerEffect /\ LinkTypes'
  BY DEF ServerEffect, LinkTypes
<1> QED BY <1>1, <1>2, <1>4, <1>5, <1>6, <1>7, <1>8 DEF Server

(* What a step of the auth server, or of the network, is to the chat       *)
(* server: nothing, a fault, or the answer to the first requests.          *)
LinkFails ==
    /\ \/ Closes(AuthLink, FaultKinds) /\ UNCHANGED replies
       \/ Breaks(AuthLink, FaultKinds) /\ replies' = <<>>
    /\ Unanswered' = <<>>

LinkAnswers ==
    /\ Unanswered # <<>> /\ wire[AuthLink] = "open" /\ UNCHANGED wire
    /\ \E what \in Answers(Head(Unanswered).kind) :
          replies' = Append(replies, [what |-> what, id |-> Head(Unanswered).id])
    /\ \E k \in 1 .. MaxCoalesce :
          k <= Len(Unanswered) /\ Unanswered' = SubSeq(Unanswered, k + 1, Len(Unanswered))

LinkEffect == UNCHANGED <<wire, replies, Unanswered>> \/ LinkFails \/ LinkAnswers

(* Losing the connection leaves nothing unanswered. *)
LEMMA LostLink ==
  ASSUME LinkTypes
  PROVE  /\ \A faults : Closes(AuthLink, faults) \/ Breaks(AuthLink, faults) =>
               /\ wire' \in [Socket -> {"absent", "open", "closed", "reset", "aborted"}]
               /\ wire'[AuthLink] # "open"
         /\ wire[AuthLink] # "open" => Unanswered = <<>>
         /\ wire'[AuthLink] # "open" => Unanswered' = <<>>
BY LinkIsClient DEF LinkTypes, Closes, Breaks, Unanswered

LEMMA EndOnLink ==
  ASSUME LinkTypes, LinkBreaks
  PROVE  LinkEffect /\ LinkTypes' /\ taken' = <<>>
<1>1. taken' = <<>> /\ requests' = <<>> /\ <<>> \in Seq(Request) /\ <<>> \in Seq(Reply)
  BY EmptySeq DEF LinkBreaks
<1>2. CASE wire[AuthLink] # "open" /\ UNCHANGED <<wire, replies>>
  BY <1>1, <1>2, LostLink DEF LinkEffect, LinkTypes
<1>3. CASE Closes(AuthLink, FaultKinds) /\ UNCHANGED replies
  BY <1>1, <1>3, LostLink DEF LinkEffect, LinkFails, LinkTypes
<1>4. CASE wire[AuthLink] = "open" /\ Breaks(AuthLink, {"reset"}) /\ replies' = <<>>
  <2>1. Breaks(AuthLink, FaultKinds)
    BY <1>4 DEF Breaks, FaultKinds
  <2> QED BY <1>1, <1>4, <2>1, LostLink DEF LinkEffect, LinkFails, LinkTypes
<1> QED BY <1>2, <1>3, <1>4 DEF LinkBreaks

(* A reply is of the type the chat server knows. *)
LEMMA ReplyTypes ==
  ASSUME NEW q \in Request, Gives(q)
  PROVE  [what |-> ReplyKind[authAnswer'.what], id |-> authAnswer'.request.id] \in Reply
BY DEF Gives, Reply, ReplyKinds, Request, Answers

LEMMA AnswerOnLink ==
  ASSUME AuthInv, LinkInv, NEW q \in Request, Gives(q), AuthStep,
         authAnswer = NoAnswer,
         Unanswered = <<>> \/ /\ Unanswered # <<>> /\ Head(Unanswered) = q
                              /\ \E k \in 1 .. MaxCoalesce :
                                    /\ k <= Len(Unanswered)
                                    /\ wire[AuthLink] = "open" /\ UNCHANGED wire =>
                                          Unanswered' = SubSeq(Unanswered, k + 1, Len(Unanswered)),
         wire[AuthLink] = "open" => Unanswered # <<>>
  PROVE  LinkEffect /\ LinkTypes' /\ taken' = <<>>
<1> DEFINE reply == [what |-> ReplyKind[authAnswer'.what], id |-> authAnswer'.request.id]
<1>1. /\ replies' = IF wire[AuthLink] # "open" THEN replies ELSE Append(replies, reply)
      /\ taken' = <<>> /\ UNCHANGED <<wire, requests>>
  BY DEF AuthStep, Gives
<1>2. reply \in Reply /\ reply = [what |-> ReplyKind[authAnswer'.what], id |-> q.id]
      /\ ReplyKind[authAnswer'.what] \in Answers(q.kind)
  BY ReplyTypes DEF Gives
<1> HIDE DEF reply
<1>3. LinkTypes'
  <2>1. replies' \in Seq(Reply)
    BY <1>1, <1>2, AppendProperties DEF LinkInv, LinkTypes
  <2> QED BY <1>1, <2>1, EmptySeq DEF LinkInv, LinkTypes
<1>4. ASSUME wire[AuthLink] # "open" PROVE LinkEffect
  <2>1. Unanswered = <<>> /\ Unanswered' = <<>> /\ UNCHANGED <<wire, replies>>
    BY <1>1, <1>4 DEF Unanswered
  <2> QED BY <2>1 DEF LinkEffect
<1>5. ASSUME wire[AuthLink] = "open" PROVE LinkEffect
  <2>1. /\ replies' = Append(replies, [what |-> ReplyKind[authAnswer'.what], id |-> q.id])
        /\ UNCHANGED wire
    BY <1>1, <1>2, <1>5
  <2>2. Unanswered # <<>> /\ Head(Unanswered) = q
    BY <1>5
  <2>3. \E k \in 1 .. MaxCoalesce :
           k <= Len(Unanswered) /\ Unanswered' = SubSeq(Unanswered, k + 1, Len(Unanswered))
    BY <1>5, <2>1, <2>2
  <2> QED BY <1>2, <1>5, <2>1, <2>2, <2>3 DEF LinkEffect, LinkAnswers
<1> QED BY <1>1, <1>3, <1>4, <1>5

LEMMA NothingReceived ==
  ASSUME AuthInv, LinkInv, UNCHANGED authInbox
  PROVE  Received = <<>> /\ taken \o Received = taken
<1>1. authInbox[AuthLink] \in Seq(Request) /\ taken \in Seq(Request)
  BY AuthTypes DEF LinkInv, LinkTypes
<1>2. Len(authInbox[AuthLink]) - Len(authInbox'[AuthLink]) = 0
  BY <1>1
<1>3. Received = <<>>
  BY <1>2, SubSeqEmpty DEF Received
<1> QED BY <1>1, <1>3, ConcatEmptySeq

LEMMA TakesReceived ==
  ASSUME AuthInv, LinkInv, NEW k \in Nat, Takes(k)
  PROVE  /\ k \in 1 .. Len(authInbox[AuthLink]) /\ authInbox[AuthLink] # <<>>
         /\ authInbox'[AuthLink] = SubSeq(authInbox[AuthLink], k + 1, Len(authInbox[AuthLink]))
         /\ Received = SubSeq(authInbox[AuthLink], 1, k)
         /\ Received \in Seq(Request) /\ Received # <<>> /\ Len(Received) = k
         /\ Head(Received) = Head(authInbox[AuthLink])
         /\ Received \o authInbox'[AuthLink] = authInbox[AuthLink]
<1> DEFINE b == authInbox[AuthLink]
<1>1. authInbox \in [{AuthLink} -> Seq(Request)]
  BY AuthTypes
<1>2. b \in Seq(Request) /\ k \in 1 .. Len(b)
  BY <1>1 DEF Takes
<1>3. authInbox'[AuthLink] = SubSeq(b, k + 1, Len(b))
  BY <1>1 DEF Takes
<1>4. Received = SubSeq(b, 1, Len(b) - Len(SubSeq(b, k + 1, Len(b))))
  BY <1>3 DEF Received
<1> HIDE DEF b
<1>5. Len(b) - Len(SubSeq(b, k + 1, Len(b))) = k
  BY <1>2
<1>6. Received = SubSeq(b, 1, k)
  BY <1>4, <1>5
<1>7. /\ SubSeq(b, 1, k) \in Seq(Request) /\ Len(SubSeq(b, 1, k)) = k
      /\ SubSeq(b, 1, k) # <<>> /\ Head(SubSeq(b, 1, k)) = Head(b) /\ b # <<>>
  BY <1>2
<1>8. SubSeq(b, 1, k) \o SubSeq(b, k + 1, Len(b)) = b
  <2>1. /\ Len(b) \in Nat /\ 1 \in 1 .. Len(b) + 1
        /\ k \in 1 - 1 .. Len(b) /\ Len(b) \in k .. Len(b)
    BY <1>2
  <2> QED BY <1>2, <2>1, ConcatAdjacentSubSeq, SubSeqFull
<1> QED BY <1>2, <1>3, <1>6, <1>7, <1>8 DEF b

(* Every step of the auth server. *)
LEMMA AuthStepOnLink ==
  ASSUME AuthInv, LinkInv, AuthEffect, AuthStep
  PROVE  LinkEffect /\ LinkTypes' /\ AnswerIsLast' /\ TakenInHand'
<1> DEFINE b == authInbox[AuthLink]
<1>1. /\ b \in Seq(Request) /\ taken \in Seq(Request) /\ requests \in Seq(Request)
      /\ LinkTypes /\ MaxCoalesce \in Nat
  BY AuthTypes, ChatServerAssumption DEF LinkInv, LinkTypes
<1>2. InHand => authAnswer = NoAnswer /\ authRequest \in Request /\ authRequest.kind \in {"register", "login"}
  BY AuthTypes DEF Request
<1>3. \A kind : HandledBy(kind) \subseteq Auth!Statements
  BY DEF HandledBy, Auth!Statements
<1>4. {"crashed", "down", "select", "scan"} \cap Auth!Statements = {}
  BY DEF Auth!Statements
<1>5. CASE authPhase' \in {"crashed", "down"} /\ authAnswer' = NoAnswer
  <2>1. LinkBreaks
    BY <1>5 DEF AuthStep
  <2>2. ~InHand'
    BY <1>4, <1>5 DEF InHand
  <2> QED BY <1>1, <1>5, <2>1, <2>2, EndOnLink DEF AnswerIsLast, TakenInHand
<1>6. ASSUME UNCHANGED authInbox, authAnswer # NoAnswer \/ authAnswer' = NoAnswer,
             authPhase' \notin {"crashed", "down"}
      PROVE  UNCHANGED <<taken, wire, requests, replies>> /\ LinkEffect /\ LinkTypes'
  <2>1. UNCHANGED <<taken, wire, requests, replies>>
    BY <1>6, NothingReceived DEF AuthStep
  <2> QED BY <1>1, <1>6, <2>1 DEF LinkEffect, Unanswered, LinkTypes
<1>7. CASE /\ ~InHand /\ authPhase' \in {"select", "scan"}
           /\ authAnswer' = NoAnswer /\ UNCHANGED authInbox
  <2>1. ~InHand' /\ authPhase' \notin {"crashed", "down"}
    BY <1>4, <1>7 DEF InHand
  <2>2. taken' = <<>>
    BY <1>6, <1>7, <2>1 DEF LinkInv, TakenInHand
  <2> QED BY <1>6, <1>7, <2>1, <2>2 DEF AnswerIsLast, TakenInHand
<1>8. CASE /\ InHand /\ authPhase' \in HandledBy(authRequest.kind)
           /\ UNCHANGED <<authInbox, authRequest, authAnswer>>
  <2>1. InHand' /\ authPhase' \notin {"crashed", "down"} /\ authAnswer' = NoAnswer
    BY <1>2, <1>3, <1>4, <1>8 DEF InHand
  <2>2. UNCHANGED taken
    BY <1>6, <1>8, <2>1
  <2> QED BY <1>6, <1>8, <2>1, <2>2 DEF AnswerIsLast, TakenInHand, LinkInv
<1>9. CASE InHand /\ Gives(authRequest) /\ UNCHANGED authInbox
  <2> DEFINE k == Len(taken)
             rest == b \o requests
  <2>1. /\ taken # <<>> /\ k \in 1 .. MaxCoalesce /\ Head(taken) = authRequest
        /\ k \in 1 .. Len(taken)
    BY <1>1, <1>9 DEF LinkInv, TakenInHand
  <2>2. taken' = <<>> /\ UNCHANGED <<wire, requests>>
    BY <1>2, <1>9 DEF AuthStep, Gives
  <2>3. /\ taken \o b \o requests = taken \o rest /\ rest \in Seq(Request)
        /\ <<>> \o b = b
    <3> HIDE DEF b
    <3>1. taken \o b \o requests = taken \o (b \o requests)
      BY <1>1, QueueTypes
    <3>2. b \o requests \in Seq(Request)
      BY <1>1, ConcatProperties
    <3>3. <<>> \o b = b
      BY <1>1, ConcatEmptySeq
    <3> QED BY <3>1, <3>2, <3>3
  <2>4. /\ taken \o rest # <<>> /\ Head(taken \o rest) = authRequest
        /\ k <= Len(taken \o rest)
        /\ SubSeq(taken, k + 1, Len(taken)) \o rest = SubSeq(taken \o rest, k + 1, Len(taken \o rest))
    BY <1>1, <2>1, <2>3, QueueShrinks
  <2>5. SubSeq(taken, k + 1, Len(taken)) = <<>> /\ <<>> \o rest = rest
    BY <1>1, <2>3, SubSeqEmpty, ConcatEmptySeq
  <2>6. wire[AuthLink] = "open" =>
            /\ Unanswered = taken \o rest
            /\ UNCHANGED wire => Unanswered' = rest
    BY <1>9, <2>2, <2>3 DEF Unanswered
  <2>7. wire[AuthLink] # "open" => Unanswered = <<>>
    BY DEF Unanswered
  <2> HIDE DEF k, rest
  <2>8. LinkEffect /\ LinkTypes' /\ taken' = <<>>
    BY <1>2, <1>9, <2>1, <2>4, <2>5, <2>6, <2>7, AnswerOnLink
  <2>9. ~InHand'
    BY <1>4, <1>9 DEF Gives, InHand
  <2> QED BY <1>9, <2>8, <2>9 DEF AnswerIsLast, TakenInHand, Gives
<1>10. CASE /\ ~InHand /\ authAnswer = NoAnswer
            /\ \E k \in Nat : Takes(k)
            /\ Gives(Head(b))
  <2>1. PICK k \in Nat : Takes(k)
    BY <1>10
  <2>2. /\ k \in 1 .. Len(b) /\ b # <<>> /\ k \in 1 .. MaxCoalesce
        /\ authInbox'[AuthLink] = SubSeq(b, k + 1, Len(b))
    BY <2>1, TakesReceived DEF Takes
  <2>3. taken = <<>> /\ taken' = <<>> /\ UNCHANGED <<wire, requests>>
    BY <1>10 DEF AuthStep, Gives, LinkInv, TakenInHand
  <2> HIDE DEF b
  <2>4. /\ b \o requests # <<>> /\ Head(b \o requests) = Head(b) /\ k <= Len(b \o requests)
        /\ SubSeq(b, k + 1, Len(b)) \o requests = SubSeq(b \o requests, k + 1, Len(b \o requests))
    BY <1>1, <2>2, QueueShrinks
  <2>5. <<>> \o b = b /\ <<>> \o SubSeq(b, k + 1, Len(b)) = SubSeq(b, k + 1, Len(b))
    <3>1. SubSeq(b, k + 1, Len(b)) \in Seq(Request)
      BY <1>1, <2>2
    <3> QED BY <1>1, <3>1, ConcatEmptySeq
  <2>6. wire[AuthLink] = "open" =>
            /\ Unanswered = b \o requests
            /\ UNCHANGED wire => Unanswered' = SubSeq(b, k + 1, Len(b)) \o requests
    BY <2>2, <2>3, <2>5 DEF Unanswered, b
  <2>7. wire[AuthLink] # "open" => Unanswered = <<>>
    BY DEF Unanswered
  <2>8. Head(b) \in Request
    BY <1>1, <2>2
  <2>9. LinkEffect /\ LinkTypes' /\ taken' = <<>>
    BY <1>10, <2>2, <2>4, <2>6, <2>7, <2>8, AnswerOnLink
  <2>10. ~InHand'
    BY <1>4, <1>10 DEF Gives, InHand
  <2> QED BY <1>10, <2>9, <2>10 DEF AnswerIsLast, TakenInHand, Gives
<1>11. CASE /\ ~InHand /\ authAnswer = NoAnswer /\ authAnswer' = NoAnswer
            /\ \E k \in Nat : Takes(k)
            /\ authRequest' = Head(b)
            /\ authPhase' \in HandledBy(authRequest'.kind)
  <2>1. PICK k \in Nat : Takes(k)
    BY <1>11
  <2>2. /\ k \in 1 .. Len(b) /\ b # <<>> /\ k \in 1 .. MaxCoalesce
        /\ authInbox'[AuthLink] = SubSeq(b, k + 1, Len(b))
        /\ Received = SubSeq(b, 1, k) /\ Received \in Seq(Request)
        /\ Received # <<>> /\ Len(Received) = k /\ Head(Received) = Head(b)
    BY <2>1, TakesReceived DEF Takes
  <2>3. InHand' /\ authPhase' \notin {"crashed", "down"}
    BY <1>3, <1>4, <1>11 DEF InHand
  <2>4. taken = <<>> /\ taken' = taken \o Received /\ UNCHANGED <<wire, requests, replies>>
    BY <1>11, <2>3 DEF AuthStep, LinkInv, TakenInHand
  <2>5. taken' = Received
    BY <2>2, <2>4, ConcatEmptySeq
  <2> HIDE DEF b
  <2>6. taken' \o authInbox'[AuthLink] = taken \o b
    <3>1. Received \o authInbox'[AuthLink] = b /\ <<>> \o b = b
      BY <1>1, <2>1, TakesReceived, ConcatEmptySeq DEF b
    <3> QED BY <2>4, <2>5, <3>1
  <2>7. Unanswered' = Unanswered
    <3>1. taken' \o authInbox'[AuthLink] \o requests' = taken \o b \o requests
      BY <2>4, <2>6
    <3>2. wire'[AuthLink] = wire[AuthLink]
      BY <2>4
    <3> QED BY <3>1, <3>2 DEF Unanswered, b
  <2>8. LinkEffect /\ LinkTypes'
    BY <1>1, <2>2, <2>4, <2>5, <2>7 DEF LinkEffect, LinkTypes
  <2>9. AnswerIsLast'
    BY <1>11 DEF AnswerIsLast
  <2>10. taken' # <<>> /\ Len(taken') <= MaxCoalesce /\ Head(taken') = authRequest'
    <3>1. Len(Received) <= MaxCoalesce
      BY <1>1, <2>2
    <3> QED BY <1>11, <2>2, <2>5, <3>1
  <2> QED BY <2>3, <2>8, <2>9, <2>10 DEF TakenInHand
<1> QED BY <1>5, <1>7, <1>8, <1>9, <1>10, <1>11 DEF AuthEffect

-----------------------------------------------------------------------------
(* The connection's invariant holds, and no step of the auth server or of  *)
(* the network is anything else to the chat server than a LinkEffect.      *)

LEMMA LinkStarts == SystemInit => LinkInv
<1> SUFFICES ASSUME SystemInit PROVE LinkInv
  OBVIOUS
<1>1. AnswerIsLast /\ TakenInHand
  BY DEF SystemInit, AnswerIsLast, TakenInHand, InHand, Auth!Statements
<1>2. LinkTypes
  BY LinkIsClient, EmptySeq, SystemAssumption DEF SystemInit, Init, LinkTypes
<1> QED BY <1>1, <1>2 DEF LinkInv

LEMMA OtherSideOnLink ==
  ASSUME AuthInv, LinkInv,
         AuthThread \/ AuthEnds \/ RequestArrives \/ NetworkFault \/ AuthHears
  PROVE  LinkEffect /\ LinkInv'
<1>1. LinkTypes /\ authInbox \in [{AuthLink} -> Seq(Request)] /\ authInbox[AuthLink] \in Seq(Request)
  BY AuthTypes DEF LinkInv
<1>2. CASE AuthThread \/ AuthEnds
  <2>1. AuthEffect /\ AuthStep
    BY <1>2, StepHasEffect DEF AuthThread, AuthEnds, LinkInv
  <2> QED BY <2>1, AuthStepOnLink DEF LinkInv
<1>3. ASSUME UNCHANGED <<authPhase, authRequest, authAnswer, authNext, taken>>
      PROVE  AnswerIsLast' /\ TakenInHand'
  BY <1>3 DEF LinkInv, AnswerIsLast, TakenInHand, InHand
<1>4. CASE RequestArrives
  <2>1. /\ UNCHANGED <<authPhase, authRequest, authAnswer, authNext, taken, wire, replies>>
        /\ requests # <<>> /\ requests' = Tail(requests)
        /\ authInbox'[AuthLink] = Append(authInbox[AuthLink], Head(requests))
    BY <1>4 DEF RequestArrives, Auth!PeerSends, Auth!ServerUnchanged, Auth!loopVars
  <2>2. requests' \in Seq(Request)
    BY <1>1, <2>1, HeadTailProperties DEF LinkTypes
  <2>3. taken' \o authInbox'[AuthLink] \o requests' = taken \o authInbox[AuthLink] \o requests
    <3>1. taken \o Append(authInbox[AuthLink], Head(requests)) \o Tail(requests)
             = taken \o authInbox[AuthLink] \o requests
      <4> DEFINE b == authInbox[AuthLink]
                 e == Head(requests)
                 t == Tail(requests)
                 one == <<Head(requests)>>
      <4>1. b \in Seq(Request) /\ taken \in Seq(Request)
        BY <1>1 DEF LinkTypes
      <4>2. /\ e \in Request /\ t \in Seq(Request) /\ requests = one \o t
            /\ one \in Seq(Request) /\ Append(b, e) = b \o one
        BY <1>1, <2>1, HeadAndTail, AppendIsConcat DEF LinkTypes
      <4> HIDE DEF b, e, t, one
      <4>3. taken \o b \in Seq(Request) /\ taken \o (b \o one) = (taken \o b) \o one
        <5>1. one \in Seq(Request)
          BY <4>2
        <5>2. taken \o b \in Seq(Request)
          BY <4>1, ConcatProperties
        <5> QED BY <4>1, <5>1, <5>2, ConcatAssociative
      <4>4. ((taken \o b) \o one) \o t = (taken \o b) \o (one \o t)
        <5>1. taken \o b \in Seq(Request) /\ one \in Seq(Request) /\ t \in Seq(Request)
          BY <4>2, <4>3
        <5> QED BY <5>1, ConcatAssociative
      <4>5. taken \o Append(b, e) \o t = taken \o b \o requests
        BY <4>2, <4>3, <4>4
      <4> QED BY <4>5 DEF b, e, t
    <3> QED BY <2>1, <3>1
  <2>4. Unanswered' = Unanswered
    <3>1. wire'[AuthLink] = wire[AuthLink]
      BY <2>1
    <3> QED BY <2>3, <3>1 DEF Unanswered
  <2> QED BY <1>1, <1>3, <2>1, <2>2, <2>4 DEF LinkEffect, LinkTypes, LinkInv
<1>5. CASE NetworkFault
  <2>1. /\ Breaks(AuthLink, LinkFaults) /\ replies' = <<>> /\ requests' = <<>>
        /\ UNCHANGED <<authPhase, authRequest, authAnswer, authNext, taken>>
    BY <1>5 DEF NetworkFault, authVars
  <2>2. Breaks(AuthLink, FaultKinds)
    BY <2>1, ChatServerAssumption DEF Breaks
  <2>3. LinkTypes' /\ Unanswered' = <<>>
    BY <1>1, <2>1, LostLink, EmptySeq DEF LinkTypes
  <2> QED BY <1>3, <2>1, <2>2, <2>3 DEF LinkEffect, LinkFails, LinkInv
<1>6. CASE AuthHears
  <2>1. /\ wire[AuthLink] # "open" /\ UNCHANGED <<wire, requests, replies, taken>>
        /\ UNCHANGED <<authPhase, authRequest, authAnswer, authNext>>
    BY <1>6 DEF AuthHears, linkVars, Auth!PeerFault, Auth!ServerUnchanged, Auth!loopVars
  <2>2. LinkTypes' /\ UNCHANGED Unanswered
    BY <1>1, <2>1 DEF LinkTypes, Unanswered
  <2> QED BY <1>3, <2>1, <2>2 DEF LinkEffect, LinkInv
<1> QED BY <1>2, <1>4, <1>5, <1>6

(* The chat server's own steps: what it adds to the requests is added to   *)
(* those unanswered.                                                       *)
LEMMA ThisSideOnLink ==
  ASSUME AuthInv, LinkInv, Server, UNCHANGED <<authVars, taken>>
  PROVE  /\ LinkInv'
         /\ UNCHANGED requests => UNCHANGED Unanswered
         /\ \A q \in Request : requests' = Append(requests, q) =>
               Unanswered' = IF wire[AuthLink] = "open" THEN Append(Unanswered, q)
                                                       ELSE Unanswered
<1>1. ServerEffect /\ LinkTypes' /\ LinkTypes /\ authInbox[AuthLink] \in Seq(Request)
  BY ServerOnLink, AuthTypes DEF LinkInv
<1>2. /\ UNCHANGED <<authPhase, authRequest, authAnswer, authNext, taken, authInbox>>
      /\ wire'[AuthLink] = wire[AuthLink]
  BY <1>1 DEF authVars, ServerEffect
<1>3. LinkInv'
  BY <1>1, <1>2 DEF LinkInv, AnswerIsLast, TakenInHand, InHand
<1>4. UNCHANGED requests => UNCHANGED Unanswered
  BY <1>2 DEF Unanswered
<1>5. ASSUME NEW q \in Request, requests' = Append(requests, q)
      PROVE  Unanswered' = IF wire[AuthLink] = "open" THEN Append(Unanswered, q) ELSE Unanswered
  <2>1. taken \o authInbox[AuthLink] \o Append(requests, q)
           = Append(taken \o authInbox[AuthLink] \o requests, q)
    <3> DEFINE b == authInbox[AuthLink]
    <3>1. b \in Seq(Request) /\ taken \in Seq(Request) /\ requests \in Seq(Request)
      BY <1>1 DEF LinkTypes
    <3> HIDE DEF b
    <3>2. taken \o b \o Append(requests, q) = Append(taken \o b \o requests, q)
      BY <3>1, QueueGrows
    <3> QED BY <3>2 DEF b
  <2>2. taken' \o authInbox'[AuthLink] \o requests'
           = taken \o authInbox[AuthLink] \o Append(requests, q)
    BY <1>2, <1>5
  <2> QED BY <1>2, <2>1, <2>2 DEF Unanswered
<1> QED BY <1>3, <1>4, <1>5

LEMMA ClientsOnLink ==
  ASSUME LinkInv,
         ClientStep \/ SystemStopped \/ SystemIdle \/ UNCHANGED systemVars
  PROVE  LinkInv' /\ UNCHANGED Unanswered /\ UNCHANGED linkVars
<1>1. CASE ClientStep
  <2>1. UNCHANGED <<authVars, taken, linkVars>>
    BY <1>1 DEF ClientStep, ClientConnects, ClientSends, ClientFault
  <2>2. /\ wire' \in [Socket -> {"absent", "open", "closed", "reset", "aborted"}]
        /\ wire'[AuthLink] = wire[AuthLink]
    BY <1>1, LinkIsClient DEF ClientStep, ClientConnects, ClientSends, ClientFault, Closes,
                               Breaks, LinkInv, LinkTypes
  <2> QED BY <2>1, <2>2 DEF LinkInv, LinkTypes, AnswerIsLast, TakenInHand, InHand, authVars,
                            linkVars, Unanswered
<1>2. CASE SystemStopped \/ SystemIdle \/ UNCHANGED systemVars
  BY <1>2 DEF SystemStopped, SystemIdle, systemVars, vars, authVars, netVars, linkVars, LinkInv,
              LinkTypes, AnswerIsLast, TakenInHand, InHand, Unanswered
<1> QED BY <1>1, <1>2

LEMMA LinkGoesOn ==
  ASSUME AuthInv, LinkInv, [SystemNext]_systemVars
  PROVE  LinkInv'
<1>1. ChatThread => Server /\ UNCHANGED <<authVars, taken>>
  BY DEF ChatThread
<1> QED BY <1>1, ThisSideOnLink, OtherSideOnLink, ClientsOnLink DEF SystemNext

-----------------------------------------------------------------------------
(* The system is a chat server with an auth server that answers. *)

(* Chat and the chat server of this module say the same, but for what they *)
(* say of the requests.                                                    *)
LEMMA SameChat ==
  /\ Chat!registryVars = registryVars
  /\ Chat!netVars = netVars
  /\ Chat!loopVars = loopVars
  /\ Chat!Client = Client
  /\ Chat!FaultKinds = FaultKinds
  /\ Chat!Request = Request
  /\ Chat!Misparsed = Misparsed
  /\ \A reply : Chat!HandleReply(reply) <=> HandleReply(reply)
  /\ \A reply : Chat!Overheard(reply) <=> Overheard(reply)
  /\ Chat!Halted <=> Halted
  /\ \A s : Chat!HasPacket(s) <=> HasPacket(s)
  /\ \A s : Chat!Visiting(s) <=> Visiting(s)
  /\ \A s : Chat!SaysGoodbye(s) <=> SaysGoodbye(s)
  /\ Chat!SendFailures = SendFailures
  /\ Chat!ReadyNow = ReadyNow
  /\ Chat!ScanOver <=> ScanOver
  /\ Chat!WillAccept <=> WillAccept
  /\ \A what, s : Chat!Personal(what, s) = Personal(what, s)
  /\ \A s : Chat!IsActive(s) <=> IsActive(s)
  /\ \A seq, e : Chat!EraseFirst(seq, e) = EraseFirst(seq, e)
  /\ \A s : Chat!HandlesAfterDisconnect(s) = HandlesAfterDisconnect(s)
  /\ \A s : Chat!DepartureMessages(s) = DepartureMessages(s)
  /\ \A reply : Chat!ReplyMessages(reply) = ReplyMessages(reply)
  /\ \A s : Chat!ChatMessages(s) = ChatMessages(s)
  /\ \A kind : Chat!Answers(kind) = Answers(kind)
  /\ \A s, command : Chat!Receive(s, command) <=> Receive(s, command)
  /\ \A messages, failing : Chat!Finish(messages, failing) <=> Finish(messages, failing)
  /\ \A messages : Chat!SendAndSkip(messages) <=> SendAndSkip(messages)
  /\ \A messages : Chat!SendAndStop(messages) <=> SendAndStop(messages)
  /\ Chat!VisitSkipped <=> VisitSkipped
  /\ Chat!Crash <=> Crash
  /\ Chat!BackToSelect <=> BackToSelect
  /\ Chat!LoopUnchanged <=> LoopUnchanged
  /\ \A s, faults : Chat!Breaks(s, faults) <=> Breaks(s, faults)
  /\ \A s, faults : Chat!Closes(s, faults) <=> Closes(s, faults)
  /\ \A s : Chat!RefuseUnauthed(s) <=> RefuseUnauthed(s)
  /\ \A s : Chat!RefuseRoom(s) <=> RefuseRoom(s)
  /\ \A s : Chat!RefuseNameless(s) <=> RefuseNameless(s)
  /\ \A s : Chat!JoinBlank(s) <=> JoinBlank(s)
  /\ \A s, r : Chat!JoinRoom(s, r) <=> JoinRoom(s, r)
  /\ \A s : Chat!LeaveBlank(s) <=> LeaveBlank(s)
  /\ \A s, r : Chat!LeaveRoom(s, r) <=> LeaveRoom(s, r)
  /\ \A s, r : Chat!LeaveOtherRoom(s, r) <=> LeaveOtherRoom(s, r)
  /\ \A s : Chat!NickBlank(s) <=> NickBlank(s)
  /\ \A s, n : Chat!NickName(s, n) <=> NickName(s, n)
  /\ \A s : Chat!InitializeUser(s) <=> InitializeUser(s)
  /\ \A s : Chat!PurgeUser(s) <=> PurgeUser(s)
  /\ \A s : Chat!AddAuthedUser(s) <=> AddAuthedUser(s)
  /\ Chat!RegistryInit <=> RegistryInit
BY DEF Chat!registryVars, registryVars, Chat!GetRoomUsers, GetRoomUsers,
       Chat!GetUserRooms, GetUserRooms, Chat!GetUsername, GetUsername,
       Chat!IsUserAuthed, IsUserAuthed, Chat!Put, Put, Chat!InitializeUser,
       InitializeUser, Chat!SetUsername, SetUsername, Chat!CanAdd, CanAdd,
       Chat!AddToRoom, AddToRoom, Chat!FirstIndex, FirstIndex, Chat!LastIndex,
       LastIndex, Chat!Dereference, Dereference, Chat!Misparsed, Misparsed,
       Chat!HandleReply, HandleReply, Chat!Overheard, Overheard, Chat!Asker, Asker,
       Chat!heardVars, heardVars, Chat!EraseFirst, EraseFirst, Chat!EraseLast, EraseLast,
       Chat!RoomsWithout, RoomsWithout, Chat!IsInRoom, IsInRoom,
       Chat!RemoveFromRoom, RemoveFromRoom, Chat!PurgeUser, PurgeUser,
       Chat!AddAuthedUser, AddAuthedUser, Chat!RegistryInit, RegistryInit,
       Chat!FaultKinds, FaultKinds, Chat!Client, Client, Chat!Request, Request,
       Chat!loopVars, loopVars, Chat!netVars, netVars, Chat!Halted, Halted,
       Chat!Broken, Broken, Chat!Pending, Pending, Chat!Readable, Readable,
       Chat!SaysGoodbye, SaysGoodbye, Chat!HasPacket, HasPacket,
       Chat!SendFailures, SendFailures, Chat!Watched, Watched, Chat!ReadyNow,
       ReadyNow, Chat!Notice, Notice, Chat!Personal, Personal, Chat!Fails,
       Fails, Chat!Selected, Selected, Chat!Unvisited, Unvisited, Chat!Index,
       Index, Chat!Visiting, Visiting, Chat!VisitDone, VisitDone,
       Chat!VisitSkipped, VisitSkipped, Chat!StopServing, StopServing,
       Chat!Crash, Crash, Chat!Finish, Finish, Chat!SendAndSkip, SendAndSkip,
       Chat!SendAndStop, SendAndStop, Chat!Receive, Receive, Chat!ChatHint,
       ChatHint, Chat!ChatMessages, ChatMessages, Chat!RefuseUnauthed,
       RefuseUnauthed, Chat!RefuseRoom, RefuseRoom, Chat!RefuseNameless,
       RefuseNameless, Chat!JoinBlank, JoinBlank, Chat!JoinRoom, JoinRoom,
       Chat!LeaveBlank, LeaveBlank, Chat!LeaveRoom, LeaveRoom,
       Chat!LeaveOtherRoom, LeaveOtherRoom, Chat!NickBlank, NickBlank,
       Chat!RenameMessages, RenameMessages, Chat!NickName, NickName,
       Chat!IsActive, IsActive, Chat!ReplyMessages, ReplyMessages,
       Chat!DepartureMessages, DepartureMessages, Chat!HandlesAfterDisconnect,
       HandlesAfterDisconnect, Chat!ScanOver, ScanOver, Chat!WillAccept,
       WillAccept, Chat!BackToSelect, BackToSelect, Chat!LoopUnchanged,
       LoopUnchanged, Chat!Breaks, Breaks, Chat!Closes, Closes, Chat!Answers,
       Answers, Chat!ToSet, ToSet, Chat!RemoveAt, RemoveAt, Chat!Restrict,
       Restrict

(* A visit that sends no request. *)
LEMMA OtherVisits ==
  ASSUME NEW s \in Socket, UNCHANGED Unanswered
  PROVE  /\ ChatPacket(s) => Chat!ChatPacket(s)
         /\ JoinCommand(s) => Chat!JoinCommand(s)
         /\ LeaveCommand(s) => Chat!LeaveCommand(s)
         /\ NickCommand(s) => Chat!NickCommand(s)
         /\ HelpCommand(s) => Chat!HelpCommand(s)
         /\ UnknownCommand(s) => Chat!UnknownCommand(s)
         /\ ClientDisconnect(s) => Chat!ClientDisconnect(s)
         /\ ReceiveError(s) => Chat!ReceiveError(s)
         /\ Accept(s) => Chat!Accept(s)
<1>1. ChatPacket(s) => Chat!ChatPacket(s)
  BY SameChat DEF heardVars, Chat!heardVars, ChatPacket, Chat!ChatPacket, registryVars, Chat!registryVars
<1>2. JoinCommand(s) => Chat!JoinCommand(s)
  BY SameChat DEF heardVars, Chat!heardVars, JoinCommand, Chat!JoinCommand
<1>3. LeaveCommand(s) => Chat!LeaveCommand(s)
  BY SameChat DEF heardVars, Chat!heardVars, LeaveCommand, Chat!LeaveCommand
<1>4. NickCommand(s) => Chat!NickCommand(s)
  BY SameChat DEF heardVars, Chat!heardVars, NickCommand, Chat!NickCommand
<1>5. HelpCommand(s) => Chat!HelpCommand(s)
  BY SameChat DEF heardVars, Chat!heardVars, HelpCommand, Chat!HelpCommand, registryVars, Chat!registryVars
<1>6. UnknownCommand(s) => Chat!UnknownCommand(s)
  BY SameChat DEF heardVars, Chat!heardVars, UnknownCommand, Chat!UnknownCommand, registryVars, Chat!registryVars
<1>7. ClientDisconnect(s) => Chat!ClientDisconnect(s)
  BY SameChat DEF heardVars, Chat!heardVars, ClientDisconnect, Chat!ClientDisconnect, linkVars, Chat!linkVars, netVars,
     Chat!netVars
<1>8. ReceiveError(s) => Chat!ReceiveError(s)
  BY SameChat DEF heardVars, Chat!heardVars, ReceiveError, Chat!ReceiveError, linkVars, Chat!linkVars, netVars,
     Chat!netVars, registryVars, Chat!registryVars
<1>9. Accept(s) => Chat!Accept(s)
  BY SameChat DEF heardVars, Chat!heardVars, Accept, Chat!Accept, linkVars, Chat!linkVars
<1> QED BY <1>1, <1>2, <1>3, <1>4, <1>5, <1>6, <1>7, <1>8, <1>9

LEMMA OtherSteps ==
  ASSUME UNCHANGED Unanswered
  PROVE  /\ Select => Chat!Select
         /\ AuthReply => Chat!AuthReply
         /\ LinkDisconnect => Chat!LinkDisconnect
         /\ AcceptFails => Chat!AcceptFails
         /\ NothingToAccept => Chat!NothingToAccept
<1>1. Select => Chat!Select
  BY SameChat DEF heardVars, Chat!heardVars, Select, Chat!Select, linkVars, Chat!linkVars, netVars, Chat!netVars, registryVars,
     Chat!registryVars, Chat!Cardinality, Cardinality
<1>2. AuthReply => Chat!AuthReply
  BY SameChat DEF heardVars, Chat!heardVars, AuthReply, Chat!AuthReply, netVars, Chat!netVars, registryVars, Chat!registryVars
<1>3. LinkDisconnect => Chat!LinkDisconnect
  BY SameChat DEF heardVars, Chat!heardVars, LinkDisconnect, Chat!LinkDisconnect, linkVars, Chat!linkVars, netVars,
     Chat!netVars, registryVars, Chat!registryVars
<1>4. AcceptFails => Chat!AcceptFails
  BY SameChat DEF heardVars, Chat!heardVars, AcceptFails, Chat!AcceptFails, linkVars, Chat!linkVars, netVars,
     Chat!netVars, registryVars, Chat!registryVars
<1>5. NothingToAccept => Chat!NothingToAccept
  BY SameChat DEF heardVars, Chat!heardVars, NothingToAccept, Chat!NothingToAccept, linkVars, Chat!linkVars, netVars,
     Chat!netVars, registryVars, Chat!registryVars
<1> QED BY <1>1, <1>2, <1>3, <1>4, <1>5

(* A request that is sent is one more that is unanswered. *)
LEMMA RequestIsUnanswered ==
  ASSUME AuthInv, LinkInv, ChatThread, UNCHANGED replies, NEW q \in Request,
         LinkHasRoom, SendToAuthServer(q)
  PROVE  Chat!LinkHasRoom /\ Chat!SendToAuthServer(q)
<1>1. /\ Server /\ UNCHANGED <<authVars, taken>>
      /\ Len(Unanswered') + Len(replies') <= MaxRequests
  BY DEF ChatThread
<1>2. requests' = IF wire[AuthLink] = "open" THEN Append(requests, q) ELSE requests
  BY DEF SendToAuthServer
<1>3. Unanswered' = IF wire[AuthLink] = "open" THEN Append(Unanswered, q) ELSE Unanswered
  BY <1>1, <1>2, ThisSideOnLink
<1>4. Len(Unanswered) + Len(replies) < MaxRequests
  <2>1. /\ Unanswered \in Seq(Request) /\ requests \in Seq(Request)
        /\ replies \in Seq(Reply) /\ MaxRequests \in Nat
    BY UnansweredTypes, ChatServerAssumption DEF LinkInv, LinkTypes
  <2>2. Len(Unanswered) \in Nat /\ Len(requests) \in Nat /\ Len(replies) \in Nat
    BY <2>1
  <2>3. CASE wire[AuthLink] = "open"
    <3>1. Len(Unanswered') = Len(Unanswered) + 1
      BY <1>3, <2>1, <2>3, AppendProperties
    <3>2. Len(Unanswered') + Len(replies) <= MaxRequests
      BY <1>1
    <3> QED BY <2>1, <2>2, <3>1, <3>2
  <2>4. CASE wire[AuthLink] # "open"
    <3>1. Len(Unanswered) = 0
      BY <2>4 DEF Unanswered
    <3>2. Len(requests) + Len(replies) < MaxRequests
      BY DEF LinkHasRoom
    <3> QED BY <2>1, <2>2, <3>1, <3>2
  <2> QED BY <2>3, <2>4
<1> QED BY <1>3, <1>4 DEF Chat!LinkHasRoom, Chat!SendToAuthServer

LEMMA AccountStep ==
  ASSUME AuthInv, LinkInv, ChatThread, NEW s \in Socket, AccountCommand(s)
  PROVE  Chat!AccountCommand(s)
<1>1. Server /\ UNCHANGED <<authVars, taken>>
  BY DEF ChatThread
<1>2. Receive(s, "account") /\ UNCHANGED <<registryVars, rumours, replies>>
  BY DEF AccountCommand, Receive
<1>3. Chat!Receive(s, "account") /\ UNCHANGED Chat!registryVars
  BY <1>2, SameChat DEF registryVars, Chat!registryVars
<1>4. CASE AccountBlank(s)
  <2>1. UNCHANGED Unanswered
    BY <1>1, <1>4, ThisSideOnLink DEF AccountBlank
  <2>2. Chat!AccountBlank(s)
    BY <1>4, <2>1, SameChat DEF AccountBlank, Chat!AccountBlank
  <2> QED BY <1>2, <1>3, <2>2 DEF Chat!AccountCommand
<1>5. ASSUME NEW kind, ForwardAccount(s, kind) PROVE Chat!ForwardAccount(s, kind)
  <2>3. LinkHasRoom
    BY <1>5 DEF ForwardAccount
  <2>1. PICK q \in Request : q.kind = kind /\ q.id = s /\ SendToAuthServer(q)
    BY <1>5 DEF ForwardAccount
  <2>2. Chat!LinkHasRoom /\ Chat!SendToAuthServer(q)
    BY <1>2, <2>1, <2>3, RequestIsUnanswered
  <2>4. /\ \E failing \in Chat!SendFailures : Chat!Finish(<<Chat!Personal(kind, AuthLink)>>, failing)
        /\ asked' = IF kind = "login" THEN asked \cup {s} ELSE asked
    BY <1>5, SameChat DEF ForwardAccount
  <2>5. q \in Chat!Request
    BY SameChat
  <2> QED BY <2>1, <2>2, <2>4, <2>5 DEF Chat!ForwardAccount
<1> QED BY <1>2, <1>3, <1>4, <1>5 DEF AccountCommand, Chat!AccountCommand

LEMMA ReplyStep ==
  ASSUME AuthInv, LinkInv, ChatThread, NEW s \in Socket, ReplyPacket(s)
  PROVE  Chat!ReplyPacket(s)
<1>1. Server /\ UNCHANGED <<authVars, taken>>
  BY DEF ChatThread
<1>2. Receive(s, "reply") /\ Chat!Receive(s, "reply") /\ UNCHANGED <<replies, asked>>
  BY SameChat DEF ReplyPacket, Receive
<1>3. PICK what \in ClientReplies, id \in RepliesAbout :
         /\ HandleReply([what |-> what, id |-> id])
         /\ Overheard([what |-> what, id |-> id])
         /\ IF id = AuthLink /\ IsActive(AuthLink)
            THEN LinkHasRoom /\ SendToAuthServer(Misparsed)
            ELSE UNCHANGED requests
  BY DEF ReplyPacket
<1>4. /\ Chat!HandleReply([what |-> what, id |-> id])
      /\ Chat!Overheard([what |-> what, id |-> id])
  BY <1>3, SameChat
<1>5. IF id = AuthLink /\ Chat!IsActive(AuthLink)
      THEN Chat!LinkHasRoom /\ Chat!SendToAuthServer(Chat!Misparsed)
      ELSE UNCHANGED Unanswered
  BY <1>1, <1>2, <1>3, SameChat, MisparsedTypes, RequestIsUnanswered, ThisSideOnLink
<1> QED BY <1>2, <1>4, <1>5 DEF Chat!ReplyPacket

LEMMA ChatThreadMaps ==
  ASSUME AuthInv, LinkInv, ChatThread
  PROVE  Chat!Server
<1>1. Server /\ UNCHANGED <<authVars, taken>>
  BY DEF ChatThread
<1>2. UNCHANGED requests => UNCHANGED Unanswered
  BY <1>1, ThisSideOnLink
<1>3. CASE Select \/ AuthReply \/ LinkDisconnect \/ AcceptFails \/ NothingToAccept
  <2>1. UNCHANGED requests
    BY <1>3 DEF Select, AuthReply, LinkDisconnect, AcceptFails, NothingToAccept, linkVars
  <2> QED BY <1>2, <1>3, <2>1, OtherSteps DEF Chat!Server
<1>4. ASSUME NEW s \in Socket, ClientVisit(s) \/ ReceiveError(s) \/ Accept(s)
      PROVE  Chat!ClientVisit(s) \/ Chat!ReceiveError(s) \/ Chat!Accept(s)
  <2>1. CASE AccountCommand(s)
    BY <2>1, AccountStep DEF Chat!ClientVisit
  <2>3. CASE ReplyPacket(s)
    BY <2>3, ReplyStep DEF Chat!ClientVisit
  <2>2. CASE ~AccountCommand(s) /\ ~ReplyPacket(s)
    <3>1. UNCHANGED requests
      BY <1>4, <2>2 DEF ClientVisit, ChatPacket, JoinCommand, LeaveCommand, NickCommand,
                        HelpCommand, UnknownCommand, ClientDisconnect, ReceiveError, Accept,
                        linkVars
    <3> QED BY <1>2, <1>4, <2>2, <3>1, OtherVisits DEF ClientVisit, Chat!ClientVisit
  <2> QED BY <2>1, <2>2, <2>3
<1> QED BY <1>1, <1>3, <1>4 DEF Server, Chat!Server

LEMMA ClientStepMaps ==
  ASSUME LinkInv, ClientStep
  PROVE  Chat!Peers
<1>1. UNCHANGED Unanswered
  BY ClientsOnLink
<1>2. CASE ClientConnects
  BY <1>1, <1>2, SameChat DEF ClientConnects, Chat!ClientConnects, linkVars, Chat!linkVars,
     Chat!Peers, Chat!Cardinality, Cardinality
<1>3. ASSUME NEW s \in Client, ClientSends(s) PROVE Chat!ClientSends(s)
  BY <1>1, <1>3, SameChat DEF ClientSends, Chat!ClientSends, linkVars, Chat!linkVars
<1>4. ASSUME NEW s \in Client, ClientFault(s) PROVE Chat!ClientFault(s)
  BY <1>1, <1>4, SameChat DEF ClientFault, Chat!ClientFault, linkVars, Chat!linkVars
<1>5. Chat!Client = Client
  BY SameChat
<1> QED BY <1>2, <1>3, <1>4, <1>5 DEF ClientStep, Chat!Peers

LEMMA OtherSideMaps ==
  ASSUME LinkEffect, Serving
  PROVE  Chat!Peers \/ UNCHANGED Chat!vars
<1>1. ~Halted /\ UNCHANGED <<registryVars, activeConnections, handles, loopVars, inbox, backlog,
                            sent, heardVars>>
  BY DEF Serving
<1>2. Chat!LoopUnchanged
  BY <1>1, SameChat DEF LoopUnchanged, heardVars
<1>3. CASE UNCHANGED <<wire, replies, Unanswered>>
  BY <1>1, <1>3 DEF Chat!vars, Chat!registryVars, registryVars, Chat!loopVars, loopVars,
                    Chat!netVars, Chat!linkVars, heardVars, Chat!heardVars
<1>4. CASE LinkFails
  BY <1>1, <1>2, <1>4, SameChat DEF LinkFails, Chat!LinkFault, Chat!Peers
<1>5. CASE LinkAnswers
  BY <1>1, <1>2, <1>5, SameChat DEF LinkAnswers, Chat!AuthServerAnswers, Chat!Peers, Chat!netVars
<1> QED BY <1>3, <1>4, <1>5 DEF LinkEffect

LEMMA StepMaps ==
  ASSUME AuthInv, LinkInv, [SystemNext]_systemVars
  PROVE  [Chat!Next]_Chat!vars
<1>1. CASE ChatThread
  BY <1>1, ChatThreadMaps DEF Chat!Next
<1>2. CASE ClientStep
  BY <1>2, ClientStepMaps DEF Chat!Next
<1>3. CASE AuthThread \/ AuthEnds \/ RequestArrives \/ NetworkFault \/ AuthHears
  <2>1. Serving
    BY <1>3 DEF AuthThread, AuthEnds, RequestArrives, NetworkFault, AuthHears
  <2> QED BY <1>3, <2>1, OtherSideOnLink, OtherSideMaps DEF Chat!Next
<1>4. CASE SystemStopped \/ SystemIdle \/ UNCHANGED systemVars
  <2>1. UNCHANGED vars /\ UNCHANGED Unanswered
    BY <1>4, ClientsOnLink DEF SystemStopped, SystemIdle, systemVars
  <2> QED BY <2>1 DEF Chat!vars, vars, Chat!registryVars, registryVars, Chat!loopVars, loopVars,
                      Chat!netVars, netVars, Chat!linkVars, linkVars,
                      Chat!heardVars, heardVars
<1> QED BY <1>1, <1>2, <1>3, <1>4 DEF SystemNext

LEMMA StartMaps == SystemInit => Chat!Init
<1> SUFFICES ASSUME SystemInit PROVE Chat!Init
  OBVIOUS
<1>1. Unanswered = <<>>
  BY ConcatEmptySeq, EmptySeq DEF SystemInit, Init, Unanswered
<1> QED BY <1>1, SameChat DEF SystemInit, Init, Chat!Init

(* ImplementsChatServer: whatever the number of clients, of requests and   *)
(* of crashes, the auth server of this code answers the requests it was    *)
(* sent, in their order, one of each recv(), or the connection is lost     *)
(* with them: all that ChatServer, and the proofs about it, assume.        *)
THEOREM SystemImplementsChatServer == SystemSpec => ImplementsChatServer
<1>1. SystemInit => Chat!Init /\ AuthInv /\ LinkInv
  BY StartMaps, AuthInvStarts, LinkStarts
<1>2. AuthInv /\ LinkInv /\ [SystemNext]_systemVars => AuthInv' /\ LinkInv' /\ [Chat!Next]_Chat!vars
  BY AuthInvGoesOn, LinkGoesOn, StepMaps
<1> QED BY <1>1, <1>2, PTL DEF SystemSpec, ImplementsChatServer, Chat!Spec

-----------------------------------------------------------------------------
(* Good news is true: an answer speaks of a request that its own           *)
(* connection has sent, and of an account that exists, unless it is a      *)
(* client that speaks.                                                     *)

GoodNews == {"registered", "loggedIn"}

KindOf(what) == IF what = "loggedIn" THEN "login" ELSE "register"

(* A request on its way names the connection that sent it, or nobody. *)
Backed(q) ==
    /\ q \in Request
    /\ q.id \in Client => q.id \in handles /\ q \in offered[q.id]
    /\ q.kind = "login" => q.id \in Client \cap asked

(* s has an account for which it has sent a request of that kind. *)
Earned(s, kind) ==
    /\ s \in Client \cap handles
    /\ \E q \in offered[s] : q.kind = kind /\ HasAccount(q)

(* Good news to s is true, or is what a client said of s. *)
Deserved(s, what) == Earned(s, KindOf(what)) \/ Heard(s, what)

OffersInv ==
    /\ offered \in [Client -> SUBSET Request]
    /\ \A q \in ToSet(requests) \cup ToSet(authInbox[AuthLink]) \cup ToSet(taken) : Backed(q)
    /\ \A m \in ToSet(replies) : m.what \in GoodNews /\ m.id \in Client => Earned(m.id, KindOf(m.what))
    /\ \A s \in ToSet(authedUsers) : Deserved(s, "loggedIn")
    /\ \A k \in DOMAIN sent :
          sent[k].what \in GoodNews => \A s \in ToSet(sent[k].to) : Deserved(s, sent[k].what)

(* Accounts stay. *)
LEMMA AccountsStay ==
  ASSUME AuthInv, [SystemNext]_systemVars, NEW q, HasAccount(q)
  PROVE  HasAccount(q)'
<1>1. \/ UNCHANGED accounts
      \/ \E row : accounts' = Append(accounts, row)
  BY AuthMoves, AuthAssumed, AuthProofs!TableSteps
     DEF AuthProofs!tables, AuthProofs!InsertUser, AuthProofs!InsertAccount, AuthProofs!UpdateUser
<1>2. PICK k \in DOMAIN accounts :
         accounts[k].email = q.email /\ accounts[k].password = q.password
  BY DEF HasAccount
<1>3. accounts \in Seq(AuthProofs!Account)
  BY DEF AuthInv, AuthProofs!AuthInv, AuthProofs!AuthTypeOK
<1>4. ASSUME NEW row, accounts' = Append(accounts, row)
      PROVE  k \in DOMAIN accounts' /\ accounts'[k] = accounts[k]
  BY <1>2, <1>3, <1>4
<1> QED BY <1>1, <1>2, <1>4 DEF HasAccount

(* A connection's offers stay as long as its handle, which is for ever. *)
LEMMA OffersStay ==
  ASSUME AuthInv, LinkInv, CoreInv, OffersInv, [SystemNext]_systemVars
  PROVE  /\ offered' \in [Client -> SUBSET Request]
         /\ handles \subseteq handles' /\ asked \subseteq asked' /\ rumours \subseteq rumours'
         /\ \A s \in Client \cap handles : offered[s] \subseteq offered'[s]
<1>1. offered \in [Client -> SUBSET Request]
  BY DEF OffersInv
<1>2. CASE ChatThread
  <2>1. [Next]_vars /\ Effect
    BY <1>2, StepEffect DEF ChatThread, Next
  <2>2. handles \subseteq handles' /\ asked \subseteq asked' /\ rumours \subseteq rumours'
    BY <2>1, ConnectionsNext, AskedGrows, RumoursGrow
  <2>3. requests' \in Seq(Request)
    BY LinkGoesOn DEF LinkInv, LinkTypes
  <2>4. ToSet(requests') \subseteq Request
    BY <2>3 DEF ToSet
  <2>5. offered' = [s \in Client |->
                       IF IsActive(s)' /\ ~IsActive(s) THEN {}
                       ELSE offered[s] \cup {q \in ToSet(requests') : q.id = s}]
    BY <1>2 DEF ChatThread, RememberOffers
  <2>6. ASSUME NEW s \in Client \cap handles, IsActive(s)' PROVE IsActive(s)
    <3>1. activeConnections \in Seq(Socket) /\ IsInjective(activeConnections)
          /\ ToSet(activeConnections) \subseteq handles
      BY DEF CoreInv, ConnectionsOK, UsersAreConnections
    <3>2. \A t : ToSet(EraseFirst(activeConnections, t)) = ToSet(activeConnections) \ {t}
      BY <3>1, EraseFirstProperties
    <3>3. \A t \in Client \ handles :
             ToSet(Append(activeConnections, t)) = ToSet(activeConnections) \cup {t}
      BY <3>1, PushBackProperties DEF Client
    <3>4. \/ activeConnections' = activeConnections
          \/ \E t : activeConnections' = EraseFirst(activeConnections, t)
          \/ \E t \in Client \ handles : activeConnections' = Append(activeConnections, t)
      BY <2>1 DEF Effect, SameConnections
    <3>5. s \in ToSet(activeConnections')
      BY <2>6 DEF IsActive
    <3>6. s \in ToSet(activeConnections)
      BY <3>2, <3>3, <3>4, <3>5
    <3> QED BY <3>6 DEF IsActive
  <2> QED BY <1>1, <2>2, <2>4, <2>5, <2>6
<1>3. CASE ClientStep
  BY <1>1, <1>3 DEF ClientStep, ClientConnects, ClientSends, ClientFault, LoopUnchanged, heardVars
<1>4. CASE AuthThread \/ AuthEnds \/ RequestArrives \/ NetworkFault \/ AuthHears
  BY <1>1, <1>4 DEF AuthThread, AuthEnds, RequestArrives, NetworkFault, AuthHears, Serving, heardVars
<1>5. CASE SystemStopped \/ SystemIdle \/ UNCHANGED systemVars
  BY <1>1, <1>5 DEF SystemStopped, SystemIdle, systemVars, vars, heardVars
<1> QED BY <1>2, <1>3, <1>4, <1>5 DEF SystemNext

LEMMA ClaimsStay ==
  ASSUME AuthInv, LinkInv, CoreInv, OffersInv, [SystemNext]_systemVars
  PROVE  /\ \A q : Backed(q) => Backed(q)'
         /\ \A s, kind : Earned(s, kind) => Earned(s, kind)'
         /\ \A s, what : Deserved(s, what) => Deserved(s, what)'
<1>1. ASSUME NEW q, Backed(q) PROVE Backed(q)'
  BY <1>1, OffersStay DEF Backed
<1>2. ASSUME NEW s, NEW kind, Earned(s, kind) PROVE Earned(s, kind)'
  <2>1. PICK q \in offered[s] : q.kind = kind /\ HasAccount(q)
    BY <1>2 DEF Earned
  <2>2. HasAccount(q)'
    BY <2>1, AccountsStay
  <2> QED BY <1>2, <2>1, <2>2, OffersStay DEF Earned
<1>3. \A s, what : Heard(s, what) => Heard(s, what)'
  BY OffersStay DEF Heard
<1> QED BY <1>1, <1>2, <1>3 DEF Deserved

(* The auth server's good news: the statements before have seen to it. *)
LEMMA AnswerIsTrue ==
  ASSUME AuthInv, Auth!Server \/ Auth!Kill \/ Auth!StatementThrows,
         authAnswer = NoAnswer, authAnswer' # NoAnswer, authAnswer'.what \in GoodNews
  PROVE  HasAccount(authAnswer'.request)
<1>1. ASSUME NEW q, NEW what, NEW id, Auth!Reply(q, what, id)
      PROVE  authAnswer'.request = q /\ authAnswer'.what = what
  BY <1>1 DEF Auth!Reply
<1>2. CASE Auth!ReplyRegistered \/ Auth!GetCreationDate
  <2>1. authPhase \in {"reply", "getDate"} /\ authAnswer'.request = authRequest
    BY <1>1, <1>2 DEF Auth!ReplyRegistered, Auth!GetCreationDate, Auth!Die
  <2>2. AuthProofs!RequestHasAccount
    BY <2>1 DEF AuthInv, AuthProofs!AuthInv, AuthProofs!StatementOK
  <2> QED BY <2>1, <2>2 DEF AuthProofs!RequestHasAccount, HasAccount
<1>3. CASE Auth!Kill \/ Auth!StatementThrows \/ Auth!Select \/ Auth!NothingToAccept \/ Auth!AcceptFails
  BY <1>3 DEF Auth!Kill, Auth!StatementThrows, Auth!Die, Auth!Select, Auth!NothingToAccept,
              Auth!AcceptFails, Auth!BackToSelect
<1>4. ASSUME Auth!InsertUser \/ Auth!SelectId \/ Auth!InsertAccount \/ Auth!UpdateUser
      PROVE  FALSE
  BY <1>4 DEF Auth!InsertUser, Auth!SelectId, Auth!InsertAccount, Auth!UpdateUser, Auth!Die
<1>7. ASSUME Auth!GetAccount PROVE FALSE
  <2>1. Auth!Reply(authRequest, "denied", 0)
    BY <1>7 DEF Auth!GetAccount
  <2> QED BY <1>1, <2>1 DEF GoodNews
<1>5. ASSUME NEW c \in {AuthLink}, Auth!CreateAccount(c) \/ Auth!Authenticate(c)
      PROVE  FALSE
  BY <1>1, <1>5 DEF Auth!CreateAccount, Auth!Authenticate, GoodNews
<1>6. ASSUME NEW c \in {AuthLink}, Auth!Disconnect(c) \/ Auth!ReceiveError(c) \/ Auth!Accept(c)
      PROVE  FALSE
  BY <1>6 DEF Auth!Disconnect, Auth!ReceiveError, Auth!Accept, Auth!BackToSelect
<1> QED BY <1>2, <1>3, <1>4, <1>5, <1>6, <1>7 DEF Auth!Server, Auth!Handling

(* The reply that a step of the auth server adds, and the request it is    *)
(* about.                                                                  *)
LEMMA RepliesAreTrue ==
  ASSUME AuthInv, LinkInv, OffersInv, AuthThread \/ AuthEnds
  PROVE  \/ replies' = replies \/ replies' = <<>>
         \/ \E q, what :
               /\ Backed(q) /\ what \in Answers(q.kind)
               /\ replies' = Append(replies, [what |-> what, id |-> q.id])
               /\ what \in GoodNews => HasAccount(q)
<1>1. AuthStep /\ AuthEffect /\ (Auth!Server \/ Auth!Kill \/ Auth!StatementThrows)
  BY StepHasEffect DEF AuthThread, AuthEnds, LinkInv
<1>2. CASE authPhase' \in {"crashed", "down"} \/ authAnswer # NoAnswer \/ authAnswer' = NoAnswer
  BY <1>1, <1>2 DEF AuthStep, LinkBreaks
<1>3. CASE authPhase' \notin {"crashed", "down"} /\ authAnswer = NoAnswer /\ authAnswer' # NoAnswer
  <2> DEFINE q == authAnswer'.request
             what == ReplyKind[authAnswer'.what]
  <2>1. replies' = replies \/ replies' = Append(replies, [what |-> what, id |-> q.id])
    BY <1>1, <1>3 DEF AuthStep
  <2>2. \/ InHand /\ Gives(authRequest)
        \/ /\ ~InHand /\ \E k \in Nat : Takes(k)
           /\ Gives(Head(authInbox[AuthLink]))
    BY <1>1, <1>3 DEF AuthEffect
  <2>3. Backed(q) /\ what \in Answers(q.kind)
    <3>1. CASE InHand /\ Gives(authRequest)
      <4>1. taken # <<>> /\ Head(taken) = authRequest /\ taken \in Seq(Request)
        BY <3>1 DEF LinkInv, LinkTypes, TakenInHand
      <4>2. authRequest \in ToSet(taken)
        BY <4>1 DEF ToSet
      <4> QED BY <3>1, <4>2 DEF Gives, OffersInv
    <3>2. CASE (\E k \in Nat : Takes(k)) /\ Gives(Head(authInbox[AuthLink]))
      <4>1. authInbox[AuthLink] \in Seq(Request) /\ authInbox[AuthLink] # <<>>
        BY <3>2, AuthTypes, TakesReceived
      <4>2. Head(authInbox[AuthLink]) \in ToSet(authInbox[AuthLink])
        BY <4>1 DEF ToSet
      <4> QED BY <3>2, <4>2 DEF Gives, OffersInv
    <3> QED BY <2>2, <3>1, <3>2
  <2>4. what \in GoodNews => HasAccount(q)
    <3>1. authAnswer'.what \in {"registered", "exists", "weakPassword", "loggedIn", "denied"}
      BY <1>1, <1>3, <2>2, AuthInvGoesOn, AuthAssumed DEF Gives, AuthThread, AuthEnds, AuthInv,
         AuthProofs!AuthInv, AuthProofs!AuthTypeOK, AuthProofs!Answer, SystemNext
    <3>2. what \in GoodNews => authAnswer'.what \in GoodNews
      BY <3>1 DEF ReplyKind, GoodNews
    <3> QED BY <1>1, <1>3, <3>2, AnswerIsTrue
  <2> HIDE DEF q, what
  <2> QED BY <2>1, <2>3, <2>4
<1> QED BY <1>2, <1>3

(* Only the visit that reads a reply speaks of accounts, or authorises. *)
LEMMA OnlyRepliesTell ==
  ASSUME CoreInv, Server, ~AuthReply, \A s \in Socket : ~ReplyPacket(s)
  PROVE  sent' \in Seq(Utterance) /\ UNCHANGED <<authedUsers, replies>>
<1>1. <<>> \in Seq(Utterance)
  OBVIOUS
<1>2. CASE Select \/ AcceptFails \/ NothingToAccept
  BY <1>1, <1>2 DEF Select, AcceptFails, NothingToAccept, linkVars, registryVars
<1>6. CASE LinkDisconnect
  BY <1>6, DepartureUtterances DEF LinkDisconnect, PurgeUser, linkVars, CoreInv
<1>3. ASSUME NEW s \in Socket, ReceiveError(s)
      PROVE  sent' \in Seq(Utterance) /\ UNCHANGED <<authedUsers, replies>>
  BY <1>1, <1>3 DEF ReceiveError, SendAndStop, linkVars, registryVars
<1>4. ASSUME NEW s \in Socket, Accept(s)
      PROVE  sent' \in Seq(Utterance) /\ UNCHANGED <<authedUsers, replies>>
  <2>1. <<Personal("welcome", s)>> \in Seq(Utterance)
    BY PersonalUtterance DEF Words, MessageKinds, ReplyKinds
  <2> QED BY <1>4, <2>1 DEF Accept, InitializeUser, linkVars
<1>5. ASSUME NEW s \in Socket, ClientVisit(s)
      PROVE  sent' \in Seq(Utterance) /\ UNCHANGED <<authedUsers, replies>>
  <2>1. UNCHANGED replies
    BY <1>5 DEF ClientVisit, ChatPacket, JoinCommand, LeaveCommand, NickCommand, HelpCommand,
                UnknownCommand, AccountCommand, ClientDisconnect, Receive, linkVars
  <2>2. CASE JoinCommand(s) \/ LeaveCommand(s) \/ NickCommand(s)
    <3>1. UNCHANGED authedUsers
      BY <2>2 DEF JoinCommand, RefuseUnauthed, RefuseRoom, RefuseNameless, JoinBlank, JoinRoom,
                  LeaveCommand, LeaveBlank, LeaveRoom, LeaveOtherRoom, NickCommand, NickBlank,
                  NickName, AddToRoom, RemoveFromRoom, SetUsername, registryVars
    <3> QED BY <1>5, <2>1, <3>1, VisitUtterances
  <2>3. CASE ~(JoinCommand(s) \/ LeaveCommand(s) \/ NickCommand(s))
    <3>1. UNCHANGED authedUsers
      BY <1>5, <2>3 DEF ClientVisit, ChatPacket, HelpCommand, UnknownCommand, AccountCommand,
                        ClientDisconnect, PurgeUser, registryVars
    <3> QED BY <1>5, <2>1, <3>1, VisitUtterances
  <2> QED BY <2>2, <2>3
<1> QED BY <1>2, <1>3, <1>4, <1>5, <1>6 DEF Server

(* What a reply brings is deserved if the reply is. *)
LEMMA ReplyTells ==
  ASSUME CoreInv, OffersInv, NEW reply, HandleReply(reply),
         \A s, what : Deserved(s, what) => Deserved(s, what)',
         reply.what \in GoodNews /\ IsActive(reply.id) => Deserved(reply.id, reply.what)'
  PROVE  /\ \A s \in ToSet(authedUsers') : Deserved(s, "loggedIn")'
         /\ \A k \in DOMAIN sent' :
               sent'[k].what \in GoodNews =>
                   \A s \in ToSet(sent'[k].to) : Deserved(s, sent[k].what)'
<1>1. \A s \in ToSet(authedUsers) : Deserved(s, "loggedIn")'
  BY DEF OffersInv
<1>2. ASSUME NEW k \in DOMAIN sent', sent'[k].what \in GoodNews, NEW s \in ToSet(sent'[k].to)
      PROVE  Deserved(s, sent[k].what)'
  <2>1. IsActive(reply.id) /\ sent' = <<Personal(reply.what, reply.id)>>
    BY <1>2 DEF HandleReply, Finish, ReplyMessages
  <2>2. sent'[k] = [what |-> reply.what, room |-> NoRoom, to |-> <<reply.id>>]
    BY <2>1 DEF Personal, Notice
  <2>3. ToSet(sent'[k].to) = {reply.id} /\ sent'[k].what = reply.what
    BY <2>2 DEF ToSet
  <2> QED BY <1>2, <2>1, <2>3
<1>3. CASE reply.what = "loggedIn" /\ IsActive(reply.id)
  <2>1. authedUsers \in Seq(Socket) /\ reply.id \in Socket
    BY <1>3 DEF CoreInv, RegistryInv, RegistryTypeOK, ConnectionsOK, IsActive, ToSet
  <2>2. ToSet(Append(authedUsers, reply.id)) = ToSet(authedUsers) \cup {reply.id}
    BY <2>1, AppendElements
  <2>3. authedUsers' \in {authedUsers, Append(authedUsers, reply.id)}
    BY <1>3 DEF HandleReply, AddAuthedUser
  <2>4. Deserved(reply.id, "loggedIn")'
    BY <1>3 DEF GoodNews
  <2>5. \A s \in ToSet(authedUsers') : Deserved(s, "loggedIn")'
    BY <1>1, <2>2, <2>3, <2>4
  <2> QED BY <2>5, <1>2
<1>4. CASE ~(reply.what = "loggedIn" /\ IsActive(reply.id))
  <2>1. UNCHANGED authedUsers
    BY <1>4 DEF HandleReply, registryVars
  <2> QED BY <1>1, <1>2, <2>1
<1> QED BY <1>3, <1>4

(* The reply of the auth server is true. *)
LEMMA RepliesTellTruth ==
  ASSUME CoreInv, OffersInv, AuthReply,
         \A s, what : Deserved(s, what) => Deserved(s, what)'
  PROVE  /\ \A s \in ToSet(authedUsers') : Deserved(s, "loggedIn")'
         /\ \A k \in DOMAIN sent' :
               sent'[k].what \in GoodNews =>
                   \A s \in ToSet(sent'[k].to) : Deserved(s, sent[k].what)'
         /\ ToSet(replies') \subseteq ToSet(replies)
<1>1. HasPacket(AuthLink) /\ HandleReply(Head(replies))
  BY DEF AuthReply
<1>2. replies # <<>> /\ replies \in Seq(Reply)
  BY <1>1 DEF HasPacket, Pending, CoreInv, LoginsWereAsked
<1>3. PICK k \in 1 .. MaxCoalesce :
         k <= Len(replies) /\ replies' = SubSeq(replies, k + 1, Len(replies))
  BY DEF AuthReply
<1>4. k \in 1 .. Len(replies)
  BY <1>2, <1>3, ChatServerAssumption
<1>5. /\ ToSet(replies') \subseteq ToSet(replies)
      /\ Head(replies) \in ToSet(replies) /\ Head(replies) \in Reply
  BY <1>2, <1>3, <1>4, SuffixElements
<1>6. PICK reply \in Reply : reply = Head(replies)
  BY <1>5
<1>7. reply.what \in GoodNews /\ IsActive(reply.id) => Deserved(reply.id, reply.what)'
  <2>1. IsActive(reply.id) => reply.id \in Socket
    BY DEF IsActive, ToSet, CoreInv, ConnectionsOK
  <2>2. IsActive(reply.id) => reply.id \in Client
    BY <2>1, ChatServerAssumption DEF Reply, Asker
  <2>3. reply.what \in GoodNews /\ reply.id \in Client => Earned(reply.id, KindOf(reply.what))
    BY <1>5, <1>6 DEF OffersInv
  <2>4. Earned(reply.id, KindOf(reply.what)) => Deserved(reply.id, reply.what)'
    BY DEF Deserved
  <2> QED BY <2>2, <2>3, <2>4
<1>8. HandleReply(reply)
  BY <1>1, <1>6
<1> QED BY <1>5, <1>7, <1>8, ReplyTells

(* The reply of a client is what a client said. *)
LEMMA RumoursTell ==
  ASSUME CoreInv, OffersInv, NEW s \in Socket, ReplyPacket(s),
         \A t, what : Deserved(t, what) => Deserved(t, what)'
  PROVE  /\ \A t \in ToSet(authedUsers') : Deserved(t, "loggedIn")'
         /\ \A k \in DOMAIN sent' :
               sent'[k].what \in GoodNews =>
                   \A t \in ToSet(sent'[k].to) : Deserved(t, sent[k].what)'
         /\ UNCHANGED replies
<1>1. PICK what \in ClientReplies, id \in RepliesAbout :
         HandleReply([what |-> what, id |-> id]) /\ Overheard([what |-> what, id |-> id])
  BY DEF ReplyPacket
<1>2. IsActive(id) => Deserved(id, what)'
  BY <1>1 DEF Overheard, Deserved, Heard
<1>3. UNCHANGED replies
  BY DEF ReplyPacket, Receive
<1> QED BY <1>1, <1>2, <1>3, ReplyTells

LEMMA ThisSideOffers ==
  ASSUME AuthInv, LinkInv, CoreInv, OffersInv, ChatThread
  PROVE  CoreInv' /\ OffersInv'
<1>1. /\ Server /\ [Next]_vars /\ Effect /\ UNCHANGED <<authVars, taken>>
      /\ [SystemNext]_systemVars
  BY StepEffect DEF ChatThread, Next, SystemNext
<1>2. CoreInv'
  BY <1>1, CoreInvNext
<1>3. /\ \A q : Backed(q) => Backed(q)'
      /\ \A s, kind : Earned(s, kind) => Earned(s, kind)'
      /\ \A s, what : Deserved(s, what) => Deserved(s, what)'
  BY <1>1, ClaimsStay
<1>4. UNCHANGED <<taken, authInbox>>
  BY <1>1 DEF authVars
<1>5. \A q \in ToSet(requests') : Backed(q)'
  <2>1. \A q \in ToSet(requests) : Backed(q)'
    BY <1>3 DEF OffersInv
  <2>2. requests \in Seq(Request)
    BY DEF LinkInv, LinkTypes
  <2>3. CASE UNCHANGED requests
    BY <2>1, <2>3
  <2>4. ASSUME NEW q \in Request, requests' = Append(requests, q),
               IsActive(q.id) \/ (q.id = Nobody /\ q.kind = "register"),
               asked' = IF q.kind = "login" THEN asked \cup {q.id} ELSE asked
        PROVE  \A p \in ToSet(requests') : Backed(p)'
    <3>1. ToSet(requests') = ToSet(requests) \cup {q}
      BY <2>2, <2>4, AppendElements
    <3>2. IsActive(q.id) => q.id \in Client /\ q.id \in handles'
      BY <1>1, <2>4, OffersStay, ChatServerAssumption
         DEF Request, Asker, IsActive, CoreInv, ConnectionsOK
    <3>3. q.id \in Client => IsActive(q.id)
      BY <2>4, LinkIsClient, ChatServerAssumption
    <3>4. q.id \in Client => q \in offered'[q.id]
      BY <3>1, <3>3 DEF ChatThread, RememberOffers
    <3>5. Backed(q)'
      BY <2>4, <3>2, <3>3, <3>4 DEF Backed
    <3> QED BY <2>1, <3>1, <3>5
  <2>5. requests' = <<>> => ToSet(requests') = {}
    BY EmptyVector
  <2>6. ASSUME NEW k \in 1 .. Len(requests), requests' = SubSeq(requests, k + 1, Len(requests))
        PROVE  \A p \in ToSet(requests') : Backed(p)'
    BY <2>1, <2>2, <2>6, SuffixElements
  <2> QED BY <1>1, <2>3, <2>4, <2>5, <2>6, StepQueue DEF QueueEffect, linkVars
<1>6. offered' \in [Client -> SUBSET Request]
  BY <1>1, OffersStay
<1>7. CASE AuthReply
  BY <1>2, <1>3, <1>4, <1>5, <1>6, <1>7, RepliesTellTruth DEF OffersInv
<1>9. ASSUME NEW s \in Socket, ReplyPacket(s) PROVE OffersInv'
  BY <1>2, <1>3, <1>4, <1>5, <1>6, <1>9, RumoursTell DEF OffersInv
<1>8. CASE ~AuthReply /\ \A s \in Socket : ~ReplyPacket(s)
  <2>1. sent' \in Seq(Utterance) /\ UNCHANGED <<authedUsers, replies>>
    BY <1>1, <1>8, OnlyRepliesTell
  <2>2. \A k \in DOMAIN sent' : sent'[k].what \notin GoodNews
    BY <2>1 DEF Utterance, ReplyKinds, GoodNews
  <2> QED BY <1>2, <1>3, <1>4, <1>5, <1>6, <2>1, <2>2 DEF OffersInv
<1> QED BY <1>2, <1>7, <1>8, <1>9

(* The end of the process empties what the auth server had. *)
LEMMA AuthStepIsEnd ==
  ASSUME AuthInv, AuthStep, Auth!Server \/ Auth!Kill \/ Auth!StatementThrows,
         authPhase' \in {"crashed", "down"}
  PROVE  /\ taken' = <<>>
         /\ \/ authInbox'[AuthLink] = authInbox[AuthLink]
            \/ authInbox'[AuthLink] = <<>>
<1>1. taken' = <<>>
  BY DEF AuthStep, LinkBreaks
<1>2. Auth!Die => authInbox'[AuthLink] = <<>>
  BY DEF Auth!Die
<1>3. ASSUME Auth!Kill \/ Auth!StatementThrows PROVE authInbox'[AuthLink] = <<>>
  BY <1>2, <1>3 DEF Auth!Kill, Auth!StatementThrows
<1>4. ASSUME Auth!InsertAccount \/ Auth!GetCreationDate, ~Auth!Die PROVE authInbox' = authInbox
  BY <1>4 DEF Auth!InsertAccount, Auth!GetCreationDate
<1>7. ASSUME \/ Auth!Select \/ Auth!NothingToAccept \/ Auth!AcceptFails \/ Auth!InsertUser
             \/ Auth!SelectId \/ Auth!ReplyRegistered \/ Auth!GetAccount \/ Auth!UpdateUser
      PROVE  authInbox' = authInbox
  BY <1>7 DEF Auth!Select, Auth!NothingToAccept, Auth!AcceptFails, Auth!BackToSelect,
              Auth!InsertUser, Auth!SelectId, Auth!ReplyRegistered, Auth!GetAccount,
              Auth!UpdateUser
<1>5. ASSUME NEW c \in {AuthLink}, Auth!Disconnect(c) \/ Auth!ReceiveError(c) \/ Auth!Accept(c)
      PROVE  authInbox' = authInbox
  BY <1>5 DEF Auth!Disconnect, Auth!ReceiveError, Auth!Accept, Auth!BackToSelect
<1>6. ASSUME NEW c \in {AuthLink}, Auth!CreateAccount(c) \/ Auth!Authenticate(c)
      PROVE  FALSE
  BY <1>6 DEF Auth!CreateAccount, Auth!Authenticate, Auth!Reply, Auth!Proceed, Auth!Continue
<1> QED
  BY <1>1, <1>2, <1>3, <1>4, <1>5, <1>6, <1>7 DEF Auth!Server, Auth!Handling

(* What is on its way to the auth server, or in its hands, was there, or    *)
(* moves on from one place to the next.                                    *)
LEMMA RequestsMove ==
  ASSUME AuthInv, LinkInv,
         AuthThread \/ AuthEnds \/ RequestArrives \/ NetworkFault \/ AuthHears
  PROVE  ToSet(requests') \cup ToSet(authInbox'[AuthLink]) \cup ToSet(taken')
             \subseteq ToSet(requests) \cup ToSet(authInbox[AuthLink]) \cup ToSet(taken)
<1> DEFINE b == authInbox[AuthLink]
<1>1. /\ authInbox \in [{AuthLink} -> Seq(Request)] /\ b \in Seq(Request)
      /\ taken \in Seq(Request) /\ requests \in Seq(Request)
  BY AuthTypes DEF LinkInv, LinkTypes
<1>2. ToSet(<<>>) = {}
  BY EmptyVector
<1>3. CASE AuthThread \/ AuthEnds
  <2>1. AuthStep /\ AuthEffect /\ (Auth!Server \/ Auth!Kill \/ Auth!StatementThrows)
    BY <1>3, StepHasEffect DEF AuthThread, AuthEnds, LinkInv
  <2>2. requests' = requests \/ requests' = <<>>
    BY <2>1 DEF AuthStep, LinkBreaks
  <2>3. CASE authPhase' \in {"crashed", "down"}
    <3>1. taken' = <<>>
      BY <2>1, <2>3, AuthStepIsEnd
    <3>2. authInbox'[AuthLink] = b \/ authInbox'[AuthLink] = <<>>
      BY <2>1, <2>3, AuthStepIsEnd
    <3> QED BY <1>2, <2>2, <3>1, <3>2
  <2>4. CASE authPhase' \notin {"crashed", "down"} /\ UNCHANGED authInbox
    <3>1. taken' = taken \/ taken' = <<>>
      BY <2>1, <2>4, NothingReceived DEF AuthStep
    <3> QED BY <1>2, <2>2, <2>4, <3>1
  <2>5. ASSUME authPhase' \notin {"crashed", "down"}, NEW k \in Nat, Takes(k), ~InHand
        PROVE  ToSet(authInbox'[AuthLink]) \cup ToSet(taken') \subseteq ToSet(b) \cup ToSet(taken)
    <3>1. /\ k \in 1 .. Len(b) /\ authInbox'[AuthLink] = SubSeq(b, k + 1, Len(b))
          /\ Received = SubSeq(b, 1, k)
      BY <2>5, TakesReceived
    <3>2. taken = <<>>
      BY <2>5 DEF LinkInv, TakenInHand
    <3> HIDE DEF b
    <3>3. ToSet(SubSeq(b, 1, k)) \subseteq ToSet(b) /\ SubSeq(b, 1, k) \in Seq(Request)
      BY <1>1, <3>1 DEF ToSet
    <3>4. taken' = <<>> \/ taken' = <<>> \o SubSeq(b, 1, k)
      BY <2>1, <2>5, <3>1, <3>2 DEF AuthStep
    <3>5. taken' = <<>> \/ taken' = SubSeq(b, 1, k)
      BY <3>3, <3>4, ConcatEmptySeq
    <3>6. ToSet(authInbox'[AuthLink]) \subseteq ToSet(b)
      BY <1>1, <3>1, SuffixElements
    <3> QED BY <1>2, <3>3, <3>5, <3>6
  <2>6. \/ authPhase' \in {"crashed", "down"} \/ UNCHANGED authInbox
        \/ ~InHand /\ \E k \in Nat : Takes(k)
    BY <2>1 DEF AuthEffect
  <2>7. CASE authPhase' \notin {"crashed", "down"} /\ ~InHand /\ \E k \in Nat : Takes(k)
    <3>1. ToSet(authInbox'[AuthLink]) \cup ToSet(taken') \subseteq ToSet(b) \cup ToSet(taken)
      BY <2>5, <2>7
    <3> QED BY <1>2, <2>2, <3>1
  <2> QED BY <2>3, <2>4, <2>6, <2>7
<1>4. CASE RequestArrives
  <2>1. /\ requests # <<>> /\ requests' = Tail(requests) /\ taken' = taken
        /\ authInbox'[AuthLink] = Append(b, Head(requests))
    BY <1>4 DEF RequestArrives
  <2> HIDE DEF b
  <2>2. ToSet(Append(b, Head(requests))) = ToSet(b) \cup {Head(requests)}
    BY <1>1, <2>1, AppendElements
  <2>3. ToSet(Tail(requests)) \subseteq ToSet(requests) /\ Head(requests) \in ToSet(requests)
    BY <1>1, <2>1 DEF ToSet
  <2> QED BY <2>1, <2>2, <2>3 DEF b
<1>5. CASE NetworkFault
  BY <1>2, <1>5 DEF NetworkFault, authVars
<1>6. CASE AuthHears
  <2>1. UNCHANGED <<requests, taken>>
    BY <1>6 DEF AuthHears, linkVars
  <2>2. authInbox'[AuthLink] = b \/ authInbox'[AuthLink] = <<>>
    BY <1>1, <1>6 DEF AuthHears, Auth!PeerFault
  <2> QED BY <1>2, <2>1, <2>2
<1> QED BY <1>3, <1>4, <1>5, <1>6

(* A chat server that hears nothing keeps its invariant, if what it is     *)
(* told next is true.                                                      *)
LEMMA CoreStays ==
  ASSUME CoreInv, LinkTypes',
         UNCHANGED <<registryVars, activeConnections, handles, loopVars, heardVars>>,
         \A q \in ToSet(requests') : q.kind = "login" => q.id \in asked,
         \A m \in ToSet(replies') : m.what \in Answers("login") => m.id \in asked
  PROVE  CoreInv'
<1>1. RegistryInv'
  <2>1. [RegistryNext]_registryVars
    OBVIOUS
  <2> QED BY <2>1, RegistryInvNext DEF CoreInv
<1>2. ConnectionsOK' /\ UsersAreConnections' /\ MembersAreEntitled'
  BY DEF CoreInv, ConnectionsOK, UsersAreConnections, MembersAreEntitled, registryVars, loopVars,
         IsActive, IsUserAuthed, GetUsername, GetRoomUsers
<1>3. requests' \in Seq(Request) /\ replies' \in Seq(Reply)
  BY DEF LinkTypes
<1>5. LoginsWereAsked'
  BY <1>3 DEF CoreInv, LoginsWereAsked, registryVars, heardVars, Heard
<1> QED BY <1>1, <1>2, <1>5 DEF CoreInv

LEMMA OtherSideOffers ==
  ASSUME AuthInv, LinkInv, CoreInv, OffersInv,
         AuthThread \/ AuthEnds \/ RequestArrives \/ NetworkFault \/ AuthHears
  PROVE  CoreInv' /\ OffersInv'
<1>1. /\ UNCHANGED <<registryVars, activeConnections, handles, loopVars, sent, heardVars,
                    offered>>
      /\ [SystemNext]_systemVars
  BY DEF AuthThread, AuthEnds, RequestArrives, NetworkFault, AuthHears, Serving, SystemNext
<1>2. LinkTypes' /\ LinkTypes
  BY OtherSideOnLink DEF LinkInv
<1>3. /\ \A q : Backed(q) => Backed(q)'
      /\ \A s, kind : Earned(s, kind) => Earned(s, kind)'
      /\ \A s, what : Deserved(s, what) => Deserved(s, what)'
  BY <1>1, ClaimsStay
<1>4. \A q \in ToSet(requests') \cup ToSet(authInbox'[AuthLink]) \cup ToSet(taken') :
         Backed(q) /\ Backed(q)'
  BY <1>3, RequestsMove DEF OffersInv
<1>10. UNCHANGED asked
  BY <1>1 DEF heardVars
<1>5. \/ replies' = replies \/ replies' = <<>>
      \/ \E q, what :
            /\ Backed(q) /\ what \in Answers(q.kind)
            /\ replies' = Append(replies, [what |-> what, id |-> q.id])
            /\ what \in GoodNews => HasAccount(q)
  BY RepliesAreTrue DEF RequestArrives, NetworkFault, AuthHears, linkVars
<1>6. \A m \in ToSet(replies') :
         /\ m.what \in Answers("login") => m.id \in asked
         /\ m.what \in GoodNews /\ m.id \in Client => Earned(m.id, KindOf(m.what))'
  <2>1. \A m \in ToSet(replies) :
           /\ m.what \in Answers("login") => m.id \in asked
           /\ m.what \in GoodNews /\ m.id \in Client => Earned(m.id, KindOf(m.what))'
    BY <1>3 DEF OffersInv, CoreInv, LoginsWereAsked
  <2>2. ASSUME NEW q, NEW what, Backed(q), what \in Answers(q.kind),
               replies' = Append(replies, [what |-> what, id |-> q.id]),
               what \in GoodNews => HasAccount(q)
        PROVE  \A m \in ToSet(replies') :
                  /\ m.what \in Answers("login") => m.id \in asked
                  /\ m.what \in GoodNews /\ m.id \in Client => Earned(m.id, KindOf(m.what))'
    <3> DEFINE reply == [what |-> what, id |-> q.id]
    <3>1. /\ q \in Request /\ q.id \in Asker /\ q.kind \in {"register", "login"}
          /\ q.id \in Client => q.id \in handles /\ q \in offered[q.id]
          /\ q.kind = "login" => q.id \in asked
      BY <2>2 DEF Backed, Request
    <3>2. reply \in Reply
      BY <2>2, <3>1 DEF Reply, ReplyKinds, Answers
    <3>3. reply.what = what /\ reply.id = q.id
      OBVIOUS
    <3> HIDE DEF reply
    <3>4. ToSet(replies') = ToSet(replies) \cup {reply}
      BY <1>2, <2>2, <3>2, AppendElements DEF LinkTypes, reply
    <3>5. what \in Answers("login") => q.id \in asked
      BY <2>2, <3>1 DEF Answers
    <3>6. what \in GoodNews => q.kind = KindOf(what)
      BY <2>2, <3>1 DEF Answers, GoodNews, KindOf
    <3>7. what \in GoodNews /\ q.id \in Client => Earned(q.id, KindOf(what))'
      <4>1. what \in GoodNews /\ q.id \in Client => Earned(q.id, KindOf(what))
        BY <2>2, <3>1, <3>6 DEF Earned
      <4> QED BY <1>3, <4>1
    <3> QED BY <2>1, <3>3, <3>4, <3>5, <3>7
  <2>3. replies' = <<>> => ToSet(replies') = {}
    BY EmptyVector
  <2> QED BY <1>5, <2>1, <2>2, <2>3
<1>7. CoreInv'
  <2>1. \A q \in ToSet(requests') : q.kind = "login" => q.id \in asked
    BY <1>4 DEF Backed
  <2> QED BY <1>1, <1>2, <1>6, <2>1, CoreStays
<1>8. UNCHANGED authedUsers
  BY <1>1 DEF registryVars
<1>9. OffersInv'
  BY <1>1, <1>3, <1>4, <1>6, <1>8 DEF OffersInv
<1> QED BY <1>7, <1>9

LEMMA ClientsOffer ==
  ASSUME AuthInv, LinkInv, CoreInv, OffersInv,
         ClientStep \/ SystemStopped \/ SystemIdle \/ UNCHANGED systemVars
  PROVE  CoreInv' /\ OffersInv'
<1>1. [Next]_vars /\ [SystemNext]_systemVars
  BY DEF ClientStep, SystemStopped, SystemIdle, systemVars, Next, Peers, SystemNext
<1>2. CoreInv'
  BY <1>1, CoreInvNext
<1>3. /\ \A s, kind : Earned(s, kind) => Earned(s, kind)'
      /\ \A s, what : Deserved(s, what) => Deserved(s, what)'
  BY <1>1, ClaimsStay
<1>4. \A q : Backed(q) => Backed(q)'
  BY <1>1, ClaimsStay
<1>5. /\ UNCHANGED <<requests, replies, taken, authInbox, authedUsers, offered>>
      /\ sent' = sent
  BY DEF ClientStep, ClientConnects, ClientSends, ClientFault, LoopUnchanged, linkVars,
         registryVars, SystemStopped, SystemIdle, systemVars, vars, authVars
<1> QED BY <1>2, <1>3, <1>4, <1>5 DEF OffersInv

SystemInv == AuthInv /\ LinkInv /\ CoreInv /\ OffersInv

LEMMA SystemInvStarts == SystemInit => SystemInv
<1> SUFFICES ASSUME SystemInit PROVE SystemInv
  OBVIOUS
<1>1. Init /\ CoreInv
  BY CoreInvInit DEF SystemInit
<1>2. ToSet(<<>>) = {}
  BY EmptyVector
<1>3. /\ requests = <<>> /\ replies = <<>> /\ taken = <<>> /\ authInbox[AuthLink] = <<>>
      /\ authedUsers = <<>> /\ sent = <<>> /\ offered = [s \in Client |-> {}]
  BY DEF SystemInit, Init, RegistryInit
<1>4. OffersInv
  BY <1>2, <1>3 DEF OffersInv
<1> QED BY <1>1, <1>4, AuthInvStarts, LinkStarts DEF SystemInv

LEMMA SystemInvGoesOn ==
  ASSUME SystemInv, [SystemNext]_systemVars
  PROVE  SystemInv'
<1>1. AuthInv' /\ LinkInv'
  BY AuthInvGoesOn, LinkGoesOn DEF SystemInv
<1>2. CoreInv' /\ OffersInv'
  BY ThisSideOffers, OtherSideOffers, ClientsOffer DEF SystemInv, SystemNext
<1> QED BY <1>1, <1>2 DEF SystemInv

(* GoodNewsIsTrue: no client is told of an account, or of a login, that is *)
(* not its own doing and in the database, however often the auth server    *)
(* ended between the request and the news, unless a client's own packet    *)
(* brought the news.                                                       *)
THEOREM NewsIsTrue == SystemSpec => []GoodNewsIsTrue
<1>1. SystemInv => GoodNewsIsTrue
  BY DEF SystemInv, OffersInv, Deserved, Heard, Earned, GoodNews, KindOf, GoodNewsIsTrue
<1> QED BY <1>1, SystemInvStarts, SystemInvGoesOn, PTL DEF SystemSpec

(* AuthorisedHaveAccounts: the chat server's list of authorised users has  *)
(* no connection on it that did not send the email and the password of an  *)
(* account, except those of which a client's own packet said that they had *)
(* logged in.                                                              *)
THEOREM TheAuthorisedAreKnown == SystemSpec => []AuthorisedHaveAccounts
<1>1. SystemInv => AuthorisedHaveAccounts
  BY DEF SystemInv, OffersInv, Deserved, Heard, KindOf, Earned, AuthorisedHaveAccounts
<1> QED BY <1>1, SystemInvStarts, SystemInvGoesOn, PTL DEF SystemSpec
=============================================================================
