-------------------------- MODULE AuthServerProofs --------------------------
(***************************************************************************)
(* What is proved of the auth server, for any emails, chat servers and     *)
(* number of crashes: its tables stay consistent, to its callers it is     *)
(* AccountStore, its scan never waits, and only crashes leave orphans.     *)
(***************************************************************************)
EXTENDS AuthServer, VectorFacts, TLAPS

(* AUTO_INCREMENT leaves no gap: what is inserted is never removed. *)
IdsConsecutive == \E n \in Nat : DOMAIN users = 1 .. n

(* Only the user of an account can have logged in. *)
OrphansUnseen == \A u \in DOMAIN users \ UserIds : users[u] = FALSE

(* The account of the request being handled is in the table. *)
RequestHasAccount ==
    \E k \in DOMAIN accounts :
        accounts[k] = [email |-> request.email, password |-> request.password,
                       userId |-> userID]

(* What each statement may rely on from those before it. *)
StatementOK ==
    /\ phase \in Statements => answer = NoAnswer /\ Unvisited # {}
    /\ phase \in {"insertUser", "selectId", "insertAccount"} =>
          request.email \notin Emails /\ request.password \notin ShortPassword
    /\ phase = "selectId" => DOMAIN users # {} /\ LastId \notin UserIds
    /\ phase = "insertAccount" => userID \in DOMAIN users \ UserIds
    /\ phase = "getAccount" => request.email \in Emails
    /\ phase \in {"reply", "updateUser", "getDate"} => RequestHasAccount
    /\ phase = "getDate" => users[userID]

AuthInv ==
    /\ AuthTypeOK
    /\ IdsConsecutive
    /\ AccountsHaveUsers
    /\ AccountsAreDistinct
    /\ OrphansUnseen
    /\ StatementOK

-----------------------------------------------------------------------------
(* The greatest id and the next one. *)
LEMMA Ids ==
  ASSUME IdsConsecutive
  PROVE  /\ NextId \in Nat \ {0} /\ NextId \notin DOMAIN users
         /\ \E n \in Nat : DOMAIN users \cup {NextId} = 1 .. n
         /\ Greatest(DOMAIN users \cup {NextId}) = NextId
         /\ DOMAIN users # {} => LastId \in DOMAIN users
<1>1. PICK n \in Nat : DOMAIN users = 1 .. n
  BY DEF IdsConsecutive
<1>2. ASSUME NEW m \in Nat \ {0} PROVE Greatest(1 .. m) = m
  <2>1. m \in 1 .. m /\ \A v \in 1 .. m : v <= m
    OBVIOUS
  <2>2. \A u \in 1 .. m : (\A v \in 1 .. m : v <= u) => u = m
    OBVIOUS
  <2> QED BY <2>1, <2>2 DEF Greatest
<1>3. n = 0 <=> DOMAIN users = {}
  BY <1>1
<1>4. NextId = n + 1
  BY <1>1, <1>2, <1>3 DEF NextId
<1>5. DOMAIN users \cup {NextId} = 1 .. (n + 1)
  BY <1>1, <1>4
<1>6. Greatest(DOMAIN users \cup {NextId}) = NextId
  <2>1. n + 1 \in Nat \ {0}
    OBVIOUS
  <2>2. Greatest(1 .. (n + 1)) = n + 1
    BY <2>1, <1>2
  <2> QED BY <2>2, <1>4, <1>5
<1>7. DOMAIN users # {} => LastId \in DOMAIN users
  <2>1. SUFFICES ASSUME DOMAIN users # {} PROVE Greatest(DOMAIN users) \in DOMAIN users
    BY DEF LastId
  <2>2. n \in Nat \ {0}
    BY <2>1, <1>3
  <2>3. Greatest(1 .. n) = n /\ n \in 1 .. n
    BY <2>2, <1>2
  <2> QED BY <1>1, <2>3
<1> QED BY <1>1, <1>4, <1>5, <1>6, <1>7

(* The row that is found is the only one of its email. *)
LEMMA TheRow ==
  ASSUME AuthTypeOK, AccountsAreDistinct, NEW k \in DOMAIN accounts
  PROVE  Row[accounts[k].email] = accounts[k]
<1> DEFINE First(j) == /\ accounts[j].email = accounts[k].email
                       /\ \A i \in DOMAIN accounts :
                             accounts[i].email = accounts[k].email => j <= i
<1>1. DOMAIN accounts \subseteq Nat
  BY DEF AuthTypeOK
<1>2. \A j \in DOMAIN accounts : First(j) <=> j = k
  BY <1>1 DEF AccountsAreDistinct
<1>3. (CHOOSE j \in DOMAIN accounts : First(j)) = k
  BY <1>2
<1>4. accounts[k].email \in Emails
  BY DEF Emails
<1> QED BY <1>3, <1>4 DEF Row

(* The socket being visited is one of the vector. *)
LEMMA VisitedIsPeer ==
  ASSUME AuthTypeOK, Unvisited # {}
  PROVE  /\ Index \in Unvisited /\ Index \in DOMAIN activeConnections
         /\ Index \in Nat \ {0}
         /\ activeConnections[Index] \in Peer
<1>1. Unvisited \in SUBSET (Nat \ {0}) /\ Unvisited \subseteq DOMAIN activeConnections
  BY DEF Unvisited, AuthTypeOK
<1>2. Index \in Unvisited
  BY <1>1, LeastIndex DEF Index
<1> QED BY <1>1, <1>2 DEF AuthTypeOK

(* A reply is well formed and ends the visit. *)
LEMMA ReplyTypes ==
  ASSUME AuthTypeOK, Unvisited # {}, NEW q \in Request, NEW id \in Nat,
         NEW what \in {"registered", "exists", "weakPassword", "loggedIn", "denied"},
         Reply(q, what, id)
  PROVE  /\ answer' \in Answer /\ request' = NoRequest /\ userID' = 0
         /\ phase' = "scan" /\ next' \in Nat \ {0}
         /\ answer' = [to |-> activeConnections[Index], request |-> q,
                       what |-> what, userId |-> id]
BY VisitedIsPeer DEF Reply, Continue, Answer

(* What recv() does to the queue of the visited connection. *)
LEMMA ReceiveTypes ==
  ASSUME AuthTypeOK, NEW c \in Peer, Receive(c)
  PROVE  /\ Head(inbox[c]) \in Request
         /\ inbox' \in [Peer -> Seq(Request)]
         /\ phase = "scan" /\ Unvisited # {}
<1>1. inbox[c] \in Seq(Request)
  BY DEF AuthTypeOK
<1>2. PICK k \in 1 .. MaxCoalesce :
        k <= Len(inbox[c]) /\ inbox' = [inbox EXCEPT ![c] = SubSeq(@, k + 1, Len(@))]
  BY DEF Receive
<1>3. k \in 1 .. Len(inbox[c])
  BY <1>1, <1>2
<1>4. Head(inbox[c]) \in Request /\ SubSeq(inbox[c], k + 1, Len(inbox[c])) \in Seq(Request)
  BY <1>1, <1>3, SuffixElements
<1> QED BY <1>2, <1>4 DEF Receive, Visiting, AuthTypeOK

(* The end of the process leaves a state like the initial one. *)
LEMMA DieTypes ==
  ASSUME AuthTypeOK, Die
  PROVE  AuthTypeOK'
BY AuthServerAssumption DEF AuthTypeOK, Die, tables, Statements

(* The statements that handle a request. *)
LEMMA HandlingTypes ==
  ASSUME AuthInv, Handling
  PROVE  AuthTypeOK'
<1> USE AuthServerAssumption
<1>1. phase \in Statements
  BY DEF Handling, InsertUser, SelectId, InsertAccount, ReplyRegistered, GetAccount,
         UpdateUser, GetCreationDate, Statements
<1>2. AuthTypeOK /\ request \in Request /\ Unvisited # {}
  BY <1>1 DEF AuthInv, AuthTypeOK, StatementOK
<1>3. DOMAIN users \subseteq Nat \ {0} /\ userID \in Nat
  BY <1>2 DEF AuthTypeOK
<1>4. CASE InsertUser
  <2>1. NextId \in Nat \ {0}
    BY Ids DEF AuthInv
  <2>2. users' \in [DOMAIN users' -> BOOLEAN] /\ DOMAIN users' \subseteq Nat \ {0}
    BY <1>2, <1>4, <2>1 DEF InsertUser, AuthTypeOK
  <2> QED BY <1>2, <1>4, <2>2 DEF InsertUser, Proceed, AuthTypeOK, Statements, loopVars, netVars
<1>5. CASE SelectId
  <2>1. LastId \in Nat
    BY <1>3, <1>5, Ids DEF AuthInv, StatementOK, SelectId
  <2> QED BY <1>2, <1>5, <2>1 DEF SelectId, Proceed, AuthTypeOK, Statements, tables, loopVars, netVars
<1>6. CASE InsertAccount
  <2>1. CASE request.email \in TooLong
    BY <1>2, <1>6, <2>1, DieTypes DEF InsertAccount
  <2>2. CASE request.email \notin TooLong
    <3> DEFINE row == [email |-> request.email, password |-> request.password,
                       userId |-> userID]
    <3>1. row \in Account
      BY <1>2, <1>3, <1>6 DEF InsertAccount, AuthInv, StatementOK, Request, Account
    <3>2. accounts \in Seq(Account) /\ accounts' = Append(accounts, row)
      BY <1>2, <1>6, <2>2 DEF InsertAccount, AuthTypeOK
    <3> HIDE DEF row
    <3>3. accounts' \in Seq(Account)
      BY <3>1, <3>2, AppendProperties
    <3> QED
      BY <1>2, <1>6, <2>2, <3>3
         DEF InsertAccount, Proceed, AuthTypeOK, Statements, loopVars, netVars
  <2> QED BY <2>1, <2>2
<1>7. ASSUME NEW what \in {"registered", "denied", "loggedIn"}, NEW id \in Nat,
             Reply(request, what, id),
             UNCHANGED <<tables, loopVars, netVars, inbox, crashes>>
      PROVE  AuthTypeOK'
  <2>1. /\ answer' \in Answer /\ request' = NoRequest /\ userID' = 0
        /\ phase' = "scan" /\ next' \in Nat \ {0}
    BY <1>2, <1>7, ReplyTypes
  <2> QED BY <1>2, <1>7, <2>1 DEF AuthTypeOK, Statements, tables, loopVars, netVars
<1>8. CASE ReplyRegistered
  BY <1>3, <1>7, <1>8 DEF ReplyRegistered
<1>9. CASE GetAccount
  <2>1. CASE userID' = Row[request.email].userId /\ Proceed("updateUser")
             /\ UNCHANGED <<request, answer>>
    <3>1. PICK k \in DOMAIN accounts : accounts[k].email = request.email
      BY <1>9 DEF GetAccount, AuthInv, StatementOK, Emails
    <3>2. Row[request.email].userId \in Nat
      <4>1. Row[request.email] = accounts[k]
        BY <1>2, <3>1, TheRow DEF AuthInv
      <4>2. accounts[k] \in Account
        BY <1>2 DEF AuthTypeOK
      <4> QED BY <4>1, <4>2 DEF Account
    <3> QED
      BY <1>2, <1>9, <2>1, <3>2
         DEF GetAccount, Proceed, AuthTypeOK, Statements, tables, loopVars, netVars
  <2>2. CASE Reply(request, "denied", 0)
    BY <1>7, <1>9, <2>2 DEF GetAccount
  <2> QED BY <1>9, <2>1, <2>2 DEF GetAccount
<1>10. CASE UpdateUser
  BY <1>2, <1>10 DEF UpdateUser, Proceed, AuthTypeOK, Statements, loopVars, netVars
<1>11. CASE GetCreationDate
  BY <1>2, <1>3, <1>7, <1>11, DieTypes DEF GetCreationDate
<1> QED BY <1>4, <1>5, <1>6, <1>8, <1>9, <1>10, <1>11 DEF Handling

(* What the chat servers do. *)
LEMMA PeersTypes ==
  ASSUME AuthTypeOK, Peers
  PROVE  AuthTypeOK'
<1> USE DEF ServerUnchanged, tables, loopVars, netVars
<1>1. CASE PeerConnects
  BY <1>1 DEF PeerConnects, AuthTypeOK
<1>2. ASSUME NEW c \in Peer, PeerSends(c) PROVE AuthTypeOK'
  <2>1. PICK q \in Request : inbox' = [inbox EXCEPT ![c] = Append(@, q)]
    BY <1>2 DEF PeerSends
  <2>2. Append(inbox[c], q) \in Seq(Request)
    BY AppendProperties DEF AuthTypeOK
  <2> QED BY <1>2, <2>1, <2>2 DEF PeerSends, AuthTypeOK
<1>3. ASSUME NEW c \in Peer, PeerFault(c) PROVE AuthTypeOK'
  <2>1. wire' \in [Peer -> {"absent", "open", "closed", "reset", "aborted"}]
    BY <1>3 DEF PeerFault, AuthTypeOK
  <2>2. <<>> \in Seq(Request)
    OBVIOUS
  <2>3. inbox' = inbox \/ inbox' = [inbox EXCEPT ![c] = <<>>]
    BY <1>3 DEF PeerFault
  <2>4. inbox' \in [Peer -> Seq(Request)]
    BY <2>2, <2>3 DEF AuthTypeOK
  <2> QED BY <1>3, <2>1, <2>4 DEF PeerFault, AuthTypeOK
<1> QED BY <1>1, <1>2, <1>3 DEF Peers

(* Every step keeps the types. *)
LEMMA TypesNext ==
  ASSUME AuthInv, [Next]_vars
  PROVE  AuthTypeOK'
<1> USE AuthServerAssumption DEF tables, loopVars, netVars
<1>0. AuthTypeOK
  BY DEF AuthInv
<1>1. CASE UNCHANGED vars
  BY <1>0, <1>1 DEF vars, AuthTypeOK
<1>2. ASSUME NEW c \in Peer, CreateAccount(c) \/ Authenticate(c) PROVE AuthTypeOK'
  <2>1. Receive(c)
    BY <1>2 DEF CreateAccount, Authenticate
  <2>2. /\ Head(inbox[c]) \in Request /\ inbox' \in [Peer -> Seq(Request)]
        /\ phase = "scan" /\ Unvisited # {}
    BY <1>0, <2>1, ReceiveTypes
  <2>3. UNCHANGED <<tables, loopVars, netVars, crashes>>
    BY <2>1 DEF Receive
  <2>4. ASSUME NEW what \in {"exists", "weakPassword", "denied"},
               Reply(Head(inbox[c]), what, 0)
        PROVE  AuthTypeOK'
    <3>1. /\ answer' \in Answer /\ request' = NoRequest /\ userID' = 0
          /\ phase' = "scan" /\ next' \in Nat \ {0}
      BY <1>0, <2>2, <2>4, ReplyTypes
    <3> QED BY <1>0, <2>2, <2>3, <3>1 DEF AuthTypeOK, Statements
  <2>5. ASSUME NEW statement \in Statements, Proceed(statement),
               request' = Head(inbox[c]), userID' = 0, answer' = NoAnswer
        PROVE  AuthTypeOK'
    BY <1>0, <2>2, <2>3, <2>5 DEF AuthTypeOK, Proceed, Statements
  <2> QED BY <1>2, <2>4, <2>5 DEF CreateAccount, Authenticate, Statements
<1>3. ASSUME NEW c \in Peer, Disconnect(c) PROVE AuthTypeOK'
  <2>1. Unvisited # {} /\ Index \in Nat \ {0}
    BY <1>0, <1>3, VisitedIsPeer DEF Disconnect, Visiting
  <2>2. activeConnections' \in Seq(Peer)
    BY <1>0, <1>3, <2>1, VisitedIsPeer, RemoveAtElements DEF Disconnect, AuthTypeOK
  <2>3. next' \in Nat \ {0}
    BY <1>3, <2>1 DEF Disconnect, Continue
  <2> QED
    BY <1>0, <1>3, <2>2, <2>3 DEF Disconnect, Continue, Visiting, AuthTypeOK, Statements
<1>4. ASSUME NEW c \in Peer, ReceiveError(c) PROVE AuthTypeOK'
  BY <1>0, <1>4 DEF ReceiveError, Visiting, AuthTypeOK, Statements
<1>5. ASSUME NEW c \in Peer, Accept(c) PROVE AuthTypeOK'
  <2>1. activeConnections' \in Seq(Peer)
    BY <1>0, <1>5, AppendProperties DEF Accept, AuthTypeOK
  <2> QED
    BY <1>0, <1>5, <2>1 DEF Accept, BackToSelect, WillAccept, ScanOver, AuthTypeOK, Statements
<1>6. CASE AcceptFails
  BY <1>0, <1>6 DEF AcceptFails, BackToSelect, WillAccept, ScanOver, AuthTypeOK, Statements
<1>7. CASE NothingToAccept
  BY <1>0, <1>7 DEF NothingToAccept, BackToSelect, ScanOver, AuthTypeOK, Statements
<1>8. CASE Select
  <2>1. ReadyNow \subseteq Peer \cup {Listen}
    BY <1>0 DEF ReadyNow, AuthTypeOK, ToSet
  <2> QED BY <1>0, <1>8, <2>1 DEF Select, AuthTypeOK, Statements
<1>9. CASE Start
  BY <1>0, <1>9 DEF Start, AuthTypeOK, Statements
<1>10. CASE Kill \/ StatementThrows
  BY <1>0, <1>10, DieTypes DEF Kill, StatementThrows
<1> QED
  BY <1>0, <1>1, <1>2, <1>3, <1>4, <1>5, <1>6, <1>7, <1>8, <1>9, <1>10,
     HandlingTypes, PeersTypes
     DEF Next, Server, SelectTimeout, Stopped

-----------------------------------------------------------------------------
(* The columns after the second INSERT. *)
LEMMA ColumnsGrow ==
  ASSUME AuthTypeOK, AuthTypeOK', NEW row, accounts' = Append(accounts, row)
  PROVE  /\ Emails' = Emails \cup {row.email} /\ UserIds' = UserIds \cup {row.userId}
         /\ DOMAIN accounts' = DOMAIN accounts \cup {Len(accounts) + 1}
         /\ Len(accounts) + 1 \notin DOMAIN accounts
         /\ \A k \in DOMAIN accounts : accounts'[k] = accounts[k]
         /\ accounts'[Len(accounts) + 1] = row
<1>1. accounts \in Seq(Account)
  BY DEF AuthTypeOK
<1>2. /\ DOMAIN accounts' = DOMAIN accounts \cup {Len(accounts) + 1}
      /\ Len(accounts) + 1 \notin DOMAIN accounts
      /\ \A k \in DOMAIN accounts : accounts'[k] = accounts[k]
      /\ accounts'[Len(accounts) + 1] = row
  BY <1>1
<1>3. Emails' = Emails \cup {row.email} /\ UserIds' = UserIds \cup {row.userId}
  BY <1>2 DEF Emails, UserIds
<1> QED BY <1>2, <1>3

(* Who changes the tables. *)
LEMMA TableSteps ==
  ASSUME [Next]_vars
  PROVE  \/ UNCHANGED tables
         \/ InsertUser
         \/ InsertAccount /\ request.email \notin TooLong
         \/ UpdateUser
<1>1. CASE UNCHANGED vars
  BY <1>1 DEF vars
<1>2. CASE Handling
  BY <1>2 DEF Handling, InsertUser, SelectId, InsertAccount, ReplyRegistered, GetAccount,
              UpdateUser, GetCreationDate, Die
<1>3. CASE Server /\ ~Handling
  BY <1>3 DEF Server, Select, NothingToAccept, AcceptFails, BackToSelect, CreateAccount,
              Authenticate, Receive, Disconnect, ReceiveError, Accept
<1>4. CASE Peers
  BY <1>4 DEF Peers, PeerConnects, PeerSends, PeerFault, ServerUnchanged
<1> QED
  BY <1>1, <1>2, <1>3, <1>4
     DEF Next, SelectTimeout, Stopped, Kill, StatementThrows, Start, Die

(* The user of a request that has its account. *)
LEMMA RequestIsUsers ==
  ASSUME RequestHasAccount
  PROVE  userID \in UserIds
<1>1. PICK k \in DOMAIN accounts :
        accounts[k] = [email |-> request.email, password |-> request.password,
                       userId |-> userID]
  BY DEF RequestHasAccount
<1>2. accounts[k].userId = userID
  BY <1>1
<1> QED BY <1>2 DEF UserIds

(* The tables stay consistent. *)
LEMMA TablesNext ==
  ASSUME AuthInv, [Next]_vars
  PROVE  IdsConsecutive' /\ AccountsHaveUsers' /\ AccountsAreDistinct' /\ OrphansUnseen'
<1>0. AuthTypeOK /\ AuthTypeOK'
  BY TypesNext DEF AuthInv
<1>1. CASE UNCHANGED tables
  BY <1>1 DEF tables, AuthInv, IdsConsecutive, AccountsHaveUsers, AccountsAreDistinct,
              OrphansUnseen, UserIds
<1>2. CASE InsertUser
  <2>1. DOMAIN users' = DOMAIN users \cup {NextId} /\ accounts' = accounts
    BY <1>2 DEF InsertUser
  <2>2. IdsConsecutive'
    BY <2>1, Ids DEF AuthInv, IdsConsecutive
  <2>3. OrphansUnseen'
    BY <1>2, <2>1 DEF InsertUser, AuthInv, OrphansUnseen, UserIds
  <2> QED
    BY <2>1, <2>2, <2>3 DEF AuthInv, AccountsHaveUsers, AccountsAreDistinct, UserIds
<1>3. CASE InsertAccount /\ request.email \notin TooLong
  <2> DEFINE row == [email |-> request.email, password |-> request.password,
                     userId |-> userID]
  <2>1. /\ accounts' = Append(accounts, row) /\ users' = users
        /\ request.email \notin Emails /\ userID \in DOMAIN users \ UserIds
    BY <1>3 DEF InsertAccount, AuthInv, StatementOK
  <2>2. row.email = request.email /\ row.userId = userID
    OBVIOUS
  <2> HIDE DEF row
  <2>3. /\ UserIds' = UserIds \cup {userID}
        /\ DOMAIN accounts' = DOMAIN accounts \cup {Len(accounts) + 1}
        /\ Len(accounts) + 1 \notin DOMAIN accounts
        /\ \A k \in DOMAIN accounts : accounts'[k] = accounts[k]
        /\ accounts'[Len(accounts) + 1] = row
    BY <1>0, <2>1, <2>2, ColumnsGrow
  <2>4. \A k \in DOMAIN accounts : accounts[k].email # request.email /\ accounts[k].userId # userID
    BY <2>1 DEF Emails, UserIds
  <2>5. AccountsAreDistinct'
    BY <2>2, <2>3, <2>4 DEF AuthInv, AccountsAreDistinct
  <2> QED BY <2>1, <2>3, <2>5 DEF AuthInv, IdsConsecutive, AccountsHaveUsers, OrphansUnseen
<1>4. CASE UpdateUser
  <2>1. /\ DOMAIN users' = DOMAIN users /\ accounts' = accounts
        /\ \A u \in DOMAIN users \ {userID} : users'[u] = (u = userID \/ users[u])
    BY <1>4 DEF UpdateUser
  <2>2. userID \in UserIds
    BY <1>4, RequestIsUsers DEF AuthInv, StatementOK, UpdateUser
  <2>3. \A u \in DOMAIN users \ {userID} : users[u] = FALSE => users'[u] = FALSE
    BY <2>1
  <2>4. OrphansUnseen'
    BY <2>1, <2>2, <2>3 DEF AuthInv, OrphansUnseen, UserIds
  <2> QED
    BY <2>1, <2>4 DEF AuthInv, IdsConsecutive, AccountsHaveUsers, AccountsAreDistinct, UserIds
<1> QED BY <1>1, <1>2, <1>3, <1>4, TableSteps

-----------------------------------------------------------------------------
(* A state in which no statement is due. *)
LEMMA NoStatement ==
  ASSUME phase' \notin Statements
  PROVE  StatementOK'
BY DEF StatementOK, Statements

(* What each statement leaves for the next. *)
LEMMA HandlingStatements ==
  ASSUME AuthInv, Handling
  PROVE  StatementOK'
<1> USE DEF Proceed, Statements
<1>0. /\ phase \in Statements /\ answer = NoAnswer /\ Unvisited # {}
      /\ AuthTypeOK /\ AuthTypeOK'
  <2>1. phase \in Statements
    BY DEF Handling, InsertUser, SelectId, InsertAccount, ReplyRegistered, GetAccount,
           UpdateUser, GetCreationDate
  <2> QED BY <2>1, HandlingTypes DEF AuthInv, StatementOK
<1>1. ASSUME UNCHANGED <<loopVars, next>> PROVE Unvisited' = Unvisited
  BY <1>1 DEF Unvisited, loopVars
<1>2. CASE InsertUser
  <2>1. /\ DOMAIN users' = DOMAIN users \cup {NextId} /\ accounts' = accounts
        /\ phase' = "selectId" /\ request' = request /\ answer' = answer
        /\ UNCHANGED <<loopVars, next>>
    BY <1>2 DEF InsertUser
  <2>2. LastId' = NextId
    BY <2>1, Ids DEF AuthInv, LastId, Greatest
  <2>3. NextId \notin UserIds /\ UserIds' = UserIds /\ Emails' = Emails
    BY <2>1, Ids DEF AuthInv, AccountsHaveUsers, UserIds, Emails
  <2>4. request.email \notin Emails /\ request.password \notin ShortPassword
    BY <1>2 DEF InsertUser, AuthInv, StatementOK
  <2> QED BY <1>0, <1>1, <2>1, <2>2, <2>3, <2>4 DEF StatementOK
<1>3. CASE SelectId
  <2>1. /\ userID' = LastId /\ phase' = "insertAccount" /\ UNCHANGED tables
        /\ request' = request /\ answer' = answer /\ UNCHANGED <<loopVars, next>>
    BY <1>3 DEF SelectId
  <2>2. LastId \in DOMAIN users \ UserIds
    BY <1>3, Ids DEF SelectId, AuthInv, StatementOK
  <2>3. UserIds' = UserIds /\ Emails' = Emails /\ users' = users
    BY <2>1 DEF tables, UserIds, Emails
  <2>4. request.email \notin Emails /\ request.password \notin ShortPassword
    BY <1>3 DEF SelectId, AuthInv, StatementOK
  <2> QED BY <1>0, <1>1, <2>1, <2>2, <2>3, <2>4 DEF StatementOK
<1>4. CASE InsertAccount
  <2>1. CASE request.email \in TooLong
    BY <1>4, <2>1, NoStatement DEF InsertAccount, Die
  <2>2. CASE request.email \notin TooLong
    <3> DEFINE row == [email |-> request.email, password |-> request.password,
                       userId |-> userID]
    <3>1. /\ accounts' = Append(accounts, row) /\ phase' = "reply"
          /\ request' = request /\ answer' = answer /\ userID' = userID
          /\ UNCHANGED <<loopVars, next>>
      BY <1>4, <2>2 DEF InsertAccount
    <3>2. \E k \in DOMAIN accounts' : accounts'[k] = row
      <4> HIDE DEF row
      <4> QED BY <1>0, <3>1, ColumnsGrow
    <3>3. RequestHasAccount'
      BY <3>1, <3>2 DEF RequestHasAccount
    <3> HIDE DEF row
    <3> QED BY <1>0, <1>1, <3>1, <3>3 DEF StatementOK
  <2> QED BY <2>1, <2>2
<1>5. CASE ReplyRegistered \/ GetCreationDate
  BY <1>5, NoStatement DEF ReplyRegistered, GetCreationDate, Reply, Continue, Die
<1>6. CASE GetAccount
  <2>1. CASE Reply(request, "denied", 0)
    BY <2>1, NoStatement DEF Reply, Continue
  <2>2. CASE /\ Row[request.email].password = request.password
             /\ userID' = Row[request.email].userId
             /\ phase' = "updateUser" /\ UNCHANGED <<next, request, answer>>
    <3>1. PICK k \in DOMAIN accounts : accounts[k].email = request.email
      BY <1>6 DEF GetAccount, AuthInv, StatementOK, Emails
    <3>2. Row[request.email] = accounts[k] /\ accounts[k] \in Account
      BY <1>0, <3>1, TheRow DEF AuthInv, AuthTypeOK
    <3>3. accounts[k] = [email |-> request.email, password |-> request.password,
                         userId |-> userID']
      BY <2>2, <3>1, <3>2 DEF Account
    <3>4. accounts' = accounts /\ UNCHANGED <<loopVars, next>>
      BY <1>6, <2>2 DEF GetAccount, tables
    <3>5. RequestHasAccount'
      BY <2>2, <3>3, <3>4 DEF RequestHasAccount
    <3> QED BY <1>0, <1>1, <2>2, <3>4, <3>5 DEF StatementOK
  <2> QED BY <1>6, <2>1, <2>2 DEF GetAccount
<1>7. CASE UpdateUser
  <2>1. /\ users' = [u \in DOMAIN users |-> u = userID \/ users[u]]
        /\ phase' = "getDate" /\ UNCHANGED <<accounts, request, userID, answer>>
        /\ UNCHANGED <<loopVars, next>>
    BY <1>7 DEF UpdateUser
  <2>2. PICK k \in DOMAIN accounts :
          accounts[k] = [email |-> request.email, password |-> request.password,
                         userId |-> userID]
    BY <1>7 DEF UpdateUser, AuthInv, StatementOK, RequestHasAccount
  <2>3. accounts[k].userId = userID
    BY <2>2
  <2>4. userID \in DOMAIN users
    BY <2>3 DEF AuthInv, AccountsHaveUsers, UserIds
  <2>5. users'[userID']
    BY <2>1, <2>4
  <2>6. RequestHasAccount'
    BY <2>1, <2>2 DEF RequestHasAccount
  <2> QED BY <1>0, <1>1, <2>1, <2>5, <2>6 DEF StatementOK
<1> QED BY <1>2, <1>3, <1>4, <1>5, <1>6, <1>7 DEF Handling

(* What a request is checked for before its first statement but one. *)
LEMMA StatementsNext ==
  ASSUME AuthInv, [Next]_vars
  PROVE  StatementOK'
<1> USE DEF Statements
<1>1. ASSUME UNCHANGED <<tables, loopVars, phase, next, request, userID, answer>>
      PROVE  StatementOK'
  BY <1>1 DEF AuthInv, StatementOK, tables, loopVars, Unvisited, Emails, UserIds, LastId,
              RequestHasAccount
<1>2. CASE UNCHANGED vars \/ Peers \/ SelectTimeout \/ Stopped
  BY <1>1, <1>2
     DEF vars, Peers, PeerConnects, PeerSends, PeerFault, ServerUnchanged, SelectTimeout, Stopped
<1>3. ASSUME NEW c \in Peer, CreateAccount(c) \/ Authenticate(c) PROVE StatementOK'
  <2> DEFINE q == Head(inbox[c])
  <2>1. Unvisited # {} /\ UNCHANGED <<tables, loopVars>>
    BY <1>3 DEF CreateAccount, Authenticate, Receive, Visiting
  <2>2. CASE phase' = "scan"
    BY <2>2, NoStatement
  <2>3. CASE /\ request' = q /\ answer' = NoAnswer /\ next' = next
             /\ \/ /\ phase' = "insertUser" /\ q.password \notin ShortPassword
                   /\ ~CheckExisting(q.email)
                \/ phase' = "getAccount" /\ CheckExisting(q.email)
    <3> HIDE DEF q
    <3>1. Unvisited' = Unvisited /\ Emails' = Emails
      BY <2>1, <2>3 DEF Unvisited, Emails, tables, loopVars
    <3> QED BY <2>1, <2>3, <3>1 DEF StatementOK, CheckExisting
  <2> QED
    BY <1>3, <2>2, <2>3 DEF CreateAccount, Authenticate, Reply, Continue, Proceed
<1>4. CASE Server /\ ~Handling /\ ~\E c \in Peer : CreateAccount(c) \/ Authenticate(c)
  BY <1>4, NoStatement
     DEF Server, Select, NothingToAccept, AcceptFails, BackToSelect, Disconnect, Continue,
         ReceiveError, Accept
<1>5. CASE Kill \/ StatementThrows \/ Start
  BY <1>5, NoStatement DEF Kill, StatementThrows, Start, Die
<1> QED BY <1>2, <1>3, <1>4, <1>5, HandlingStatements DEF Next, Server

-----------------------------------------------------------------------------
(* The inductive invariant. *)
LEMMA AuthInvInit == Init => AuthInv
<1> SUFFICES ASSUME Init PROVE AuthInv
  OBVIOUS
<1>1. users = <<>> /\ DOMAIN users = {} /\ DOMAIN users = 1 .. 0
  BY DEF Init
<1>2. AuthTypeOK
  BY <1>1, AuthServerAssumption DEF Init, AuthTypeOK, Statements
<1>3. UserIds = {} /\ AccountsAreDistinct
  BY DEF Init, UserIds, AccountsAreDistinct
<1> QED
  BY <1>1, <1>2, <1>3
     DEF Init, AuthInv, IdsConsecutive, AccountsHaveUsers, OrphansUnseen, StatementOK, Statements

LEMMA AuthInvNext == ASSUME AuthInv, [Next]_vars PROVE AuthInv'
BY TypesNext, TablesNext, StatementsNext DEF AuthInv

(* It holds throughout. *)
LEMMA AuthInvHolds == Spec => []AuthInv
<1>1. AuthInv /\ [Next]_vars => AuthInv'
  BY AuthInvNext
<1> QED BY <1>1, AuthInvInit, PTL DEF Spec

(* AuthTypeOK, for any instance. *)
THEOREM AuthTypesCorrect == Spec => []AuthTypeOK
<1>1. AuthInv => AuthTypeOK
  BY DEF AuthInv
<1> QED BY <1>1, AuthInvHolds, PTL

(* AccountsHaveUsers: whenever and however often the process ends between  *)
(* two statements, no account is without its user, so that the creation    *)
(* date of whoever logs in is found.                                       *)
THEOREM AccountsAlwaysHaveUsers == Spec => []AccountsHaveUsers
<1>1. AuthInv => AccountsHaveUsers
  BY DEF AuthInv
<1> QED BY <1>1, AuthInvHolds, PTL

(* AccountsAreDistinct: lookup and insertion in separate statements, and   *)
(* an id that is looked up after the fact, still give one account to an    *)
(* email and a user of its own to an account.                              *)
THEOREM AccountsAlwaysDistinct == Spec => []AccountsAreDistinct
<1>1. AuthInv => AccountsAreDistinct
  BY DEF AuthInv
<1> QED BY <1>1, AuthInvHolds, PTL

-----------------------------------------------------------------------------
(* AuthServer implements AccountStore. *)

(* The entry of a row. *)
RowEntry(row) == [password |-> row.password, userId |-> row.userId, seen |-> users[row.userId]]

(* What the map holds is what the rows hold. *)
MapIsRows ==
    /\ DOMAIN StoreView = Emails
    /\ \A k \in DOMAIN accounts : StoreView[accounts[k].email] = RowEntry(accounts[k])

(* It does as long as no two rows share an email. *)
LEMMA TheMap == AuthTypeOK /\ AccountsAreDistinct => MapIsRows
<1> SUFFICES ASSUME AuthTypeOK, AccountsAreDistinct PROVE MapIsRows
  OBVIOUS
<1>1. DOMAIN StoreView = Emails
  BY DEF StoreView
<1>2. ASSUME NEW k \in DOMAIN accounts
      PROVE  StoreView[accounts[k].email] = RowEntry(accounts[k])
  <2>1. Row[accounts[k].email] = accounts[k]
    BY TheRow
  <2>2. accounts[k].email \in Emails
    BY DEF Emails
  <2> QED BY <2>1, <2>2 DEF StoreView, RowEntry
<1> QED BY <1>1, <1>2 DEF MapIsRows

(* Two maps with the same domain and entries are one. *)
LEMMA SameMap ==
  ASSUME NEW f, NEW g, f = [e \in DOMAIN f |-> f[e]], g = [e \in DOMAIN g |-> g[e]],
         DOMAIN f = DOMAIN g, \A e \in DOMAIN f : f[e] = g[e]
  PROVE  f = g
OBVIOUS

(* The map is a function of the tables. *)
LEMMA SameTables == UNCHANGED tables => UNCHANGED StoreView
BY DEF tables, StoreView, Emails, Row

(* A row in the table answers for its request. *)
LEMMA RequestMatches ==
  ASSUME AuthTypeOK, AccountsAreDistinct, RequestHasAccount
  PROVE  /\ request.email \in DOMAIN StoreView
         /\ StoreView[request.email] = [password |-> request.password, userId |-> userID,
                                        seen |-> users[userID]]
<1>1. PICK k \in DOMAIN accounts :
        accounts[k] = [email |-> request.email, password |-> request.password,
                       userId |-> userID]
  BY DEF RequestHasAccount
<1>2. /\ accounts[k].email = request.email /\ accounts[k].password = request.password
      /\ accounts[k].userId = userID
  BY <1>1
<1>3. request.email \in Emails
  BY <1>2 DEF Emails
<1>4. StoreView[request.email] = RowEntry(accounts[k])
  BY <1>2, TheMap DEF MapIsRows
<1> QED BY <1>2, <1>3, <1>4, TheMap DEF RowEntry, MapIsRows

(* The step of the map that a step of the tables is. *)
LEMMA TablesAreStore ==
  ASSUME AuthInv, AuthInv'
  PROVE  /\ InsertUser => UNCHANGED <<StoreView, answer>>
         /\ InsertAccount /\ request.email \notin TooLong =>
              \E email \in DOMAIN StoreView' \ DOMAIN StoreView :
                 Store!Register(email, StoreView'[email].password, StoreView'[email].userId)
         /\ UpdateUser => \E email \in DOMAIN StoreView : Store!Mark(email)
         /\ UNCHANGED tables => UNCHANGED StoreView
<1>0. /\ AuthTypeOK /\ AccountsAreDistinct /\ AccountsHaveUsers
      /\ AuthTypeOK' /\ AccountsAreDistinct'
  BY DEF AuthInv
<1>m. MapIsRows /\ MapIsRows'
  BY <1>0, TheMap, PTL
<1>f. /\ StoreView = [e \in DOMAIN StoreView |-> StoreView[e]]
      /\ StoreView' = [e \in DOMAIN StoreView' |-> StoreView'[e]]
  BY DEF StoreView
<1>1. UNCHANGED tables => UNCHANGED StoreView
  BY SameTables
<1>2. ASSUME InsertUser PROVE UNCHANGED <<StoreView, answer>>
  <2>1. /\ accounts' = accounts /\ answer' = answer
        /\ users' = [u \in DOMAIN users \cup {NextId} |-> IF u = NextId THEN FALSE ELSE users[u]]
    BY <1>2 DEF InsertUser
  <2>2. NextId \notin DOMAIN users
    BY Ids DEF AuthInv
  <2>3. \A k \in DOMAIN accounts : RowEntry(accounts[k])' = RowEntry(accounts[k])
    BY <1>0, <2>1, <2>2 DEF AccountsHaveUsers, UserIds, RowEntry
  <2>4. Emails' = Emails
    BY <2>1 DEF Emails
  <2>5. \A e \in Emails : StoreView'[e] = StoreView[e]
    BY <1>m, <2>1, <2>3 DEF MapIsRows, Emails
  <2>6. DOMAIN StoreView' = DOMAIN StoreView
    BY <1>m, <2>4 DEF MapIsRows
  <2>7. StoreView' = StoreView
    BY <1>f, <1>m, <2>5, <2>6, SameMap DEF MapIsRows
  <2> QED BY <2>1, <2>7
<1>3. ASSUME InsertAccount, request.email \notin TooLong
      PROVE  \E email \in DOMAIN StoreView' \ DOMAIN StoreView :
                Store!Register(email, StoreView'[email].password, StoreView'[email].userId)
  <2> DEFINE row == [email |-> request.email, password |-> request.password,
                     userId |-> userID]
             old == StoreView
             entry == [password |-> request.password, userId |-> userID, seen |-> FALSE]
             new == [e \in DOMAIN old \cup {request.email} |->
                        IF e = request.email THEN entry ELSE old[e]]
  <2>1. /\ accounts' = Append(accounts, row) /\ users' = users /\ answer' = answer
        /\ request.email \notin Emails /\ request.password \notin ShortPassword
        /\ userID \notin UserIds
    BY <1>3 DEF InsertAccount, AuthInv, StatementOK
  <2>2. row.email = request.email /\ row.password = request.password /\ row.userId = userID
    OBVIOUS
  <2>3. entry.password = request.password /\ entry.userId = userID
    OBVIOUS
  <2>4. users[userID] = FALSE
    BY <1>3 DEF InsertAccount, AuthInv, StatementOK, OrphansUnseen
  <2> HIDE DEF row, entry
  <2>5. /\ Emails' = Emails \cup {request.email}
        /\ DOMAIN accounts' = DOMAIN accounts \cup {Len(accounts) + 1}
        /\ \A k \in DOMAIN accounts : accounts'[k] = accounts[k]
        /\ accounts'[Len(accounts) + 1] = row
    BY <1>0, <2>1, <2>2, ColumnsGrow
  <2>6. DOMAIN old = Emails /\ \A k \in DOMAIN accounts : old[accounts[k].email] = RowEntry(accounts[k])
    BY <1>m DEF MapIsRows
  <2>7. \A k \in DOMAIN accounts : accounts[k].email \in Emails
    BY DEF Emails
  <2>9. \A k \in DOMAIN accounts : RowEntry(accounts[k])' = RowEntry(accounts[k])
    BY <2>1 DEF RowEntry
  <2>10. new[request.email] = entry /\ \A e \in Emails : new[e] = old[e]
    BY <2>1, <2>6
  <2>11. new = [e \in DOMAIN new |-> new[e]] /\ DOMAIN new = Emails'
    BY <2>5, <2>6
  <2> HIDE DEF new, old
  <2>12. \A e \in Emails' : StoreView'[e] = new[e]
    <3>1. ASSUME NEW k \in DOMAIN accounts
          PROVE  StoreView'[accounts[k].email] = new[accounts[k].email]
      <4>1. accounts'[k] = accounts[k] /\ accounts[k].email \in Emails
        BY <2>5, <2>7
      <4>2. old[accounts[k].email] = RowEntry(accounts[k])
        BY <2>6
      <4>3. StoreView'[accounts'[k].email] = RowEntry(accounts[k])'
        BY <1>m, <2>5 DEF MapIsRows
      <4> QED BY <4>1, <4>2, <4>3, <2>9, <2>10
    <3>2. StoreView'[request.email] = entry
      <4>1. StoreView'[accounts'[Len(accounts) + 1].email]
              = [password |-> row.password, userId |-> row.userId, seen |-> users'[row.userId]]
        BY <1>m, <2>5 DEF MapIsRows, RowEntry
      <4> QED BY <4>1, <2>1, <2>2, <2>4, <2>5 DEF entry
    <3> QED BY <3>1, <3>2, <2>5, <2>10 DEF Emails
  <2>13. StoreView' = new
    BY <1>f, <1>m, <2>11, <2>12, SameMap DEF MapIsRows
  <2>14. \A e \in DOMAIN old : old[e].userId # userID
    <3>1. ASSUME NEW k \in DOMAIN accounts
          PROVE  old[accounts[k].email].userId # userID
      <4>1. accounts[k].userId # userID
        BY <2>1 DEF UserIds
      <4>2. RowEntry(accounts[k]).userId = accounts[k].userId
        BY DEF RowEntry
      <4> QED BY <2>6, <4>1, <4>2
    <3> QED BY <2>6, <3>1 DEF Emails
  <2>15. request.email \in DOMAIN StoreView' \ DOMAIN StoreView
    BY <1>m, <2>1, <2>5 DEF MapIsRows
  <2>16. Store!Register(request.email, StoreView'[request.email].password,
                                       StoreView'[request.email].userId)
    <3>1. StoreView'[request.email] = entry
      BY <2>10, <2>13
    <3>2. StoreView' = [e \in DOMAIN StoreView \cup {request.email} |->
                           IF e = request.email
                           THEN [password |-> request.password, userId |-> userID, seen |-> FALSE]
                           ELSE StoreView[e]]
      BY <2>13 DEF new, old, entry
    <3>3. request.email \notin DOMAIN StoreView
      BY <2>15
    <3> QED BY <2>1, <2>3, <2>14, <3>1, <3>2, <3>3 DEF Store!Register, Store!Entry, old
  <2> QED BY <2>15, <2>16
<1>4. ASSUME UpdateUser PROVE \E email \in DOMAIN StoreView : Store!Mark(email)
  <2>1. /\ accounts' = accounts /\ answer' = answer
        /\ users' = [u \in DOMAIN users |-> u = userID \/ users[u]]
        /\ RequestHasAccount
    BY <1>4 DEF UpdateUser, AuthInv, StatementOK
  <2>2. /\ request.email \in DOMAIN StoreView
        /\ StoreView[request.email].userId = userID
    BY <1>0, <2>1, RequestMatches
  <2> DEFINE marked == [StoreView EXCEPT ![request.email] = Store!Entry(@.password, @.userId, TRUE)]
  <2>3. ASSUME NEW k \in DOMAIN accounts
        PROVE  StoreView'[accounts[k].email] = marked[accounts[k].email]
    <3>1. StoreView'[accounts[k].email] = RowEntry(accounts[k])'
      BY <1>m, <2>1 DEF MapIsRows
    <3>2. StoreView[accounts[k].email] = RowEntry(accounts[k])
      BY <1>m DEF MapIsRows
    <3>3. accounts[k].email \in DOMAIN StoreView
      BY <1>m DEF MapIsRows, Emails
    <3>4. accounts[k].userId \in DOMAIN users
      BY <1>0 DEF AccountsHaveUsers, UserIds
    <3>5. CASE accounts[k].email = request.email
      <4>1. accounts[k].userId = userID
        BY <2>2, <3>2, <3>5 DEF RowEntry
      <4>2. users'[userID] = TRUE
        BY <2>1, <3>4, <4>1
      <4>3. StoreView[request.email].password = accounts[k].password
        BY <3>2, <3>5 DEF RowEntry
      <4> QED BY <2>1, <2>2, <3>1, <3>5, <4>1, <4>2, <4>3 DEF RowEntry, Store!Entry
    <3>6. CASE accounts[k].email # request.email
      <4>1. accounts[k].userId # userID
        BY <1>0, <2>1, <3>6 DEF RequestHasAccount, AccountsAreDistinct
      <4>2. users'[accounts[k].userId] = users[accounts[k].userId]
        BY <1>0, <2>1, <3>4, <4>1 DEF AuthTypeOK
      <4> QED BY <2>1, <3>1, <3>2, <3>3, <3>6, <4>2 DEF RowEntry
    <3> QED BY <3>5, <3>6
  <2>4. DOMAIN StoreView' = DOMAIN marked /\ DOMAIN StoreView = Emails
    BY <1>m, <2>1 DEF MapIsRows, Emails
  <2>5. marked = [e \in DOMAIN marked |-> marked[e]]
    OBVIOUS
  <2> HIDE DEF marked
  <2>6. \A e \in DOMAIN StoreView' : StoreView'[e] = marked[e]
    BY <1>m, <2>1, <2>3 DEF MapIsRows, Emails
  <2>7. StoreView' = marked
    BY <1>f, <2>4, <2>5, <2>6, SameMap
  <2> QED BY <2>1, <2>2, <2>7 DEF marked, Store!Mark
<1> QED BY <1>1, <1>2, <1>3, <1>4

(* A reply is a thing to say, if it is true of the map. *)
LEMMA RepliesAreSaid ==
  ASSUME AuthInv, NEW q \in Request, NEW id \in Nat, Unvisited # {}, UNCHANGED tables,
         NEW what \in {"registered", "exists", "weakPassword", "loggedIn", "denied"},
         Reply(q, what, id),
         \/ what = "exists" /\ q.email \in Emails
         \/ what = "weakPassword" /\ q.email \notin Emails /\ q.password \in ShortPassword
         \/ what = "denied" /\ (q.email \in Emails => StoreView[q.email].password # q.password)
         \/ /\ what \in {"registered", "loggedIn"}
            /\ q = request /\ id = userID /\ RequestHasAccount
            /\ what = "loggedIn" => users[userID]
  PROVE  Store!Say
<1>0. /\ AuthTypeOK /\ AccountsAreDistinct
      /\ StoreView' = StoreView
      /\ DOMAIN StoreView = Emails
  BY TheMap, SameTables DEF AuthInv, MapIsRows
<1>1. /\ answer' = [to |-> activeConnections[Index], request |-> q,
                    what |-> what, userId |-> id]
      /\ answer' \in Answer
  BY <1>0, ReplyTypes
<1>2. answer'.request = q /\ answer'.what = what /\ answer'.userId = id
  BY <1>1
<1>3. answer' # NoAnswer
  BY <1>1, AuthServerAssumption
<1>4. Store!Truthful(answer')
  <2>1. CASE what = "exists" /\ q.email \in Emails
    BY <1>0, <1>2, <2>1 DEF Store!Truthful
  <2>2. CASE what = "weakPassword" /\ q.email \notin Emails /\ q.password \in ShortPassword
    BY <1>0, <1>2, <2>2 DEF Store!Truthful
  <2>3. CASE what = "denied" /\ (q.email \in Emails => StoreView[q.email].password # q.password)
    BY <1>0, <1>2, <2>3 DEF Store!Truthful, Store!Matches
  <2>4. CASE /\ what \in {"registered", "loggedIn"}
             /\ q = request /\ id = userID /\ RequestHasAccount
             /\ what = "loggedIn" => users[userID]
    <3>1. /\ q.email \in DOMAIN StoreView /\ StoreView[q.email].password = q.password
          /\ StoreView[q.email].userId = id
          /\ StoreView[q.email].seen = users[userID]
      BY <1>0, <2>4, RequestMatches
    <3>2. Store!Matches(q)
      BY <3>1 DEF Store!Matches
    <3>3. CASE what = "registered"
      BY <1>2, <3>1, <3>2, <3>3 DEF Store!Truthful
    <3>4. CASE what = "loggedIn"
      <4>1. StoreView[q.email].seen
        BY <2>4, <3>1, <3>4
      <4> QED BY <1>2, <3>1, <3>2, <3>4, <4>1 DEF Store!Truthful
    <3> QED BY <2>4, <3>3, <3>4
  <2> QED BY <2>1, <2>2, <2>3, <2>4
<1> QED BY <1>0, <1>3, <1>4 DEF Store!Say

(* What is said, and when nothing is. *)
LEMMA AnswerSteps ==
  ASSUME AuthInv, [Next]_vars, UNCHANGED tables
  PROVE  answer' = answer \/ answer' = NoAnswer \/ Store!Say
<1>0. /\ AuthTypeOK /\ AccountsAreDistinct /\ StatementOK
      /\ DOMAIN StoreView = Emails
  BY TheMap DEF AuthInv, MapIsRows
<1>1. ASSUME NEW c \in Peer, CreateAccount(c)
      PROVE  answer' = NoAnswer \/ Store!Say
  <2>1. Head(inbox[c]) \in Request /\ Unvisited # {}
    BY <1>0, <1>1, ReceiveTypes DEF CreateAccount
  <2> QED BY <1>1, <2>1, RepliesAreSaid DEF CreateAccount, CheckExisting
<1>2. ASSUME NEW c \in Peer, Authenticate(c)
      PROVE  answer' = NoAnswer \/ Store!Say
  <2>1. Head(inbox[c]) \in Request /\ Unvisited # {}
    BY <1>0, <1>2, ReceiveTypes DEF Authenticate
  <2> QED BY <1>2, <2>1, RepliesAreSaid DEF Authenticate, CheckExisting
<1>3. CASE Handling
  <2>1. request \in Request /\ Unvisited # {} /\ userID \in Nat
    BY <1>0, <1>3
       DEF Handling, InsertUser, SelectId, InsertAccount, ReplyRegistered, GetAccount,
           UpdateUser, GetCreationDate, Statements, StatementOK, AuthTypeOK
  <2>2. CASE ReplyRegistered
    <3>1. RequestHasAccount /\ Reply(request, "registered", userID)
      BY <1>0, <2>2 DEF ReplyRegistered, StatementOK
    <3> QED BY <2>1, <3>1, RepliesAreSaid
  <2>3. CASE GetCreationDate
    <3>1. CASE userID \notin DOMAIN users
      BY <2>3, <3>1 DEF GetCreationDate, Die
    <3>2. CASE userID \in DOMAIN users
      <4>1. RequestHasAccount /\ Reply(request, "loggedIn", userID) /\ users[userID]
        BY <1>0, <2>3, <3>2 DEF GetCreationDate, StatementOK
      <4> QED BY <2>1, <4>1, RepliesAreSaid
    <3> QED BY <3>1, <3>2
  <2>4. CASE GetAccount
    <3>1. request.email \in Emails
      BY <1>0, <2>4 DEF GetAccount, StatementOK
    <3>2. StoreView[request.email].password = Row[request.email].password
      BY <3>1 DEF StoreView
    <3> QED BY <2>1, <2>4, <3>2, RepliesAreSaid DEF GetAccount
  <2>5. CASE InsertUser \/ SelectId \/ InsertAccount \/ UpdateUser
    BY <2>5 DEF InsertUser, SelectId, InsertAccount, UpdateUser, Die
  <2> QED BY <1>3, <2>2, <2>3, <2>4, <2>5 DEF Handling
<1>4. CASE \/ Select \/ NothingToAccept \/ AcceptFails
           \/ \E c \in Peer : Disconnect(c) \/ ReceiveError(c) \/ Accept(c)
  BY <1>4 DEF Select, NothingToAccept, AcceptFails, BackToSelect, Disconnect, ReceiveError, Accept
<1>5. CASE Kill \/ StatementThrows \/ Start \/ SelectTimeout \/ Stopped \/ UNCHANGED vars
  BY <1>5 DEF Kill, StatementThrows, Start, Die, SelectTimeout, Stopped, vars
<1>6. CASE Peers
  BY <1>6 DEF Peers, PeerConnects, PeerSends, PeerFault, ServerUnchanged
<1> QED BY <1>1, <1>2, <1>3, <1>4, <1>5, <1>6 DEF Next, Server

(* ImplementsStore: to its callers the server is AccountStore.  Register   *)
(* is the second INSERT of a registration, Mark the UPDATE of a log in;    *)
(* what else is done to the tables, the end of the process and all of the  *)
(* loop are steps the map does not see, and every reply is true when sent. *)
THEOREM ServerIsStore == Spec => ImplementsStore
<1>1. Init => Store!StoreInit
  <2> SUFFICES ASSUME Init PROVE Store!StoreInit
    OBVIOUS
  <2>1. Emails = {}
    BY DEF Init, Emails
  <2> QED BY <2>1 DEF Init, Store!StoreInit, StoreView
<1>2. ASSUME AuthInv, AuthInv', [Next]_vars
      PROVE  [Store!StoreNext]_<<StoreView, answer>>
  <2>1. CASE UNCHANGED tables
    <3>1. StoreView' = StoreView
      BY <1>2, <2>1, TablesAreStore
    <3>2. answer' = answer \/ answer' = NoAnswer \/ Store!Say
      BY <1>2, <2>1, AnswerSteps
    <3> QED BY <3>1, <3>2 DEF Store!StoreNext, Store!Hush
  <2>2. CASE InsertUser \/ (InsertAccount /\ request.email \notin TooLong) \/ UpdateUser
    BY <1>2, <2>2, TablesAreStore DEF Store!StoreNext
  <2> QED BY <1>2, <2>1, <2>2, TableSteps
<1>3. Spec => []AuthInv
  BY AuthInvHolds
<1> QED BY <1>1, <1>2, <1>3, PTL DEF Spec, ImplementsStore, Store!StoreSpec

-----------------------------------------------------------------------------
(* What the scan relies on and what the end of the process costs: recv()   *)
(* and accept() are called only when they return at once, although the     *)
(* ready set is never cleared, and each user without an account is the     *)
(* trace of an end between two statements.                                 *)

(* The vector holds open handles, each once. *)
VectorOK == IsInjective(activeConnections) /\ ToSet(activeConnections) \subseteq handles

(* The positions whose recv() has still to be called: while a request is   *)
(* being handled, the index stands on the one already received from.       *)
Pending == IF phase \in Statements THEN Unvisited \ {Index} ELSE Unvisited

(* What the scan relies on.  Visited sockets stay in the ready set, and    *)
(* may have become unreadable; they lie behind the index.                  *)
PendingReadable ==
    phase \in {"scan"} \cup Statements =>
        /\ \A k \in Pending : Readable(activeConnections[k])
        /\ Listen \in ready => backlog > 0

ScanInv == VectorOK /\ PendingReadable

-----------------------------------------------------------------------------
(* A process that ends leaves no connection. *)
LEMMA EmptyIsInjective == IsInjective(<<>>) /\ ToSet(<<>>) = {}
BY DEF IsInjective, ToSet

(* What is behind the index, and what is left when it moves on. *)
LEMMA LeftPending ==
  ASSUME AuthTypeOK, Unvisited # {}, Continue, ready' = ready,
         activeConnections' = activeConnections
  PROVE  Pending' \subseteq Unvisited \ {Index}
<1>1. Index \in Unvisited /\ Index \in Nat
  BY VisitedIsPeer
<1>2. next' = Index + 1 /\ phase' = "scan"
  BY DEF Continue
<1>3. Pending' = Unvisited'
  BY <1>2 DEF Pending, Statements
<1>4. next \in Nat /\ next <= Index /\ Len(activeConnections) \in Nat
  BY <1>1 DEF Unvisited, AuthTypeOK
<1>5. Unvisited' = {k \in Index + 1 .. Len(activeConnections) : activeConnections[k] \in ready}
  BY <1>2 DEF Unvisited
<1>6. \A k \in Unvisited' : k \in next .. Len(activeConnections) /\ k # Index
  BY <1>1, <1>4, <1>5
<1> QED BY <1>3, <1>5, <1>6 DEF Unvisited

(* Receiving from one socket takes nothing from another. *)
LEMMA ReceiveElsewhere ==
  ASSUME AuthTypeOK, VectorOK, NEW c \in Peer, Receive(c)
  PROVE  \A k \in Unvisited \ {Index} :
            /\ Readable(activeConnections[k]) => Readable(activeConnections[k])'
            /\ activeConnections[k] \in Peer
<1>1. /\ Index \in DOMAIN activeConnections /\ c = activeConnections[Index]
      /\ activeConnections \in Seq(Peer)
  BY VisitedIsPeer DEF Receive, Visiting, AuthTypeOK
<1>2. /\ inbox' = [inbox EXCEPT ![c] = inbox'[c]] /\ wire' = wire
      /\ activeConnections' = activeConnections
  BY DEF Receive, netVars, loopVars, AuthTypeOK
<1>3. \A k \in Unvisited \ {Index} : k \in DOMAIN activeConnections
  BY <1>1 DEF Unvisited, AuthTypeOK
<1>4. \A k \in Unvisited \ {Index} : activeConnections[k] \in Peer \ {c}
  BY <1>1, <1>3 DEF VectorOK, IsInjective
<1>5. \A d \in Peer \ {c} : inbox'[d] = inbox[d]
  BY <1>2 DEF AuthTypeOK
<1> QED BY <1>2, <1>4, <1>5 DEF Readable, Broken

(* The steps of a visit to a socket that has a packet. *)
LEMMA RequestPending ==
  ASSUME AuthTypeOK, ScanInv, NEW c \in Peer, CreateAccount(c) \/ Authenticate(c)
  PROVE  ScanInv'
<1>1. /\ Receive(c) /\ phase = "scan" /\ Unvisited # {}
      /\ UNCHANGED <<activeConnections, handles, ready, backlog>>
  BY DEF CreateAccount, Authenticate, Receive, Visiting, loopVars, netVars
<1>2. Pending = Unvisited /\ VectorOK'
  BY <1>1 DEF Pending, Statements, ScanInv, VectorOK
<1>3. Pending' \subseteq Unvisited \ {Index}
  <2>1. CASE Continue
    BY <1>1, <2>1, LeftPending
  <2>2. CASE next' = next /\ phase' \in Statements
    <3>1. Unvisited' = Unvisited
      BY <1>1, <2>2 DEF Unvisited
    <3>2. Index' = Index
      BY <3>1 DEF Index
    <3> QED BY <2>2, <3>1, <3>2 DEF Pending
  <2> QED
    BY <2>1, <2>2 DEF CreateAccount, Authenticate, Reply, Proceed, Statements
<1>4. \A k \in Unvisited \ {Index} : Readable(activeConnections[k])'
  BY <1>1, <1>2, ReceiveElsewhere DEF ScanInv, PendingReadable
<1>5. Listen \in ready' => backlog' > 0
  BY <1>1 DEF ScanInv, PendingReadable
<1> QED BY <1>2, <1>3, <1>4, <1>5 DEF ScanInv, PendingReadable

(* The statements read no socket. *)
LEMMA HandlingPending ==
  ASSUME AuthInv, ScanInv, Handling
  PROVE  ScanInv'
<1>1. /\ phase \in Statements /\ AuthTypeOK /\ Unvisited # {}
      /\ Pending = Unvisited \ {Index}
  <2>1. phase \in Statements
    BY DEF Handling, InsertUser, SelectId, InsertAccount, ReplyRegistered, GetAccount,
           UpdateUser, GetCreationDate, Statements
  <2> QED BY <2>1 DEF AuthInv, StatementOK, Pending
<1>2. CASE Die
  BY <1>2, EmptyIsInjective DEF Die, ScanInv, VectorOK, PendingReadable, Statements
<1>3. CASE ~Die
  <2>1. UNCHANGED <<activeConnections, handles, ready, wire, backlog, inbox>>
    BY <1>3 DEF Handling, InsertUser, SelectId, InsertAccount, ReplyRegistered, GetAccount,
                UpdateUser, GetCreationDate, loopVars, netVars
  <2>2. Pending' \subseteq Pending
    <3>1. CASE Continue
      BY <1>1, <2>1, <3>1, LeftPending
    <3>2. CASE next' = next /\ phase' \in Statements
      <4>1. Unvisited' = Unvisited
        BY <2>1, <3>2 DEF Unvisited
      <4>2. Index' = Index
        BY <4>1 DEF Index
      <4> QED BY <1>1, <3>2, <4>1, <4>2 DEF Pending
    <3> QED
      BY <1>3, <3>1, <3>2
         DEF Handling, InsertUser, SelectId, InsertAccount, ReplyRegistered, GetAccount,
             UpdateUser, GetCreationDate, Reply, Proceed, Statements
  <2> QED
    BY <1>1, <2>1, <2>2 DEF ScanInv, VectorOK, PendingReadable, Readable, Broken
<1> QED BY <1>2, <1>3

(* Erasing the visited socket moves those behind it one place forward, and *)
(* the index passes over the first of them.                                *)
LEMMA DisconnectPending ==
  ASSUME AuthTypeOK, ScanInv, NEW c \in Peer, Disconnect(c)
  PROVE  ScanInv'
<1>1. /\ phase = "scan" /\ Unvisited # {} /\ phase' = "scan" /\ next' = Index + 1
      /\ activeConnections' = RemoveAt(activeConnections, Index)
      /\ UNCHANGED <<handles, ready, wire, backlog, inbox>>
  BY DEF Disconnect, Visiting, Continue, netVars
<1>2. /\ Index \in Unvisited /\ Index \in DOMAIN activeConnections /\ Index \in Nat
      /\ activeConnections \in Seq(Peer) /\ next \in Nat /\ next <= Index
  BY <1>1, VisitedIsPeer DEF AuthTypeOK, Unvisited
<1>3. /\ Len(activeConnections') = Len(activeConnections) - 1
      /\ \A i \in 1 .. (Len(activeConnections) - 1) :
           activeConnections'[i] =
             IF i < Index THEN activeConnections[i] ELSE activeConnections[i + 1]
  BY <1>1, <1>2, RemoveAtElements
<1>4. VectorOK'
  BY <1>1, <1>2, RemoveAtInjective DEF ScanInv, VectorOK
<1>5. ASSUME NEW k \in Unvisited'
      PROVE  k + 1 \in Unvisited /\ activeConnections'[k] = activeConnections[k + 1]
  <2>1. k \in Index + 1 .. Len(activeConnections) - 1 /\ activeConnections'[k] \in ready
    BY <1>1, <1>3 DEF Unvisited
  <2>2. k \in 1 .. (Len(activeConnections) - 1) /\ ~(k < Index)
    BY <1>2, <2>1
  <2>3. activeConnections'[k] = activeConnections[k + 1]
    BY <1>3, <2>2
  <2>4. k + 1 \in next .. Len(activeConnections)
    BY <1>2, <2>1
  <2> QED BY <2>1, <2>3, <2>4 DEF Unvisited
<1>6. Pending = Unvisited /\ Pending' = Unvisited'
  BY <1>1 DEF Pending, Statements
<1> QED
  BY <1>1, <1>4, <1>5, <1>6 DEF ScanInv, PendingReadable, Readable, Broken, Statements

(* What the chat servers do makes no readable connection unreadable. *)
LEMMA PeersPending ==
  ASSUME AuthTypeOK, ScanInv, Peers
  PROVE  ScanInv'
<1>1. UNCHANGED <<activeConnections, handles, ready, phase, next>>
  BY DEF Peers, PeerConnects, PeerSends, PeerFault, ServerUnchanged, loopVars
<1>2. Pending' = Pending /\ VectorOK'
  BY <1>1 DEF Pending, Unvisited, Index, ScanInv, VectorOK
<1>3. backlog <= backlog'
  BY DEF Peers, PeerConnects, PeerSends, PeerFault, netVars, AuthTypeOK
<1>4. \A c \in Peer : Readable(c) => Readable(c)'
  <2>1. CASE PeerConnects
    BY <2>1 DEF PeerConnects, Readable, Broken
  <2>2. ASSUME NEW d \in Peer, PeerSends(d) PROVE \A c \in Peer : Readable(c) => Readable(c)'
    <3>1. wire' = wire
      BY <2>2 DEF PeerSends, netVars
    <3>2. PICK q \in Request : inbox' = [inbox EXCEPT ![d] = Append(@, q)]
      BY <2>2 DEF PeerSends
    <3>3. inbox'[d] # <<>> /\ \A c \in Peer \ {d} : inbox'[c] = inbox[c]
      <4>1. inbox[d] \in Seq(Request) /\ inbox'[d] = Append(inbox[d], q)
        BY <3>2 DEF AuthTypeOK
      <4>2. Len(inbox'[d]) = Len(inbox[d]) + 1 /\ Len(inbox[d]) \in Nat
        BY <4>1, AppendProperties
      <4>3. inbox'[d] # <<>>
        BY <4>2
      <4> QED BY <3>2, <4>3 DEF AuthTypeOK
    <3> QED BY <3>1, <3>3 DEF Readable, Broken
  <2>3. ASSUME NEW d \in Peer, PeerFault(d) PROVE \A c \in Peer : Readable(c) => Readable(c)'
    <3>1. /\ wire'[d] \in {"closed", "reset", "aborted"}
          /\ \A c \in Peer \ {d} : wire'[c] = wire[c] /\ inbox'[c] = inbox[c]
      BY <2>3 DEF PeerFault, AuthTypeOK
    <3> QED BY <3>1 DEF Readable, Broken
  <2> QED BY <2>1, <2>2, <2>3 DEF Peers
<1>5. ASSUME phase \in {"scan"} \cup Statements, NEW k \in Pending
      PROVE  activeConnections[k] \in Peer
  BY <1>5 DEF Pending, Unvisited, AuthTypeOK
<1>6. backlog \in Nat /\ backlog' \in Nat
  BY PeersTypes DEF AuthTypeOK
<1> QED BY <1>1, <1>2, <1>3, <1>4, <1>5, <1>6 DEF ScanInv, PendingReadable

(* Every step keeps what the scan relies on. *)
LEMMA ScanNext ==
  ASSUME AuthInv, ScanInv, [Next]_vars
  PROVE  ScanInv'
<1>0. AuthTypeOK
  BY DEF AuthInv
<1>1. CASE UNCHANGED vars
  BY <1>1 DEF vars, loopVars, netVars, ScanInv, VectorOK, PendingReadable, Pending, Unvisited,
              Index, Readable, Broken
<1>2. CASE Select
  <2>1. /\ ready' = ReadyNow /\ next' = 1 /\ phase' = "scan"
        /\ UNCHANGED <<activeConnections, handles, wire, inbox, backlog>>
    BY <1>2 DEF Select, netVars
  <2>2. Pending' \subseteq {k \in DOMAIN activeConnections : activeConnections[k] \in ReadyNow}
    BY <1>0, <2>1 DEF Pending, Unvisited, Statements, AuthTypeOK
  <2>3. \A k \in DOMAIN activeConnections : activeConnections[k] \in Peer
    BY <1>0 DEF AuthTypeOK
  <2>4. \A c \in ReadyNow : c \in Peer => Readable(c)
    BY AuthServerAssumption DEF ReadyNow
  <2>5. Listen \in ReadyNow => backlog > 0
    BY <1>0, AuthServerAssumption DEF ReadyNow, AuthTypeOK, ToSet
  <2> QED
    BY <2>1, <2>2, <2>3, <2>4, <2>5 DEF ScanInv, VectorOK, PendingReadable, Readable, Broken
<1>3. CASE NothingToAccept \/ AcceptFails
  BY <1>3 DEF NothingToAccept, AcceptFails, BackToSelect, ScanInv, VectorOK, PendingReadable,
              Statements
<1>4. ASSUME NEW c \in Peer, Accept(c) PROVE ScanInv'
  <2>1. /\ activeConnections' = Append(activeConnections, c) /\ handles' = handles \cup {c}
        /\ c \notin handles /\ phase' = "select"
    BY <1>4 DEF Accept, BackToSelect
  <2>2. activeConnections \in Seq(Peer) /\ c \notin ToSet(activeConnections)
    BY <1>0, <2>1 DEF AuthTypeOK, ScanInv, VectorOK
  <2>3. /\ IsInjective(activeConnections')
        /\ ToSet(activeConnections') = ToSet(activeConnections) \cup {c}
    BY <2>1, <2>2, PushBackProperties DEF ScanInv, VectorOK
  <2> QED BY <2>1, <2>3 DEF ScanInv, VectorOK, PendingReadable, Statements
<1>5. ASSUME NEW c \in Peer, ReceiveError(c) PROVE ScanInv'
  BY <1>5 DEF ReceiveError, loopVars, ScanInv, VectorOK, PendingReadable, Statements
<1>6. CASE Kill \/ StatementThrows
  BY <1>6, EmptyIsInjective
     DEF Kill, StatementThrows, Die, ScanInv, VectorOK, PendingReadable, Statements
<1>7. CASE Start
  BY <1>7 DEF Start, loopVars, ScanInv, VectorOK, PendingReadable, Statements
<1> QED
  BY <1>0, <1>1, <1>2, <1>3, <1>4, <1>5, <1>6, <1>7,
     RequestPending, HandlingPending, DisconnectPending, PeersPending
     DEF Next, Server, SelectTimeout, Stopped

(* AuthNeverBlocks: every recv() and every accept() of the loop returns at *)
(* once, with no FD_CLR and no decrement of count anywhere in it.          *)
THEOREM AuthThreadNeverBlocks == Spec => []AuthNeverBlocks
<1>1. Init => ScanInv
  BY EmptyIsInjective DEF Init, ScanInv, VectorOK, PendingReadable, Statements
<1>2. AuthInv /\ ScanInv /\ [Next]_vars => ScanInv'
  BY ScanNext
<1>3. AuthInv /\ ScanInv => AuthNeverBlocks
  <2> SUFFICES ASSUME AuthInv, ScanInv PROVE AuthNeverBlocks
    OBVIOUS
  <2>1. ASSUME NEW c \in Peer, Visiting(c) PROVE Readable(c)
    BY <2>1, VisitedIsPeer DEF AuthInv, Visiting, ScanInv, PendingReadable, Pending, Statements
  <2>2. ASSUME WillAccept PROVE backlog > 0
    BY <2>2 DEF WillAccept, ScanOver, ScanInv, PendingReadable
  <2> QED BY <2>1, <2>2 DEF AuthNeverBlocks
<1> QED BY <1>1, <1>2, <1>3, AuthInvHolds, PTL DEF Spec

-----------------------------------------------------------------------------
(* Users without an account, and whether the request in hand owns one. *)
Orphans == DOMAIN users \ UserIds

InBetween == IF phase \in {"selectId", "insertAccount"} THEN 1 ELSE 0

(* The number of orphans can be spoken of. *)
LEMMA OrphansFinite ==
  ASSUME AuthInv
  PROVE  IsFiniteSet(Orphans) /\ Cardinality(Orphans) \in Nat
<1>1. PICK n \in Nat : DOMAIN users = 1 .. n
  BY DEF AuthInv, IdsConsecutive
<1>2. IsFiniteSet(1 .. n)
  BY FS_Interval
<1>3. IsFiniteSet(Orphans)
  BY <1>1, <1>2, FS_Subset DEF Orphans
<1> QED BY <1>3, FS_CardinalityType

(* Who ends the process, and who moves between the two INSERTs. *)
LEMMA BetweenSteps ==
  ASSUME AuthInv, [Next]_vars
  PROVE  \/ UNCHANGED tables /\ crashes' = crashes + 1
         \/ UNCHANGED <<tables, crashes>> /\ InBetween' = InBetween
         \/ UNCHANGED crashes /\ InsertUser
         \/ UNCHANGED crashes /\ InsertAccount /\ request.email \notin TooLong
         \/ UNCHANGED crashes /\ UpdateUser
<1> USE DEF InBetween
<1>1. CASE Die
  BY <1>1 DEF Die
<1>2. CASE UNCHANGED vars
  BY <1>2 DEF vars
<1>3. CASE Handling /\ ~Die
  BY <1>3 DEF Handling, InsertUser, SelectId, InsertAccount, ReplyRegistered, GetAccount,
              UpdateUser, GetCreationDate, Proceed, Reply, Continue
<1>4. CASE Server /\ ~Handling
  BY <1>4 DEF Server, Select, NothingToAccept, AcceptFails, BackToSelect, ScanOver, WillAccept,
              CreateAccount, Authenticate, Receive, Visiting, Disconnect, ReceiveError, Accept,
              Proceed, Reply, Continue
<1>5. CASE Peers
  BY <1>5 DEF Peers, PeerConnects, PeerSends, PeerFault, ServerUnchanged
<1>6. CASE SelectTimeout \/ Stopped \/ Start
  BY <1>2, <1>6 DEF SelectTimeout, Stopped, Start
<1> QED BY <1>1, <1>2, <1>3, <1>4, <1>5, <1>6 DEF Next, Kill, StatementThrows

(* OrphansAreCrashes: a user without an account costs an end of the        *)
(* process between the two INSERTs; at no other time does one come about.  *)
THEOREM OrphansAlwaysCrashes == Spec => []OrphansAreCrashes
<1>1. Init => OrphansAreCrashes
  <2> SUFFICES ASSUME Init PROVE OrphansAreCrashes
    OBVIOUS
  <2>1. DOMAIN users = {} /\ crashes = 0
    BY DEF Init
  <2> QED BY <2>1, FS_EmptySet DEF Init, OrphansAreCrashes
<1>2. ASSUME AuthInv, AuthInv', OrphansAreCrashes, [Next]_vars
      PROVE  OrphansAreCrashes'
  <2>1. /\ IsFiniteSet(Orphans) /\ Cardinality(Orphans) \in Nat
        /\ crashes \in Nat /\ crashes' \in Nat
        /\ Cardinality(Orphans) <= crashes + InBetween
    BY <1>2, OrphansFinite DEF AuthInv, AuthTypeOK, OrphansAreCrashes, Orphans, InBetween
  <2>2. SUFFICES Cardinality(Orphans') <= crashes' + InBetween'
    BY DEF OrphansAreCrashes, Orphans, InBetween
  <2>3. UNCHANGED tables => Orphans' = Orphans
    BY DEF tables, Orphans, UserIds
  <2>4. InBetween \in {0, 1} /\ InBetween' \in {0, 1}
    BY DEF InBetween
  <2>5. CASE UNCHANGED tables /\ crashes' = crashes + 1
    BY <2>1, <2>3, <2>4, <2>5
  <2>6. CASE UNCHANGED <<tables, crashes>> /\ InBetween' = InBetween
    BY <2>1, <2>3, <2>6
  <2>7. CASE UNCHANGED crashes /\ InsertUser
    <3>1. /\ DOMAIN users' = DOMAIN users \cup {NextId} /\ accounts' = accounts
          /\ InBetween = 0 /\ InBetween' = 1
      BY <2>7 DEF InsertUser, Proceed, InBetween
    <3>2. NextId \notin DOMAIN users /\ NextId \notin UserIds /\ UserIds' = UserIds
      BY <1>2, <3>1, Ids DEF AuthInv, AccountsHaveUsers, UserIds
    <3>3. Orphans' = Orphans \cup {NextId} /\ NextId \notin Orphans
      BY <3>1, <3>2 DEF Orphans
    <3>4. Cardinality(Orphans') = Cardinality(Orphans) + 1
      BY <2>1, <3>3, FS_AddElement
    <3> QED BY <2>1, <2>7, <3>1, <3>4
  <2>8. CASE UNCHANGED crashes /\ InsertAccount /\ request.email \notin TooLong
    <3> DEFINE row == [email |-> request.email, password |-> request.password,
                       userId |-> userID]
    <3>1. /\ accounts' = Append(accounts, row) /\ users' = users
          /\ InBetween = 1 /\ InBetween' = 0 /\ userID \in Orphans
      BY <1>2, <2>8 DEF InsertAccount, Proceed, InBetween, AuthInv, StatementOK, Orphans
    <3>2. row.userId = userID
      OBVIOUS
    <3> HIDE DEF row
    <3>3. UserIds' = UserIds \cup {userID}
      BY <1>2, <3>1, <3>2, ColumnsGrow DEF AuthInv
    <3>4. Orphans' = Orphans \ {userID}
      BY <3>1, <3>3 DEF Orphans
    <3>5. Cardinality(Orphans') = Cardinality(Orphans) - 1
      BY <2>1, <3>1, <3>4, FS_RemoveElement
    <3> QED BY <2>1, <2>8, <3>1, <3>5
  <2>9. CASE UNCHANGED crashes /\ UpdateUser
    <3>1. DOMAIN users' = DOMAIN users /\ accounts' = accounts /\ InBetween' = InBetween
      BY <2>9 DEF UpdateUser, Proceed, InBetween
    <3>2. Orphans' = Orphans
      BY <3>1 DEF Orphans, UserIds
    <3> QED BY <2>1, <2>9, <3>1, <3>2
  <2> QED BY <1>2, <2>5, <2>6, <2>7, <2>8, <2>9, BetweenSteps
<1> QED BY <1>1, <1>2, AuthInvHolds, PTL DEF Spec
=============================================================================
