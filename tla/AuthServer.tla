----------------------------- MODULE AuthServer -----------------------------
(***************************************************************************)
(* The auth server (AuthServer/main_auth_server.cpp): one thread with a    *)
(* select() loop over the chat servers' connections, and the two tables of *)
(* the database it keeps accounts in (sql_schemas/).                       *)
(*                                                                         *)
(* A statement to the database is an action, since the process may end     *)
(* between any two: it is stopped, or a statement throws sql::SQLException, *)
(* which nothing catches.  The tables outlive it and it may be started     *)
(* again.  What comes before a statement, from the recv() on, and the      *)
(* reply after the last one are part of the statement's action; only the   *)
(* reply that follows an INSERT is a step of its own.                      *)
(*                                                                         *)
(* Abstracted.  A hash equals another exactly when salt and password do.   *)
(* Emails are equal as the column's collation has it.  A user id stays     *)
(* below 2^31, where `int` holds it, and the chat servers stay below       *)
(* FD_SETSIZE.  Partial and oversized packets are not modelled; a recv()   *)
(* may take several packets, of which only the first is handled.  A chat   *)
(* server sends the two types of message this server knows (types 1, 2).   *)
(* Operators named <definition>_<fault> are mutants, as elsewhere.         *)
(***************************************************************************)
EXTENDS Integers, Sequences, FiniteSets, TLC, Functions, SequencesExt

CONSTANTS
    Peer,            \* handles of connections to chat servers
    Listen,          \* listenSocket
    Asker,           \* request ids: the chat server's handles of its clients
    Email,
    TooLong,         \* emails that web_auth's varchar(255) does not take
    Password,
    ShortPassword,   \* passwords of less than four characters
    NoRequest,
    NoAnswer,
    PeerFaults,      \* what may happen to a connection
    DatabaseFaults,  \* whether any statement may throw
    Kinds,           \* bound: what the chat servers of an instance ask for
    MaxCoalesce,     \* how many packets one recv() may take
    MaxPackets,      \* bound: unread packets of one connection
    MaxBacklog,      \* bound: connections waiting to be accepted
    MaxCrashes       \* bound: how often the process ends and is started again

Request == [kind : {"register", "login"}, email : Email, password : Password, id : Asker]

Answer == [to : Peer, request : Request, userId : Nat,
           what : {"registered", "exists", "weakPassword", "loggedIn", "denied"}]

ASSUME AuthServerAssumption ==
    /\ Listen \notin Peer
    /\ TooLong \subseteq Email
    /\ ShortPassword \subseteq Password
    /\ NoRequest \notin Request
    /\ NoAnswer \notin Answer
    /\ PeerFaults \subseteq {"close", "reset", "abort"}
    /\ DatabaseFaults \in BOOLEAN
    /\ Kinds \subseteq {"register", "login"}
    /\ MaxCoalesce \in Nat \ {0}
    /\ MaxPackets \in Nat
    /\ MaxBacklog \in Nat
    /\ MaxCrashes \in Nat

VARIABLES
    users,              \* table user: id -> whether last_login was ever updated
    accounts,           \* table web_auth: rows in the order of their key
    activeConnections,  \* vector of connections, in the order of the scan
    handles,            \* handles the process holds open
    phase,              \* in select(), scanning, at a statement, or lost
    ready,              \* socketsReadyForReading
    next,               \* the loop index i
    request,            \* the request being handled
    userID,             \* the local variable of AddAccount and GetAccount
    answer,             \* the reply of the last visit
    wire,               \* the state of each connection, as the peer left it
    inbox,              \* unread requests of each connection
    backlog,            \* connections waiting to be accepted
    crashes             \* history: how often the process has ended

tables == <<users, accounts>>
loopVars == <<activeConnections, handles, ready>>
netVars == <<wire, backlog>>
vars == <<tables, loopVars, phase, next, request, userID, answer, netVars, inbox, crashes>>

Statements == {"insertUser", "selectId", "insertAccount", "reply",
               "getAccount", "updateUser", "getDate"}

Running == phase \notin {"down", "crashed"}

-----------------------------------------------------------------------------
(* Winsock, as the loop uses it. *)

Broken(c) == wire[c] \in {"reset", "aborted"}

Readable(c) == Broken(c) \/ wire[c] = "closed" \/ (wire[c] = "open" /\ inbox[c] # <<>>)

SaysGoodbye(c) == wire[c] = "reset" \/ (wire[c] = "closed" /\ inbox[c] = <<>>)

HasPacket(c) == ~Broken(c) /\ inbox[c] # <<>>

IsActive(c) == c \in ToSet(activeConnections)

ReadyNow ==
    {c \in ToSet(activeConnections) : Readable(c)} \cup (IF backlog > 0 THEN {Listen} ELSE {})

-----------------------------------------------------------------------------
(* The scan.  Every path of a handled packet and of a disconnect ends in   *)
(* `continue`, so that FD_CLR and count-- at the end of the body are never *)
(* reached and count stays what select() returned.                         *)

Unvisited == {k \in next .. Len(activeConnections) : activeConnections[k] \in ready}

Index == CHOOSE k \in Unvisited : \A j \in Unvisited : k <= j

Visiting(c) == phase = "scan" /\ Unvisited # {} /\ c = activeConnections[Index]

count == Cardinality(ready)

ScanOver == phase = "scan" /\ Unvisited = {}

(* Mutant: FD_ISSET is left out, since count seems to say it. *)
WillAccept_countOnly == ScanOver /\ count > 0

(* `if (count > 0)` and FD_ISSET(listenSocket). *)
WillAccept == ScanOver /\ count > 0 /\ Listen \in ready

(* Mutant: `break` for `continue`. *)
Continue_breaks ==
    /\ phase' = "scan"
    /\ next' = Len(activeConnections) + 1

Continue ==
    /\ phase' = "scan"
    /\ next' = Index + 1

(* The reply goes to the connection the request came by.  The result of    *)
(* its send() is not looked at.                                            *)
Reply(q, what, id) ==
    /\ answer' = [to |-> activeConnections[Index], request |-> q,
                  what |-> what, userId |-> id]
    /\ request' = NoRequest /\ userID' = 0
    /\ Continue

Proceed(statement) ==
    /\ phase' = statement
    /\ UNCHANGED next

-----------------------------------------------------------------------------
(* The end of the process.  The connections go with it. *)

Die ==
    /\ phase' = "crashed"
    /\ crashes' = crashes + 1
    /\ activeConnections' = <<>> /\ handles' = {}
    /\ ready' = {} /\ next' = 1
    /\ request' = NoRequest /\ userID' = 0 /\ answer' = NoAnswer
    /\ wire' = [c \in Peer |-> "absent"]
    /\ inbox' = [c \in Peer |-> <<>>]
    /\ backlog' = 0
    /\ UNCHANGED tables

Kill == phase # "crashed" /\ crashes < MaxCrashes /\ Die

AtStatement ==
    phase \in Statements \ {"reply"} \/ \E c \in Peer : Visiting(c) /\ HasPacket(c)

StatementThrows == DatabaseFaults /\ AtStatement /\ Die

(* The process is started; what it prints of web_auth changes nothing. *)
Start ==
    /\ phase = "crashed" /\ crashes <= MaxCrashes
    /\ phase' = "select"
    /\ UNCHANGED <<tables, loopVars, next, request, userID, answer, netVars, inbox, crashes>>

-----------------------------------------------------------------------------
(* Message type 1: CreateAccountWeb. *)

(* Mutant: the row is looked for among the users that have logged in. *)
CheckExisting_seen(email) ==
    \E k \in DOMAIN accounts : accounts[k].email = email /\ users[accounts[k].userId]

Emails == {accounts[k].email : k \in DOMAIN accounts}

CheckExisting(email) == email \in Emails

(* What a query for an email finds: the first row that has it. *)
Row ==
    [email \in Emails |->
        accounts[CHOOSE k \in DOMAIN accounts :
                    /\ accounts[k].email = email
                    /\ \A j \in DOMAIN accounts : accounts[j].email = email => k <= j]]

(* recv(): one request is handled, the others read with it are gone. *)
Receive(c) ==
    /\ Visiting(c) /\ HasPacket(c)
    /\ \E k \in 1 .. MaxCoalesce :
          k <= Len(inbox[c]) /\ inbox' = [inbox EXCEPT ![c] = SubSeq(@, k + 1, Len(@))]
    /\ UNCHANGED <<tables, loopVars, netVars, crashes>>

CreateAccount(c) ==
    LET q == Head(inbox[c]) IN
    /\ Receive(c) /\ q.kind = "register"
    /\ \/ CheckExisting(q.email) /\ Reply(q, "exists", 0)
       \/ ~CheckExisting(q.email) /\ q.password \in ShortPassword
          /\ Reply(q, "weakPassword", 0)
       \/ ~CheckExisting(q.email) /\ q.password \notin ShortPassword
          /\ request' = q /\ userID' = 0 /\ answer' = NoAnswer /\ Proceed("insertUser")

Greatest(ids) == CHOOSE u \in ids : \A v \in ids : v <= u

Least(ids) == CHOOSE u \in ids : \A v \in ids : u <= v

(* AddAccount, one statement at a time.  AUTO_INCREMENT gives the next id. *)
NextId == IF DOMAIN users = {} THEN 1 ELSE Greatest(DOMAIN users) + 1

InsertUser ==
    /\ phase = "insertUser"
    /\ users' = [u \in DOMAIN users \cup {NextId} |-> IF u = NextId THEN FALSE ELSE users[u]]
    /\ Proceed("selectId")
    /\ UNCHANGED <<accounts, loopVars, request, userID, answer, netVars, inbox, crashes>>

(* Mutants: without DESC; the id is computed, not looked up. *)
LastId_ascending == Least(DOMAIN users)

LastId_next == NextId

LastId == Greatest(DOMAIN users)

(* Mutant: the account itself is not inserted. *)
SelectId_only ==
    /\ phase = "selectId"
    /\ userID' = LastId
    /\ Proceed("reply")
    /\ UNCHANGED <<tables, loopVars, request, answer, netVars, inbox, crashes>>

(* SELECT id FROM user ORDER BY id DESC, its first row. *)
SelectId ==
    /\ phase = "selectId"
    /\ userID' = LastId
    /\ Proceed("insertAccount")
    /\ UNCHANGED <<tables, loopVars, request, answer, netVars, inbox, crashes>>

(* Mutant: the exception is caught, and the user row stays. *)
InsertAccount_catches ==
    /\ phase = "insertAccount"
    /\ IF request.email \in TooLong
       THEN /\ Reply(request, "denied", 0)
            /\ UNCHANGED <<tables, loopVars, netVars, inbox, crashes>>
       ELSE /\ accounts' = Append(accounts, [email |-> request.email,
                                             password |-> request.password,
                                             userId |-> userID])
            /\ Proceed("reply")
            /\ UNCHANGED <<users, loopVars, request, userID, answer, netVars, inbox, crashes>>

(* INSERT INTO web_auth.  An email the column does not take makes it throw. *)
InsertAccount ==
    /\ phase = "insertAccount"
    /\ IF request.email \in TooLong
       THEN Die
       ELSE /\ accounts' = Append(accounts, [email |-> request.email,
                                             password |-> request.password,
                                             userId |-> userID])
            /\ Proceed("reply")
            /\ UNCHANGED <<users, loopVars, request, userID, answer, netVars, inbox, crashes>>

ReplyRegistered ==
    /\ phase = "reply"
    /\ Reply(request, "registered", userID)
    /\ UNCHANGED <<tables, loopVars, netVars, inbox, crashes>>

-----------------------------------------------------------------------------
(* Message type 2: AuthenticateWeb. *)

(* Mutant: an unknown email is passed over. *)
Authenticate_silent(c) ==
    LET q == Head(inbox[c]) IN
    /\ Receive(c) /\ q.kind = "login"
    /\ \/ ~CheckExisting(q.email) /\ answer' = NoAnswer /\ Continue
          /\ UNCHANGED <<request, userID>>
       \/ CheckExisting(q.email)
          /\ request' = q /\ userID' = 0 /\ answer' = NoAnswer /\ Proceed("getAccount")

Authenticate(c) ==
    LET q == Head(inbox[c]) IN
    /\ Receive(c) /\ q.kind = "login"
    /\ \/ ~CheckExisting(q.email) /\ Reply(q, "denied", 0)
       \/ CheckExisting(q.email)
          /\ request' = q /\ userID' = 0 /\ answer' = NoAnswer /\ Proceed("getAccount")

(* Mutant: -1, for a wrong password, is taken for a user id. *)
GetAccount_unchecked ==
    LET row == Row[request.email] IN
    /\ phase = "getAccount"
    /\ userID' = IF row.password = request.password THEN row.userId ELSE -1
    /\ Proceed("updateUser")
    /\ UNCHANGED <<tables, loopVars, request, answer, netVars, inbox, crashes>>

(* Mutant: any password will do. *)
GetAccount_anyPassword ==
    /\ phase = "getAccount"
    /\ userID' = Row[request.email].userId
    /\ Proceed("updateUser")
    /\ UNCHANGED <<tables, loopVars, request, answer, netVars, inbox, crashes>>

(* GetAccount: the password of the first row decides. *)
GetAccount ==
    LET row == Row[request.email] IN
    /\ phase = "getAccount"
    /\ \/ /\ row.password = request.password
          /\ userID' = row.userId
          /\ Proceed("updateUser")
          /\ UNCHANGED <<request, answer>>
       \/ /\ row.password # request.password
          /\ Reply(request, "denied", 0)
    /\ UNCHANGED <<tables, loopVars, netVars, inbox, crashes>>

(* UPDATE user SET last_login ... WHERE id = ? *)
UpdateUser ==
    /\ phase = "updateUser"
    /\ users' = [u \in DOMAIN users |-> u = userID \/ users[u]]
    /\ Proceed("getDate")
    /\ UNCHANGED <<accounts, loopVars, request, userID, answer, netVars, inbox, crashes>>

(* SELECT creation_date: without a row of that id, getString() throws. *)
GetCreationDate ==
    /\ phase = "getDate"
    /\ IF userID \notin DOMAIN users
       THEN Die
       ELSE /\ Reply(request, "loggedIn", userID)
            /\ UNCHANGED <<tables, loopVars, netVars, inbox, crashes>>

-----------------------------------------------------------------------------
(* The rest of the loop. *)

(* A handle is in the vector once. *)
Disconnect(c) ==
    /\ Visiting(c) /\ SaysGoodbye(c)
    /\ activeConnections' = RemoveAt(activeConnections, Index)
    /\ answer' = NoAnswer
    /\ Continue
    /\ UNCHANGED <<tables, handles, ready, request, userID, netVars, inbox, crashes>>

(* Another error closes the listening socket and Winsock: no call of the   *)
(* loop succeeds any more.                                                 *)
ReceiveError(c) ==
    /\ Visiting(c) /\ wire[c] = "aborted"
    /\ phase' = "down" /\ answer' = NoAnswer
    /\ UNCHANGED <<tables, loopVars, next, request, userID, netVars, inbox, crashes>>

Select ==
    /\ phase = "select" /\ ReadyNow # {}
    /\ phase' = "scan" /\ ready' = ReadyNow /\ next' = 1
    /\ answer' = NoAnswer
    /\ UNCHANGED <<tables, activeConnections, handles, request, userID, netVars, inbox, crashes>>

BackToSelect ==
    /\ phase' = "select" /\ ready' = {} /\ next' = 1
    /\ answer' = NoAnswer
    /\ UNCHANGED <<tables, request, userID, crashes>>

Accept(c) ==
    /\ WillAccept /\ backlog > 0 /\ c \in Peer \ handles
    /\ backlog' = backlog - 1
    /\ wire' = [wire EXCEPT ![c] = "open"]
    /\ handles' = handles \cup {c}
    /\ activeConnections' = Append(activeConnections, c)
    /\ BackToSelect /\ UNCHANGED inbox

AcceptFails ==
    /\ WillAccept /\ backlog > 0 /\ "reset" \in PeerFaults
    /\ backlog' = backlog - 1
    /\ BackToSelect /\ UNCHANGED <<activeConnections, handles, wire, inbox>>

NothingToAccept ==
    /\ ScanOver /\ ~WillAccept
    /\ BackToSelect /\ UNCHANGED <<activeConnections, handles, netVars, inbox>>

Handling ==
    \/ InsertUser \/ SelectId \/ InsertAccount \/ ReplyRegistered
    \/ GetAccount \/ UpdateUser \/ GetCreationDate

Server ==
    \/ Select \/ NothingToAccept \/ AcceptFails \/ Handling
    \/ \E c \in Peer :
          CreateAccount(c) \/ Authenticate(c) \/ Disconnect(c) \/ ReceiveError(c) \/ Accept(c)

-----------------------------------------------------------------------------
(* The chat servers. *)

ServerUnchanged ==
    /\ Running
    /\ UNCHANGED <<tables, loopVars, phase, next, request, userID, answer, crashes>>

PeerConnects ==
    /\ backlog < MaxBacklog /\ backlog < Cardinality(Peer \ handles)
    /\ backlog' = backlog + 1
    /\ UNCHANGED <<wire, inbox>> /\ ServerUnchanged

PeerSends(c) ==
    /\ IsActive(c) /\ wire[c] = "open" /\ Len(inbox[c]) < MaxPackets
    /\ \E q \in Request :
          q.kind \in Kinds /\ inbox' = [inbox EXCEPT ![c] = Append(@, q)]
    /\ UNCHANGED netVars /\ ServerUnchanged

(* close: what is unread can still be read; reset and abort throw it away. *)
PeerFault(c) ==
    /\ IsActive(c)
    /\ \/ /\ "close" \in PeerFaults /\ wire[c] = "open"
          /\ wire' = [wire EXCEPT ![c] = "closed"] /\ UNCHANGED inbox
       \/ /\ wire[c] = "closed" \/ ("reset" \in PeerFaults /\ wire[c] = "open")
          /\ wire' = [wire EXCEPT ![c] = "reset"] /\ inbox' = [inbox EXCEPT ![c] = <<>>]
       \/ /\ "abort" \in PeerFaults /\ wire[c] \in {"open", "closed"}
          /\ wire' = [wire EXCEPT ![c] = "aborted"] /\ inbox' = [inbox EXCEPT ![c] = <<>>]
    /\ UNCHANGED backlog /\ ServerUnchanged

Peers == PeerConnects \/ \E c \in Peer : PeerSends(c) \/ PeerFault(c)

-----------------------------------------------------------------------------
(* The first start of all, with empty tables. *)
Init ==
    /\ users = <<>> /\ accounts = <<>>
    /\ activeConnections = <<>> /\ handles = {}
    /\ phase = "select" /\ ready = {} /\ next = 1
    /\ request = NoRequest /\ userID = 0 /\ answer = NoAnswer
    /\ wire = [c \in Peer |-> "absent"]
    /\ inbox = [c \in Peer |-> <<>>]
    /\ backlog = 0
    /\ crashes = 0

SelectTimeout == phase = "select" /\ ReadyNow = {} /\ UNCHANGED vars

Stopped == ~Running /\ UNCHANGED vars

Next == Server \/ SelectTimeout \/ Kill \/ StatementThrows \/ Start \/ Peers \/ Stopped

Spec == Init /\ [][Next]_vars

(* The thread does not stop by itself. *)
FairSpec == Spec /\ WF_vars(Server)

-----------------------------------------------------------------------------
(* Properties. *)

UserIds == {accounts[k].userId : k \in DOMAIN accounts}

Account == [email : Email, password : Password, userId : Nat \ {0}]

(* Types of the tables, of the loop's state and of the network's. *)
AuthTypeOK ==
    /\ users \in [DOMAIN users -> BOOLEAN] /\ DOMAIN users \subseteq Nat \ {0}
    /\ accounts \in Seq(Account)
    /\ activeConnections \in Seq(Peer) /\ handles \subseteq Peer
    /\ phase \in {"select", "scan", "down", "crashed"} \cup Statements
    /\ ready \subseteq Peer \cup {Listen}
    /\ next \in Nat \ {0}
    /\ request \in Request \cup {NoRequest}
    /\ phase \in Statements <=> request # NoRequest
    /\ userID \in Nat
    /\ answer \in Answer \cup {NoAnswer}
    /\ wire \in [Peer -> {"absent", "open", "closed", "reset", "aborted"}]
    /\ inbox \in [Peer -> Seq(Request)]
    /\ backlog \in Nat /\ crashes \in Nat

(* Every account has a user row, whenever the process has ended: the query *)
(* for the creation date never comes back empty.                           *)
AccountsHaveUsers == UserIds \subseteq DOMAIN users

(* An email has one account and a user one, though neither column is       *)
(* UNIQUE, and lookup and insertion are separate statements.               *)
AccountsAreDistinct ==
    \A j, k \in DOMAIN accounts :
        accounts[j].email = accounts[k].email \/ accounts[j].userId = accounts[k].userId
            => j = k

(* A user row without an account is the trace of a process that ended      *)
(* between the two INSERTs: at most one for each such end.                 *)
OrphansAreCrashes ==
    Cardinality(DOMAIN users \ UserIds)
        <= crashes + (IF phase \in {"selectId", "insertAccount"} THEN 1 ELSE 0)

(* recv() and accept() are called only when they return at once, although  *)
(* count is never decremented and the ready set never cleared.             *)
AuthNeverBlocks ==
    /\ \A c \in Peer : Visiting(c) => Readable(c)
    /\ WillAccept => backlog > 0

(* The tables, seen as the map of AccountStore. *)
StoreView ==
    [e \in Emails |->
        [password |-> Row[e].password, userId |-> Row[e].userId,
         seen |-> users[Row[e].userId]]]

Store == INSTANCE AccountStore WITH store <- StoreView

(* To its callers the server is AccountStore: an account is there at once  *)
(* or not at all, whatever ends the process, and every answer is true.     *)
ImplementsStore == Store!StoreSpec

(* The request a connection has waiting is answered, however busy the      *)
(* other connections are, unless the connection or the service ends.       *)
RequestsAreAnswered ==
    \A c \in Peer, q \in Request :
        (IsActive(c) /\ inbox[c] # <<>> /\ Head(inbox[c]) = q)
            ~> \/ answer # NoAnswer /\ answer.to = c /\ answer.request = q
               \/ Broken(c) \/ ~Running
=============================================================================
