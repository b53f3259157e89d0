----------------------------- MODULE ChatSystem -----------------------------
(***************************************************************************)
(* The chat server and the auth server together, joined by their one       *)
(* connection.  ChatServer alone takes the auth server for something that  *)
(* answers its requests in order (AuthServerAnswers); here AuthServer does *)
(* the answering, statement by statement, and may die of it.               *)
(*                                                                         *)
(* ChatServer's variables keep their names, AuthServer's begin with auth.  *)
(* `requests` are on their way to the auth server, authInbox has arrived   *)
(* there, `taken` is what the recv() of the request being handled has      *)
(* taken, and `replies` is on its way back.                                *)
(*                                                                         *)
(* The chat server connects once, when it starts, and never again: an auth *)
(* server that ends is lost to it, and being started again changes nothing *)
(* here.  When the chat server ends, so does the system.                   *)
(***************************************************************************)
EXTENDS ChatServer

CONSTANTS
    TooLong,         \* emails that web_auth's varchar(255) does not take
    ShortPassword,   \* passwords of less than four characters
    NoRequest,
    NoAnswer,
    DatabaseFaults,  \* whether any statement may throw
    MaxCrashes       \* bound: how often the auth server is stopped

VARIABLES
    users, accounts, authConnections, authHandles, authPhase, authReady, authNext,
    authRequest, authUserID, authAnswer, authWire, authInbox, authBacklog, authCrashes,
    taken,      \* history: what the recv() of the request in hand has taken
    offered     \* history: requests each connection has sent since accepted

Auth == INSTANCE AuthServer WITH
    Peer <- {AuthLink}, Asker <- Asker, Kinds <- {"register", "login"},
    PeerFaults <- LinkFaults, MaxPackets <- MaxRequests, MaxBacklog <- 1,
    activeConnections <- authConnections, handles <- authHandles, phase <- authPhase,
    ready <- authReady, next <- authNext, request <- authRequest, userID <- authUserID,
    answer <- authAnswer, wire <- authWire, inbox <- authInbox, backlog <- authBacklog,
    crashes <- authCrashes

authVars == <<users, accounts, authConnections, authHandles, authPhase, authReady, authNext,
              authRequest, authUserID, authAnswer, authWire, authInbox, authBacklog,
              authCrashes>>

systemVars == <<vars, authVars, taken, offered>>

ASSUME SystemAssumption ==
    /\ TooLong \subseteq Email
    /\ ShortPassword \subseteq Password /\ EmptyPassword \in ShortPassword
    /\ NoRequest \notin Request
    /\ NoAnswer \notin Auth!Answer
    /\ DatabaseFaults \in BOOLEAN
    /\ MaxCrashes \in Nat
    /\ LinkAtStart = {"open"}

(* The requests that have not been answered, as ChatServer counts them. *)
Unanswered ==
    IF wire[AuthLink] = "open" THEN taken \o authInbox[AuthLink] \o requests ELSE <<>>

-----------------------------------------------------------------------------
(* The chat server's steps, and its clients'. *)

(* What the sockets ask for, forgotten when a socket is a new connection. *)
RememberOffers ==
    offered' = [s \in Client |->
                    IF IsActive(s)' /\ ~IsActive(s) THEN {}
                    ELSE offered[s] \cup {q \in ToSet(requests') : q.id = s}]

(* MaxRequests bounds what is anywhere between the two servers. *)
ChatThread ==
    /\ Server /\ RememberOffers /\ UNCHANGED <<authVars, taken>>
    /\ Len(Unanswered') + Len(replies') <= MaxRequests

ClientStep ==
    /\ ClientConnects \/ \E s \in Client : ClientSends(s) \/ ClientFault(s)
    /\ UNCHANGED <<authVars, taken, offered>>

-----------------------------------------------------------------------------
(* The auth server's steps, and what they do to the connection. *)

Serving == ~Halted /\ UNCHANGED <<registryVars, activeConnections, handles, loopVars,
                                  inbox, backlog, sent, heardVars, offered>>

(* Mutant: an unknown account is reported like a taken email. *)
ReplyKind_mixed ==
    [registered |-> "registered", exists |-> "registerFailed",
     weakPassword |-> "registerFailed", loggedIn |-> "loggedIn", denied |-> "registerFailed"]

(* Message types 9 to 12; a failed registration has its reason with it. *)
ReplyKind ==
    [registered |-> "registered", exists |-> "registerFailed",
     weakPassword |-> "registerFailed", loggedIn |-> "loggedIn", denied |-> "loginFailed"]

(* Both ends of a lost connection: nothing more arrives at the one, and    *)
(* the other is told, in one way or another, when it looks.                *)
LinkBreaks ==
    /\ \/ wire[AuthLink] # "open" /\ UNCHANGED <<wire, replies>>
       \/ Closes(AuthLink, FaultKinds) /\ UNCHANGED replies
       \/ wire[AuthLink] = "open" /\ Breaks(AuthLink, {"reset"}) /\ replies' = <<>>
    /\ requests' = <<>>
    /\ taken' = <<>>

Received == SubSeq(authInbox[AuthLink], 1,
                   Len(authInbox[AuthLink]) - Len(authInbox'[AuthLink]))

(* A step of the thread: it ends the process, or gives an answer, or       *)
(* neither.  An answer to a connection that is lost goes nowhere.          *)
AuthStep ==
    \/ authPhase' \in {"crashed", "down"} /\ LinkBreaks
    \/ /\ authPhase' \notin {"crashed", "down"}
       /\ authAnswer = NoAnswer /\ authAnswer' # NoAnswer
       /\ replies' = IF wire[AuthLink] # "open" THEN replies
                     ELSE Append(replies, [what |-> ReplyKind[authAnswer'.what],
                                           id |-> authAnswer'.request.id])
       /\ taken' = <<>>
       /\ UNCHANGED <<wire, requests>>
    \/ /\ authPhase' \notin {"crashed", "down"}
       /\ authAnswer # NoAnswer \/ authAnswer' = NoAnswer
       /\ taken' = taken \o Received
       /\ UNCHANGED <<wire, requests, replies>>

(* accept() fails only on a connection the chat server has lost already.   *)
AuthThread ==
    /\ Auth!Server /\ AuthStep /\ Serving
    /\ Auth!AcceptFails => wire[AuthLink] # "open"

AuthEnds == (Auth!Kill \/ Auth!StatementThrows) /\ AuthStep /\ Serving

(* What was sent before the auth server called accept() waits for it. *)
RequestArrives ==
    /\ requests # <<>>
    /\ Auth!PeerSends(AuthLink)
    /\ authInbox'[AuthLink] = Append(authInbox[AuthLink], Head(requests))
    /\ requests' = Tail(requests)
    /\ UNCHANGED <<wire, replies, taken>> /\ Serving

(* The network fails; the auth server may hear of it later. *)
NetworkFault ==
    /\ Breaks(AuthLink, LinkFaults) /\ replies' = <<>>
    /\ requests' = <<>>
    /\ UNCHANGED <<authVars, taken>> /\ Serving

AuthHears ==
    /\ wire[AuthLink] # "open" /\ Auth!PeerFault(AuthLink)
    /\ UNCHANGED <<wire, linkVars, taken>> /\ Serving

-----------------------------------------------------------------------------
(* Both servers have just been started, the auth server for the first time *)
(* of all, and the chat server has connected to it.                        *)
SystemInit ==
    /\ Init
    /\ users = <<>> /\ accounts = <<>>
    /\ authConnections = <<>> /\ authHandles = {}
    /\ authPhase = "select" /\ authReady = {} /\ authNext = 1
    /\ authRequest = NoRequest /\ authUserID = 0 /\ authAnswer = NoAnswer
    /\ authWire = [c \in {AuthLink} |-> "absent"]
    /\ authInbox = [c \in {AuthLink} |-> <<>>]
    /\ authBacklog = 1
    /\ authCrashes = 0
    /\ taken = <<>>
    /\ offered = [s \in Client |-> {}]

SystemStopped == Halted /\ UNCHANGED systemVars

SystemIdle == SelectTimeout /\ UNCHANGED systemVars

SystemNext ==
    \/ ChatThread \/ ClientStep \/ AuthThread \/ AuthEnds \/ RequestArrives
    \/ NetworkFault \/ AuthHears \/ SystemStopped \/ SystemIdle

SystemSpec == SystemInit /\ [][SystemNext]_systemVars

(* Both threads go on, and TCP delivers. *)
FairSystem ==
    SystemSpec /\ WF_systemVars(ChatThread) /\ WF_systemVars(AuthThread)
               /\ WF_systemVars(RequestArrives)

-----------------------------------------------------------------------------
(* Properties. *)

Chat == INSTANCE ChatServer WITH
    requests <- Unanswered, LinkFaults <- FaultKinds

(* What ChatServer takes the auth server for is what AuthServer does: its  *)
(* theorems hold of the two programs together.                             *)
ImplementsChatServer == Chat!Spec

HasAccount(q) ==
    \E k \in DOMAIN accounts :
        accounts[k].email = q.email /\ accounts[k].password = q.password

(* Whoever is authorised has proved it: this very connection has sent the  *)
(* email and the password of an account that is in the database, or else a *)
(* client's own packet said that it had logged in.  Between the login and  *)
(* the authorisation lie two servers, two vectors of connections, and      *)
(* replies that carry nothing but a handle.                                *)
AuthorisedHaveAccounts ==
    \A s \in ToSet(authedUsers) :
        IsActive(s) =>
            \/ [what |-> "loggedIn", id |-> s] \in rumours
            \/ \E q \in offered[s] : q.kind = "login" /\ HasAccount(q)

(* Who is told that an account was made, or that it is logged in, has the  *)
(* account, whatever has become of the auth server since, unless it is a   *)
(* client's own packet that says so.                                       *)
GoodNewsIsTrue ==
    \A k \in DOMAIN sent :
        sent[k].what \in {"registered", "loggedIn"} =>
            \A s \in ToSet(sent[k].to) :
                \/ [what |-> sent[k].what, id |-> s] \in rumours
                \/ \E q \in offered[s] :
                       HasAccount(q) /\ q.kind = IF sent[k].what = "loggedIn" THEN "login"
                                                                              ELSE "register"

(* A login that the auth server comes to is answered through both servers, *)
(* unless the client leaves, or a server or the connection between the two *)
(* is lost, or two replies come to share a recv(), which loses the second. *)
LoginIsAnsweredInTheEnd ==
    \A s \in Client :
        (Unanswered # <<>> /\ Head(Unanswered).kind = "login" /\ Head(Unanswered).id = s)
            ~> \/ \E k \in DOMAIN sent : sent[k].what \in Answers("login") /\ sent[k].to = <<s>>
               \/ ~IsActive(s) \/ Halted \/ wire[AuthLink] # "open" \/ Len(replies) > 1
=============================================================================
