# NET1 in TLA+

NET1 is a chat room system in C++ of three programs: a chat server that serves every client from one
thread around `select()`, an authentication server that keeps accounts in MySQL, and a console
client. This directory holds TLA+ modules that model the programs, the TLC configurations that check
them on small instances, and theorems that TLAPS proves for every instance.

## The system

| part | source (below `src/`) | state | operations |
|---|---|---|---|
| session registry | `TCPServerWithSelect/cUserRoomInfoHandler.cpp` | `room_map` (room → sockets), `userinfo_map` (socket → name, rooms), `authedUsers` | join, leave, purge, rename, authorise, getters |
| chat server loop | `TCPServerWithSelect/main_server_select.cpp` | `activeConnections`, the `fd_set`, `count`, the scan index, the sockets | select, receive, dispatch of message types 1 to 51 and 9 to 12, disconnect, accept |
| auth server | `AuthServer/main_auth_server.cpp`, `mysqlutil.cpp`, `sql_schemas/` | tables `user` and `web_auth`, which outlive it; its own `activeConnections` and `fd_set` | create account, authenticate, accept, disconnect, restart |
| packet framing | `*/buffer.h`, the `recv()` pairs of the three mains | bytes of a TCP stream, the 512-byte buffer | write and read integers, build a packet, the two `recv()` calls |
| client | `TCPClient/main_client.cpp` | the line being typed, the place in the stream, the packet being received | read a key, send a line, leave, receive and show |
| wire messages | `Shared/authentication.proto` | – | requests and replies with `requestid` |
| welcome mats | `TCPServerWithSelect/main_server_select.cpp` (start-up), `welcomemats.txt` | a vector of banners | parse once |
| password hashing | `AuthServer/sha256.cpp` | – | third-party SHA-256 |

How they interact. A client sends length-prefixed packets: chat text, `!join`, `!leave`, `!nick`,
help, `!register`, `!authenticate`, or something unknown. The chat server handles one packet per
socket and pass, in the order of `activeConnections`; the connection to the auth server is element 0
of the same vector, and its packets are told from those of clients by their type only. A register or
authenticate command is forwarded with **the client's socket handle as `requestid`**, and the reply,
any number of passes later, is delivered to whoever has that handle. A room's traffic is a
synchronous loop of `send()` over the room's vector.

What is hard here:

* **One membership, stored twice.** Five call sites change both maps; only the order of statements
  in `addToRoom` and `removeFromRoom` keeps them in step.
* **A vector erased from while it is indexed**, `continue` paths that leave the ready set and
  `count` unadjusted, and blocking `recv()`/`accept()` calls whose safety rests on those two.
* **A stream is not a row of packets.** A `recv()` takes what has arrived, be it half a packet or
  three; the length prefix is used only to decide on a second `recv()`, which waits.
* **Peers move between two visits of one pass**: what `select()` reported is old when it is used,
  and a send to a socket that has died in the meantime fails.
* **Late replies matched by a handle.** An authorisation is never withdrawn, and a reply may come
  after its requester has gone. A client's packet of a reply's type goes through the same branch
  (845), so that what the server knows of logins can rest on it.
* **Errors of one connection end the service**: a failed broadcast is treated as the server's own
  failure, unless a later send of the same visit hides it.
* **An account in several statements** without a transaction, in the auth server: an exception of
  the database is caught nowhere, and the process can be stopped between any two. An email is looked
  up and inserted separately, with no UNIQUE key behind it.

What makes each part correct:

* registry: the two maps agree, no vector has duplicates, a call about one user disturbs no other;
* loop: only connected, authorised and named users are in a room; rooms hear of every arrival and
  departure; text reaches exactly the members; nobody inherits an authorisation; the thread never
  blocks on one peer; every readable peer is visited, every caller accepted; the service ends only
  because of a live connection; the registry is used as its contract allows, except once;
* auth server: every account has a user row of its own and an email of its own, an account is there
  at once or not at all, every answer is true, every request gets one;
* framing: a stream that arrives packet by packet comes out whole and in order, and the second
  `recv()` finds the rest there (a packet of more than 1024 bytes is not received whole, which the
  code says it is);
* client: lines arrive as they were typed, texts are shown once and in order, and cut only for
  reasons that can be named; the keyboard is heard as long as packets come one by one and fit two
  buffers (that the client ends when the server has gone is not among them: it does not);
* the two servers together: whoever is authorised, or is told of success, has an account in the
  database, whatever has ended since, unless a client's packet said so; a login that the auth server
  comes to is answered.

## Modules

| module | what it is |
|---|---|
| `SessionRegistry` | class `cUserRoomInfoHandler`, one operator per method, and a specification that calls the methods in any order the class's contract allows |
| `MCSessionRegistry` | its TLC instance |
| `VectorFacts` | lemmas about sequences used as `std::vector`s, about folds and about induction, shared by the proofs |
| `SessionRegistryProofs` | the inductive invariant of the registry and five theorems |
| `ChatServer` | the loop of `main_server_select.cpp`; EXTENDS `SessionRegistry`, whose mutators are the registry part of the handlers |
| `MCChatServer` | its TLC instances (three configurations) |
| `ChatServerProofs` | the loop's inductive invariant, its refinement of the registry's specification, why the scan never waits; seven theorems |
| `ChatServerTrafficProofs` | what is said to whom: three theorems |
| `ChatServerClaims` | what comments and messages of the code say and the code does not keep; each is refuted by a run |
| `AccountStore` | what the auth server promises: a map of accounts, and answers that agree with it |
| `AuthServer` | the auth server, statement by statement, with its crashes and restarts |
| `MCAuthServer` | its TLC instances (two configurations) |
| `AuthServerProofs` | its inductive invariant, the proof that it implements `AccountStore`, and five theorems |
| `ChatSystem` | both servers and the connection between them; EXTENDS `ChatServer`, INSTANCEs `AuthServer`, and refines `ChatServer`'s own model of the auth server |
| `MCChatSystem` | its TLC instance |
| `ChatSystemProofs` | that refinement, and two theorems about accounts, for any instance; INSTANCEs `AuthServerProofs` |
| `PacketQueue` | what the other modules assume of a connection: packets whole and in order, several of them lost in one `recv()` |
| `PacketFraming` | the bytes: `buffer.h`, `buildBuffer` and the two `recv()` calls |
| `MCPacketFraming` | its TLC instance |
| `PacketFramingProofs` | its inductive invariant, the proof that it implements `PacketQueue`, and three theorems |
| `PacketFramingClaims` | the comment about entire packets, which a run refutes |
| `Client` | the loop of `main_client.cpp` |
| `MCClient` | its TLC instance |
| `ClientProofs` | its inductive invariant and five theorems |

### SessionRegistry

`room_map` and `userinfo_map` are partial functions into sequences, as the `std::map`s into
`std::vector`s are: `operator[]` on a missing room creates it (`Put`), `insert` leaves an existing
entry alone (`InitializeUser`), a missing key answers the empty value in the getters.
`removeFromRoom` is two operators, since its argument `-1` asks for something else: `RemoveFromRoom`
(one room) and `PurgeUser` (all rooms, then the user's entry). It dereferences `find(socket)`
without a test; the specification's precondition `s \in DOMAIN userInfo` is this contract. A call
that breaks it leaves the maps alone here and is remembered (`Dereference`, `misused`), so that no
step of the specification looks like it; what becomes of the process is the caller's to say.
`ChatServer`'s property `RegistryContract` is that its only caller breaks the contract in one place
only: line 312 purges the auth server's socket, which is no user, when that connection is lost
(`LinkPurge`). The first-match erase
in a room's vector and the last-match erase in the user's list are kept apart, because only the
absence of duplicates makes them the same.

### ChatServer

One action is one **visit**: everything the loop body does for one socket, from its `recv()` to the
end of the body (or its `continue`, or `break`). The loop has no other points where it gives way,
but the peers do move between two visits, and that is where the interleavings are. The variables are
the program's (`activeConnections`, `ready`, `count`, `next` for `i`), what the sockets look like
from the server (`wire`, `inbox`, `backlog`, `requests`, `replies`, `handles`), and three that only
observe: `sent`, the messages of the last visit, `asked`, who has ever sent a login on this
connection, and `rumours`, the auth server's kinds of replies that clients have sent, with the
active socket that each names.

| actions | code |
|---|---|
| `Select`, `SelectTimeout`, `NothingToAccept`, `Accept`, `AcceptFails` | FD_ZERO/FD_SET/select (247–277), the accept block (1016–1068) |
| `ChatPacket` | message type 1 (374–431) |
| `JoinCommand`, `LeaveCommand`, `NickCommand` | types 2, 3 and 4 (582–816), each with its refusals |
| `HelpCommand`, `UnknownCommand`, `AccountCommand` | the help text, type 51, register and authenticate (480–580, 828–838) |
| `AuthReply`, `ReplyPacket` | types 9 to 12, from the auth server and from a client: `HandleReply` (845–994), which does not look at where they came from |
| `ClientDisconnect`, `LinkDisconnect`, `ReceiveError` | `recv()` answering 0, WSAECONNRESET or another error (298–348) |
| `ClientConnects`, `ClientSends`, `ClientFault`, `LinkFault`, `AuthServerAnswers` | the environment: clients, the network, the auth server |

How a visit ends is kept as the code has it: `VisitDone` (FD_CLR, `count--`), `VisitSkipped`
(`continue`: neither), `StopServing` (a send error is seen at the end of the body), `Crash` (an
uncaught exception). After `StopServing` the listening socket is closed and Winsock cleaned up,
every later call of the loop fails, and the state `"down"` is final.

Which sends fail is chosen per visit (`SendFailures`): surely those to a connection already broken,
possibly those to one whose peer has closed. The first send to a closed peer succeeds (it provokes
the reset), a later send of the same visit may fail. As in the code, only the **last** message's
result counts.

Abstracted: message texts (a message is a record of what it says, its room and its recipients); room
numbers and names (model values); what a packet says is chosen when it is handled, from what
`main_client.cpp` can produce and from the types that the dispatch knows. A reply that names the auth
server's own socket makes the server send a type 1 packet there, which the auth server takes for a
registration that does not parse (`Misparsed`, with empty fields and the id of nobody). Not in this
module: partial and oversized packets (`PacketFraming`),
`send()` that waits because the receiver's window is full, the failure of `select()` itself,
start-up calls that exit the program. Purging the auth connection (never initialised as a user) is
`PurgeUser` of a socket that is no user, and either the end of the process or not; the uninitialised
message type in `LeaveRoom` is a choice between the type the client shows and another.

### AuthServer and AccountStore

Here a visit is too coarse: the process may end between two statements to the database, and the
tables stay. So **one action is one statement**. What precedes a visit's first statement, from the
`recv()` on, is in that statement's action, and what follows a statement up to the next is in its
own; only the reply after an INSERT is a step by itself.

| actions | code |
|---|---|
| `CreateAccount` | message type 1 up to `AddAccount` (468–548): lookup, password length, refusals |
| `InsertUser`, `SelectId`, `InsertAccount`, `ReplyRegistered` | `AddAccount` (69–99) and the success reply |
| `Authenticate`, `GetAccount`, `UpdateUser`, `GetCreationDate` | message type 2 (549–640), `GetAccount` (102–141), `UpdateUser`, `GetCreationDate` |
| `StatementThrows`, `Kill`, `Die`, `Start` | `sql::SQLException`, which nothing catches; the process stopped; started again |
| `Select`, `Accept`, `AcceptFails`, `NothingToAccept`, `Disconnect`, `ReceiveError` | the loop (357–706) |
| `PeerConnects`, `PeerSends`, `PeerFault` | the chat servers |

`users` is the table `user` as a function from id to whether `last_login` was ever set; `accounts`
is `web_auth` in the order of its key. `LastId` is the code's `SELECT id FROM user ORDER BY id
DESC`, and not the id just generated: that both are the same is a consequence, not an assumption.
`InsertAccount` throws for an email its column does not take (`TooLong`). `Row` is the first row of
an email, as both queries read it. Every path of the loop body ends in `continue`, so `count` is
never decremented: it is `Cardinality(ready)` throughout, and the result of the replies' `send()` is
looked at by nobody (the check at line 641 is never reached).

`AccountStore` is the abstract specification: `Register` adds a whole account, `Mark` notes a log
in, `Say` gives a true answer, and nothing ever removes or alters an account. `StoreView` is the
refinement mapping, which shows of the tables only users that have an account; crashes, restarts and
user rows without an account are therefore steps the callers do not see.

Abstracted: a salted hash equals another exactly when salt and password do; emails are equal as the
column's collation has it; ids stay below 2^31 (`AddAccount` returns an `int`); fewer than
FD_SETSIZE chat servers.

### ChatSystem

`ChatServer` alone takes the auth server for `AuthServerAnswers`: something that takes one or more
requests and answers the first. `ChatSystem` puts `AuthServer` there. Its chat server's actions are
those of `ChatServer`, its auth server's those of `AuthServer`, instantiated with one peer, the chat
server; new are only the actions that join them.

| actions | what they join |
|---|---|
| `ChatThread`, `ClientStep` | the chat server and its clients; a login or registration goes into `requests` |
| `RequestArrives` | TCP: the first of `requests` comes into `authInbox`, also while the connection still waits for `accept()` |
| `AuthThread` (`AuthStep`) | a step of the auth server; when it gives an answer, that is the last of `replies` |
| `AuthEnds`, and `AuthThread` when the process ends by itself | both ends of the connection are lost (`LinkBreaks`): the chat server finds it closed or reset, and what was on the way to the auth server is gone; replies already sent may still arrive if it is closed |
| `NetworkFault`, `AuthHears` | the network breaks the connection; the auth server hears of it at some later time, or never |

The chat server calls `connect()` once (98) and never again, so a restarted auth server changes
nothing for it. `Unanswered` is the refinement mapping: `ChatServer`'s one queue of requests is what
is in the auth server's hand (`taken`, a history variable), what has arrived and what is on its way,
in this order. An auth server that takes two requests with one `recv()` and answers the first is
then one step of `AuthServerAnswers`, and that it gives that answer several statements later, or
ends before, cannot be told apart from a slow one. `offered` is another history: the requests each
connection has sent since it was accepted.

### PacketFraming and PacketQueue

Here the bytes are there. `Packet` builds what `buildBuffer` builds, with the header's size and type
big endian and the text's length little endian, as `buffer.h` has them.

| actions | code |
|---|---|
| `Send` | `buildBuffer`, `send()` |
| `DeliverPacket`, `DeliverPart` | TCP: one packet more has arrived, or any part of one (`Cuts`) |
| `Receive` | the first `recv()`, of `bufSize` bytes, and either the handler or `resize()` (server 296–372, auth server 405–462, client 280–345) |
| `ReceiveRest` | the second `recv()`, of another `bufSize` bytes, to `m_BufferData[512]` |
| `ReceiveEnd`, `Close` | `recv()` answering 0 |

The history `orderly` says whether the stream has been kind so far: each packet came in one piece,
those waiting together fit the buffer together, none is longer than two `recv()` calls take. What
the code does on a stream that is not so is modelled too: the rest of a packet is read as a header,
a length points outside the vector (undefined: the process dies or goes on with a text that is
nobody's, `NoText`), a size asks for more memory than there is and `resize()` throws.
`ImplementsQueue` says that an orderly stream implements `PacketQueue`, which is what `ChatServer`
and `AuthServer` take a connection for (`MaxCoalesce` is theirs); of others nothing is promised.
`Client` models the disorderly ones too, more coarsely.

`FramingAssumption` says which packets the sender makes (a size that 32 bits hold, a type that the
receiver knows and 16 bits hold) and that the receiver has memory for what two `recv()` calls take;
all instances, the one with the code's 512 too, satisfy it. `Gone` reads off the unread bytes how
many packets have been read, so that the receiver needs no counter that the code does not have.

### Client

A turn of the loop is two actions, and three when there is a second `recv()`.

| actions | code |
|---|---|
| `TypeChar`, `Backspace`, `IgnoreKey`, `SendLine`, `Leave`, `NoKey` | `_kbhit()`, `_getch()` and what the key completes (154–262) |
| `SelectTimeout`, `Receive`, `ReceiveRest`, `ReceiveEnd`, `ReceiveError` | `select()` with 100 µs, the two `recv()` calls, the error path (264–372) |
| `Press`, `ServerSays`, `Deliver`, `ServerFault` | the user, the server and the network |

The connection is a stream of cells: `BufSize` of them fill the buffer, a packet is any whole number
of them with its header in the first, and the network delivers them one by one. A `recv()` takes
what has arrived, up to `BufSize` cells, wherever that begins and ends. So a packet may be torn (a
`recv()` finds its start only; `torn`), two may share a `recv()` (`crowded`), in which the second is
lost, and a packet of more than two buffers leaves cells behind. A `recv()` that begins in the middle
of a packet takes text for a header: four characters are a size beyond any buffer, so that
`resize()` may throw (the process ends) and otherwise the second `recv()` is called; two characters
are no message type, so that nothing is shown of it. The second `recv()` is the one place where this
thread waits. It writes behind the 512th byte also where the vector does not reach that far
(`RestFits`: undefined, the process goes on or ends).

Neither the result of `send()` nor that of the second `recv()` nor a 0 of the first is looked at, and
so they are not here. Error codes are one: all of them leave the loop. When the connection breaks
before the rest has come, `ReceiveRest` goes on without it and the text is not complete. Drawing is
left out. Headers that arrive in parts are in `PacketFraming` only.

Operators named `<definition>_<fault>` in these modules are plausible bugs that the properties are
shown to detect; no specification uses them.

## Runs

| run | instance | states | shows |
|---|---|---|---|
| `registry` | 3 sockets, 2 rooms, 1 name | 54 576 | the maps agree after every sequence of calls; a call about one user disturbs no other |
| `chat_clients` | 2 clients, 1 room, every command, clients close, reset, abort | 876 k | who is in a room, who is authorised, who hears what, that membership changes are announced |
| `chat_link` | 1 client, 2 rooms, the auth connection absent, closing, breaking; the client may say that anyone has logged in; a `recv()` takes up to 2 packets | 1.28 M | nobody owes a login to others; the thread never blocks; no gone client can end the service; the loop keeps the registry's contract but for the purge of line 312 |
| `chat_live` | 2 clients that join, log in and close | 123 k | everyone readable is served, callers accepted |
| `auth_tables` | 1 chat server, 3 emails of which one is too long, 3 passwords of which one is too short, up to 3 ends of the process | 353 k | the tables stay consistent through crashes between any two statements; the server implements `AccountStore` |
| `auth_loop` | 2 chat servers that close, reset, abort; 2 packets in a `recv()` | 38 k | the thread never blocks on a stale `count`; every request waiting is answered |
| `system` | 1 client, 1 email, a good and a too short password, the client resets and may say that it has logged in, the connection between the servers is reset, any statement throws, 1 kill; 2 requests between the servers, 2 packets in a `recv()` | 503 k | both servers implement `ChatServer`; who is authorised or told of success has the account or was named by a client; a login is answered through both |
| `framing` | 3 packets of texts of five lengths (short, just full, longer, longest, too long), a buffer of 24 bytes, parts of 9 | 314 k | an orderly stream comes out whole and in order, the second `recv()` never waits, every packet is read |
| `client` | 4 inputs: keys of two characters, backspace, enter and others, and up to 2 packets of 1, 2, 3 or 5 cells, a buffer of 2; closed, reset or never connected | 1.14 M | lines arrive as typed; texts are shown once and in order, and cut only if broken, torn or too long; the thread stops only after disorder, and otherwise hears every key |
| `claim_*` | smallest instance that shows it | – | counterexamples to statements of comments (below) |

Why the bounds are enough. The registry's methods treat sockets and rooms alike, so one user acted
on, one before it and one behind it in a vector (three sockets), and a room acted on and another
(two), show every position; the theorems remove the bound. In the loop, two clients are the least
with a skipped element (erase of one, scan of the next), a recipient that is gone while another
speaks, and a newcomer beside a member; the auth connection is a third element of the same vector.
One unread packet per client suffices for every handler since a visit handles one; two, with
`MaxCoalesce = 2`, add packets lost with their buffer. Replies from clients (`ClientReplies`,
`RepliesAbout`) are in `chat_link` and `system` only, and there of the kind that authorises, about
the client itself, nobody and (in `chat_link`) the auth server's socket: in the other instances they
would multiply the states of the same handlers. The theorems have all kinds from all clients about
all sockets in every one of them. `FdSetSize` is 64 as in winsock2.h, out of
reach of these instances. In `auth_tables`, two emails that can be registered are the least with a
second account beside a first, and three ends of the process leave orphans before, between and after
them; one connection suffices, since one thread handles one request at a time and the tables do not
know connections. In `auth_loop`, two connections are the least with an element skipped by an erase;
there a single account is enough. In `system`, one client with two requests under way has all that
`ChatServer` can tell of the auth server: a second request behind the one in hand, one lost with
another's buffer, an answer on its way while the next is handled, and an end of either server
before, between and after the statements of each. What depends on the requester's handle with two
clients is left to the theorems, which have any number: with two clients the instance is too large
to check. In `framing`, three packets are the least with one behind two that share a `recv()`; the
texts are on either side of each comparison (24 bytes fill the buffer, 48 both calls), and a cut of
9 bytes divides a header and leaves rests that are read as headers. The claim about it has the
code's own 512. In `client`, four inputs are two lines, or a line, a backspace and a line that
leaves, or two keys between two packets; the leave word has one character, so that the first token,
a command and a text all fit in them. A buffer of 2 and packets of 1, 2, 3 and 5 cells are on either
side of each comparison (a buffer, two buffers), and two packets are the least with one lost behind
another, or read from its middle. Deadlock is checked in
every run; `Stopped` is the stutter of a server that has ended.

Fairness (`FairSpec`). `WF_vars(Server)`: the thread is a `while (true)` that never waits when
something is readable (`NeverBlocks` is checked, not assumed), so its next step is eventually taken.
It is one condition for the whole thread, not one per handler or socket: that nobody starves must
come from the scan's order. `WF_vars(AuthServerAnswers)`: the auth server is the same kind of loop
on one connection. In `AuthServer` the one condition is `WF_vars(Server)`, for the same reason; a
process that was ended need not be started again (`RequestsAreAnswered` promises nothing then).
Nothing is assumed of clients. In `Client` it is `WF_vars(Thread)`, a loop that waits nowhere but
for a rest, and `WF_vars(Deliver)`: TCP delivers what was sent unless the connection breaks. In
`PacketFraming` the same two: `WF_vars(Network)`, `WF_vars(Receiver)`. In `ChatSystem`,
`WF_systemVars(ChatThread)` and `WF_systemVars(AuthThread)`, one each for two processes, and
`WF_systemVars(RequestArrives)`, TCP again; clients, kills and faults have none.
`LoginIsAnsweredInTheEnd` names the cases in which no answer comes: the reply behind another in one
`recv()` is thrown away with the buffer (hazard at line 296).

### Statements the code does not keep

* `ValidatedRoomConverts`: the digit check accepts the empty argument, `stoi` then throws (592,
  610).
* `LeavingIsHarmless`: a client that resets its connection ends the service if something is sent to
  it before its own turn (299, 1001). The outage is always due to a connection still listed, which
  `OutageHasLivingCause` checks.
* `HandledIsEntire`: "We must receive the entire packet before we can handle the message" (353; auth
  server 442), but the second `recv()` takes 512 bytes and is not repeated. The server itself sends
  longer ones: a greeting is 169 bytes and a welcome mat, and mats 3, 5 and 9 of the 23 have 1058,
  859 and 936 characters. The client shows such a greeting without its end and takes that end for
  the next header (the README of the program: "SOMETIMES the client doesn't start up right"). In
  `Client` these are the packets of more than two buffers, and what comes of them is `Stuck`: the
  size read from text is huge, the second `recv()` waits for it, and the keyboard with it.
  `OnlyDisorderStops` says what it takes to come there: such a packet, one that came in parts, or
  two that shared a `recv()`.

Seen and not worth a run of their own, though the models show the first four: the type of the
leaver's message is not assigned, so that "You have left" may not be shown (718, 719); `result` is
overwritten by the next room's broadcast, so that a failure passes unnoticed (414, 1001);
connections beyond FD_SETSIZE are accepted and never read (258, 262); `GetAccount` never returns its
-2 "for a server error", the statement throws (auth server 102, 140). The client frees `info` and
closes its socket twice after an error (313–315 and 363–365); it prints that it is connected
whatever `connect()` answered (98–106); the second code of a special key is taken for a character;
it goes on without end when the server has closed (299). The result of the server's own `connect()`
is not tested (98), the socket created before it is, and it never connects again; the servers'
shared port is `DEFAULT_PORT + 1`, which is the string `"412"` and not 8413 (78; 247 in the auth
server), the same in both; the hint of line 185 names `!authorize` where the command is
`!authenticate`; joining a room again announces it again; the server never closes a client's handle.
The last looks like a leak only, but `NoInheritedLogin` rests on it: with the handle closed and
reused, `authedUsers` would authorise a stranger (this is that property's mutant).

## Proofs

Every theorem below holds for all values of the constants that satisfy `NoNameAssumption` (the empty
name is no nickname), `ChatServerAssumption` (which socket is which, and that bounds are natural
numbers), `AuthServerAssumption` (the same for the auth server, and that the null values are none),
`ClientAssumption` (the keys are apart from the characters, the leave word is a command),
`FramingAssumption` (above) and `SystemAssumption` (the auth server's again, and that the chat
server has found its auth server when it started). No bound is used beyond that: any number of
clients, rooms, packets, bytes, keys, requests and crashes.

**`VectorFacts`.** What was erased, appended or is left of a vector, and induction. The library's
induction theorems take a predicate as a parameter, which the provers cannot instantiate;
`NatSetInduction` takes a **set** in its place: whatever contains 0, and n + 1 with n, contains all
natural numbers. The community modules define `FoldLeft` by a function over the subsets of its
indices; `FoldExists` shows that there is such a function, for any steps, and `SameSteps` that it
has one value. From these, `Total` (framing) and `Edited` (client) are computed element by element.

**`SessionRegistryProofs`.** `RegistryInv` is the conjunction of `RegistryTypeOK`, `NoDuplicates`,
`NoPhantomMember` and `NoLostMember`. None of them is inductive alone: `removeFromRoom` erases one
copy from a room's vector, so that nobody is left behind needs `NoDuplicates`; that `addToRoom`
makes no duplicate in the room's vector, although it looks only into the user's list, needs
`NoPhantomMember`; and that purging a user by its own list leaves no copy elsewhere needs
`NoPhantomMember` again. Theorems: `RegistryTypeCorrect`, `RegistryNoDuplicates`,
`RegistryMapsAgree`, `RegistryLosesNobody`.

`RegistryLeavesOthersAlone` is the action property `OthersUndisturbed`: a call about one socket
keeps the others' names and rooms, and the order in which each room lists them
(`AppendKeepsOrder`, `EraseFirstKeepsOrder`).

**`ChatServerProofs`.** `CoreInv` adds to `RegistryInv`: `activeConnections` holds distinct open
handles (`ConnectionsOK`), it and `userinfo_map` hold the same clients (`UsersAreConnections`),
members are entitled (`MembersAreEntitled`), every login in the queues is of a socket that asked,
and every authorisation is of one that asked or that a client's packet has named
(`LoginsWereAsked`). The twenty actions are first reduced to what they can
do to the registry and to the vectors (`Effect`, eight cases; `StepEffect`), to the scan
(`ScanEffect`) and to the queues (`QueueEffect`); each conjunct is then proved against the cases.

* `LoopKeepsContract`: every step of the loop is a call the class's contract allows, or none, or
  `LinkPurge`. The unchecked `find()` of `removeFromRoom` is safe wherever the loop calls it but for
  the auth server's socket at line 312.
* `LoopImplementsRegistry`: where that connection is not lost (`LinkFaults = {}`), `Spec =>
  RegistrySpec`, and what is proved of the registry alone holds in the server. With faults the
  registry's invariant holds too: it is part of `CoreInv`.
* `UsersAlwaysConnections`, `MembersAlwaysEntitled`.

The scan. The strengthening is `ReadyIsReadable`: an element of the ready set
**from the index on** is readable, and the listening socket, if in the set, has a caller waiting. It
is false of the whole ready set, because of the `continue` paths; they are harmless only because the
index has passed what they leave. Erasing the visited element moves the rest one place forward
(`ErasedShift`), so that an element may be skipped, but none is visited that was not ready. Peers
never make a readable socket unreadable (`PeerEffect`).

* `ThreadNeverBlocks`: no `recv()` and no `accept()` is called that would wait.
* `LoginsAreNotInherited`: nobody is authorised by, or gets the answer to, somebody else's login,
  unless a client's packet has named it (`rumours`).
* `ChatTypeCorrect`: with it that `count` never goes below zero (`CountOK`).

**`ChatServerTrafficProofs`.** Each visit is shown to send only messages of the set `Spoken`:
private with respect to the membership the visit **ends** with, and addressed to sockets that were
active when it **began**. The first half is delicate where a handler sends before it changes the
membership (join) and where it sends after (leave, departure): both are right only since the vector
of the room has no duplicates, which is `RegistryInv`'s. The second half says which connection can
make a send fail (`OutageCause`). For announcements, `Told` relates the vectors of one room before
and after a step to the message; `JoinTold`, `LeaveTold` and `DepartureTold` are its three cases.

* `RoomsArePrivate`, `TheGoneEndNothing`, `ChangesAreAnnounced`.

**`ChatSystemProofs`.** Every step of the instance of `AuthServer` keeps `AuthProofs!AuthInv` and
its `ScanInv`: these facts are cited, not proved again. `AuthEffect` then says what a step means for
the connection: it takes requests, it gives the answer to the one in hand, it ends, or none of
these. `LinkInv` ties `taken` to the request in hand (`TakenInHand`) and an answer to the end of a
visit (`AnswerIsLast`, without which one answer could be given twice). With them `ServerEffect` and
`LinkEffect` map each step to one of `ChatServer`, three queues to its one.

* `SystemImplementsChatServer`: `SystemSpec => ImplementsChatServer`. What is proved of `ChatServer`
  with its simple auth server holds of the two programs.
* `NewsIsTrue`, `TheAuthorisedAreKnown`. Their invariant is `OffersInv`: a request anywhere between
  the servers is `Backed` (its connection has sent it and still has the handle), a good reply on its
  way is `Earned` (its connection has sent a request with an account that exists), and an
  authorisation is `Earned` or was said by a client (`Deserved`). From `Backed` to `Earned` it takes
  `RequestHasAccount` of the auth server's invariant; that it stays, `AccountsStay`.

**`ClientProofs`.** `StreamInv` says how packets lie in the stream: the cells of one behind its
header, the next behind them, numbers rising from header to header. `Ordered`: what has been shown
comes before whatever is still to be received, and before the packet whose rest is awaited; without
the latter the theorem would fail where a short packet overtakes a long one. `RestInv`: that packet
is longer than the buffer, and fills it or is torn. `OrderInv`: as long as nothing was torn, crowded
or too long, each first `recv()` begins with a header; `OnlyDisorderStops` is not inductive without
it.

* `ClientIsTyped`, `TextsComeOnceInOrder`, `OnlyLossesCutTexts`, `TheThreadStopsInDisorderOnly`.
* `LinesComeAsTyped`. `Edited` replays all keys read so far; one key more does to it what the main
  loop does to `userInputBuffer` and the socket (`EditedGrows`), so that the two agree (`LinesInv`).

**`PacketFramingProofs`.** First that `buffer.h` reads back what it writes (`BigEndian4IsRead` and
its like), so that a vector that starts with a packet is handled as the message it was made of
(`HeaderIsRead`, `TextIsRead`, `HandleEntire`). Then where the packets end in the stream of all
bytes ever sent: `EndOf(sent, k)`, a sum that rises by at least a header with each packet
(`EndsRise`). `FramingInv` says that, as long as the stream is orderly, there are numbers g and a
such that `buffer` and `arrived` together are the bytes of the packets g + 1 to a, and `flight`
those of the rest (`Lengths`, `Contents`); that what is unread fits the buffer or is one packet for
two `recv()` calls (`Limited`); and that in the second `recv()` there is that one packet only, with
some of it still to be read (`Halfway`). `RestIsThere` alone is not inductive, and neither is
`FramingTypeOK`: that the network can deliver the next packet needs the bytes in flight to start
with one. TLC has checked `FramingInv` on the instance of run `framing`.

* `FramingImplementsQueue`: `Spec => ImplementsQueue`. Each action sends a packet, or reads the
  packets up to a and handles the first of them, or is a stutter (`OrderlyStep`); `Gone` is the g of
  the invariant (`GoneIs`).
* `RestIsAlwaysThere`, `FramingTypeInvariant`.

**`AuthServerProofs`.** `AccountsHaveUsers` and `AccountsAreDistinct` say nothing of the states
between two statements, so `AuthInv` adds what each statement may rely on (`StatementOK`: from the
lookup to the second INSERT the email stays free; after the first INSERT the greatest id is
nobody's; before a reply the row of the request is in the table), that ids are consecutive
(`IdsConsecutive`, which makes the greatest id the one just inserted), and that a user without
account was never marked (`OrphansUnseen`, without which a new account would not start unseen).

* `ServerIsStore`: `Spec => ImplementsStore`, the refinement of `AccountStore`. `InsertAccount` is
  `Register`, `UpdateUser` is `Mark`, each reply is a true `Say`, all else is a stutter or the end
  of an answer.
* `AccountsAlwaysHaveUsers`, `AccountsAlwaysDistinct`, `AuthTypesCorrect`.
* `AuthThreadNeverBlocks`. `ScanInv` is about the positions whose `recv()` is still to come
  (`PendingReadable`): `count` and the ready set are stale from the first visit on, but only behind
  the index, and while a request is handled the index stands on a socket that has been received from
  already.
* `OrphansAlwaysCrashes`: users without an account are counted against ends of the process; only
  `InsertUser` adds one, which `InBetween` stands for until the account comes or the process has
  ended.

**Only model-checked.** `EveryoneIsServed`, `CallersAreAccepted`, `RequestsAreAnswered`,
`PacketsAreRead`, `KeysAreHeard` and `LoginIsAnsweredInTheEnd`: liveness under fairness, which this
prover does not do. Every invariant and every action property that a passing run checks is a
theorem.

## Not modelled

* start-up of the programs beyond `connect()`: a failing Winsock call exits the program;
* the welcome mats: a parser run once over one file before the server listens, deterministic and
  without state afterwards, so that a unit test reaches all of it; what its mats do to the framing
  is in `claim_whole_packet`;
* the error path of `select()`: in the models it comes only after `StopServing`, when everything
  fails and nothing changes any more;
* a `send()` that waits because its receiver does not read: send buffers are not modelled, every
  send returns;
* how the client draws its lines, and what it does when one is longer than the console is wide;
* a database that cannot be reached when the auth server starts;
* SHA-256 (`sha256.cpp`), third-party, which enters as equality of salt and password;
* the generated protobuf code, and the vendored Protocol Buffers and MySQL Connector below
  `src/dev/include`: some 275 000 of the repository's 278 000 lines of C++. The system itself has
  about 3 000, and the mapped definitions stand for most of what in them is not drawing, wording or
  start-up.

## Plan

1. `ChatSystem` with two clients, in a reduced form that TLC finishes: the chat server's commands
   other than accounts cut away.
2. An abstract chat (rooms as sets, delivery to members) that `ChatServer` implements, for which
   `ChatServerTrafficProofs` has most lemmas.
3. `WelcomeMats` against a reference definition, if the file's format should ever change.
