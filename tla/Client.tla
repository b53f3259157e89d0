------------------------------- MODULE Client -------------------------------
(***************************************************************************)
(* The chat client (TCPClient/main_client.cpp): one thread that takes turns *)
(* between the keyboard and the connection.  A turn of the loop is two     *)
(* actions: a key is read, and what it completes is sent or obeyed; then   *)
(* select() waits for 100 microseconds, and what is there is received and  *)
(* shown.  A packet longer than the buffer costs a third action, since the *)
(* recv() for the rest of it waits until something has come.               *)
(*                                                                         *)
(* Abstracted.  A packet of the server is a number, its place in `said`,   *)
(* which has its type and its size.  The stream is made of cells, of which *)
(* the buffer holds BufSize; a packet is a whole number of cells, and its  *)
(* header is in the first (PacketFraming has the headers that arrive in    *)
(* parts).  TCP may deliver the cells one by one or many at a time, and a  *)
(* recv() may begin in the middle of a packet, where the client takes text *)
(* for a header: four characters are a size larger than any buffer, and    *)
(* two are no message type.  Drawing is left out, and so is the branch for *)
(* WSAEMSGSIZE, which a stream socket never reports.                       *)
(***************************************************************************)
EXTENDS Integers, Sequences, FiniteSets, SequencesExt

CONSTANTS
    Char,          \* codes 32 to 126
    Space,
    Bang,          \* commandstarter
    LeaveWord,     \* "!dc"
    BufSize,       \* what one recv() may take, in cells
    Sizes,         \* bound: sizes of packets, in cells
    ServerFaults,  \* what may happen to the connection
    WireAtStart,   \* how connect() may have ended: its result is not tested
    MaxSaid,       \* bound: packets the server sends in all
    MaxInputs      \* bound: keys pressed and packets sent in all

(* _getch() answers a key that is no character with one code or with two,  *)
(* the second of which the client takes for a character.                   *)
Key == Char \cup {"backspace", "enter", "other"}

Faults == {"close", "reset"}

ASSUME ClientAssumption ==
    /\ Space \in Char /\ Bang \in Char
    /\ Char \cap {"backspace", "enter", "other"} = {}
    /\ LeaveWord \in Seq(Char \ {Space}) /\ LeaveWord # <<>> /\ LeaveWord[1] = Bang
    /\ BufSize \in Nat \ {0}
    /\ Sizes \subseteq Nat \ {0} /\ 1 \in Sizes
    /\ ServerFaults \subseteq Faults
    /\ WireAtStart \subseteq {"open", "unconnected"}
    /\ MaxSaid \in Nat
    /\ MaxInputs \in Nat

VARIABLES
    userInputBuffer,
    phase,       \* where the thread is
    begun,       \* the first cell in the buffer while the second recv() waits, or 0
    taken,       \* how many cells of the stream have been received
    keyboard,    \* keys pressed and not read
    wire,        \* the connection, as the server left it
    said,        \* packets the server has sent
    stream,      \* their cells
    came,        \* how many of the cells have arrived
    read,        \* history: the keys read
    outbox,      \* history: lines the connection has taken
    shown,       \* history: packets shown, and whether they were complete
    torn,        \* history: packets of which a recv() found the start only
    crowded      \* history: whether a recv() took cells of two packets

loopVars == <<userInputBuffer, phase, begun>>
recvVars == <<taken, torn, crowded>>
netVars == <<wire, said, stream, came>>
vars == <<loopVars, recvVars, keyboard, netVars, read, outbox, shown>>

Over == phase \in {"left", "crashed"}

-----------------------------------------------------------------------------
(* The keyboard. *)

Broken == wire = "reset"

FirstToken(line) ==
    LET ends == {k \in DOMAIN line : line[k] = Space} IN
    IF ends = {} THEN line
    ELSE SubSeq(line, 1, (CHOOSE k \in ends : \A j \in ends : k <= j) - 1)

(* Mutant: a line that is no command is given no type. *)
Outgoing_untyped(line) == [type |-> IF line[1] = Bang THEN 2 ELSE 0, text |-> line]

(* Message type 2 is a command. *)
Outgoing(line) == [type |-> IF line[1] = Bang THEN 2 ELSE 1, text |-> line]

ReadKey(key) ==
    /\ phase = "input" /\ keyboard # <<>> /\ key = Head(keyboard)
    /\ keyboard' = Tail(keyboard)
    /\ read' = Append(read, key)
    /\ UNCHANGED <<begun, recvVars, netVars, shown>>

TypeChar ==
    \E c \in Char :
        /\ ReadKey(c)
        /\ userInputBuffer' = Append(userInputBuffer, c)
        /\ phase' = "select" /\ UNCHANGED outbox

(* Mutant: the other end is erased. *)
Backspace_front ==
    /\ ReadKey("backspace") /\ userInputBuffer # <<>>
    /\ userInputBuffer' = Tail(userInputBuffer)
    /\ phase' = "select" /\ UNCHANGED outbox

Backspace ==
    /\ ReadKey("backspace") /\ userInputBuffer # <<>>
    /\ userInputBuffer' = Front(userInputBuffer)
    /\ phase' = "select" /\ UNCHANGED outbox

IgnoreKey ==
    /\ \/ ReadKey("other")
       \/ userInputBuffer = <<>> /\ (ReadKey("backspace") \/ ReadKey("enter"))
    /\ phase' = "select" /\ UNCHANGED <<userInputBuffer, outbox>>

(* The result of the send is not looked at: a line that cannot be sent is  *)
(* cleared like the others.                                                *)
SendLine ==
    /\ ReadKey("enter") /\ userInputBuffer # <<>>
    /\ FirstToken(userInputBuffer) # LeaveWord
    /\ outbox' = IF wire = "open" THEN Append(outbox, Outgoing(userInputBuffer)) ELSE outbox
    /\ userInputBuffer' = <<>>
    /\ phase' = "select"

(* `break`, and what follows the loop. *)
Leave ==
    /\ ReadKey("enter") /\ userInputBuffer # <<>>
    /\ FirstToken(userInputBuffer) = LeaveWord
    /\ phase' = "left" /\ UNCHANGED <<userInputBuffer, outbox>>

NoKey ==
    /\ phase = "input" /\ keyboard = <<>>
    /\ phase' = "select"
    /\ UNCHANGED <<userInputBuffer, begun, recvVars, keyboard, netVars, read, outbox, shown>>

-----------------------------------------------------------------------------
(* The connection. *)

KeyboardUnchanged == UNCHANGED <<userInputBuffer, keyboard, read, outbox>>

(* All that was sent before the end of the connection comes before it. *)
AtEnd == wire = "closed" /\ came = Len(stream) /\ taken = came

(* An unconnected socket is never readable. *)
Readable == Broken \/ taken < came \/ AtEnd

(* Mutant: select() is given no time limit, and goes on waiting. *)
SelectTimeout_never == phase = "select" /\ ~Readable /\ UNCHANGED vars

SelectTimeout ==
    /\ phase = "select" /\ ~Readable
    /\ phase' = "input"
    /\ UNCHANGED <<begun, recvVars, netVars, shown>> /\ KeyboardUnchanged

Size(i) == said[stream[i].packet].size

IsHeader(i) == stream[i].part = 1

(* A recv() into the buffer that begins with cell `first`: it takes what is *)
(* there, BufSize cells at most.                                           *)
Recv(first) ==
    /\ taken' = IF came <= taken + BufSize THEN came ELSE taken + BufSize
    /\ torn' = IF /\ taken < taken' /\ taken' < taken + BufSize
                  /\ stream[taken'].part < Size(taken')
               THEN torn \cup {stream[taken'].packet} ELSE torn
    /\ crowded' = (crowded \/ stream[taken'].packet # stream[first].packet)

(* Mutant: `>=` for `>` when the size is compared. *)
NeedsRest_orEqual(i) == ~IsHeader(i) \/ Size(i) >= BufSize

(* A size that is read from text is always too large. *)
NeedsRest(i) == ~IsHeader(i) \/ Size(i) > BufSize

(* Only message type 1 is shown. *)
Show(i, complete) ==
    LET p == stream[i].packet IN
    shown' = IF IsHeader(i) /\ said[p].type = 1
             THEN Append(shown, [packet |-> p, complete |-> complete]) ELSE shown

(* The first packet is handled, what was received behind it is gone.  The  *)
(* vector may fail to grow to a size read from text.                       *)
Receive ==
    /\ phase = "select" /\ ~Broken /\ taken < came
    /\ Recv(taken + 1)
    /\ \/ /\ NeedsRest(taken + 1)
          /\ phase' = "rest" /\ begun' = taken + 1 /\ UNCHANGED shown
       \/ /\ ~IsHeader(taken + 1)
          /\ phase' = "crashed" /\ UNCHANGED <<begun, shown>>
       \/ /\ ~NeedsRest(taken + 1)
          /\ phase' = "input" /\ Show(taken + 1, taken' >= taken + Size(taken + 1))
          /\ UNCHANGED begun
    /\ UNCHANGED netVars /\ KeyboardUnchanged

(* What the second recv() takes is put behind the first BufSize cells, also *)
(* if the first recv() took fewer.                                         *)
RestFits == ~IsHeader(begun) \/ BufSize + (taken' - taken) <= Size(begun)

Whole == taken = begun + BufSize - 1 /\ taken' >= begun + Size(begun) - 1

(* Mutant: the second recv() does not wait. *)
ReceiveRest_atOnce ==
    /\ phase = "rest"
    /\ IF Broken THEN UNCHANGED recvVars ELSE Recv(begun)
    /\ phase' = "input" /\ Show(begun, Whole)
    /\ begun' = 0 /\ UNCHANGED netVars /\ KeyboardUnchanged

(* The second recv() waits for a rest, whose sending it takes on trust.    *)
(* Its result is not looked at: a text whose rest is lost is shown without *)
(* it.  Nor is the room behind the buffer: writing past the end of the     *)
(* vector is undefined, and may end the process.                           *)
ReceiveRest ==
    /\ phase = "rest" /\ Readable
    /\ IF Broken THEN UNCHANGED recvVars ELSE Recv(begun)
    /\ \/ phase' = "input" /\ Show(begun, Whole)
       \/ ~RestFits /\ phase' = "crashed" /\ UNCHANGED shown
    /\ begun' = 0 /\ UNCHANGED netVars /\ KeyboardUnchanged

(* Mutant: the buffer is not a new one each time. *)
ReceiveEnd_stale ==
    /\ phase = "select" /\ AtEnd
    /\ phase' = "input"
    /\ shown' = IF shown = <<>> THEN shown ELSE Append(shown, Last(shown))
    /\ UNCHANGED <<begun, recvVars, netVars>> /\ KeyboardUnchanged

(* recv() answers 0, and nothing is done about it.  The new buffer is all  *)
(* zero, of size 0 and of message type 0.                                  *)
ReceiveEnd ==
    /\ phase = "select" /\ AtEnd
    /\ phase' = "input"
    /\ UNCHANGED <<begun, recvVars, netVars, shown>> /\ KeyboardUnchanged

(* The socket is closed and `info` freed, and after the `break` both are   *)
(* again: to free twice is undefined.                                      *)
ReceiveError ==
    /\ phase = "select" /\ Broken
    /\ phase' \in {"left", "crashed"}
    /\ UNCHANGED <<begun, recvVars, netVars, shown>> /\ KeyboardUnchanged

Thread ==
    \/ TypeChar \/ Backspace \/ IgnoreKey \/ SendLine \/ Leave \/ NoKey
    \/ SelectTimeout \/ Receive \/ ReceiveRest \/ ReceiveEnd \/ ReceiveError

-----------------------------------------------------------------------------
(* The user, the network and the server. *)

InputsLeft == Len(read) + Len(keyboard) + Len(said) < MaxInputs

Press ==
    /\ ~Over /\ InputsLeft
    /\ \E key \in Key : keyboard' = Append(keyboard, key)
    /\ UNCHANGED <<loopVars, recvVars, netVars, read, outbox, shown>>

(* What the server sends has type 1, but for one short message that may    *)
(* have any (ChatServer, LeaveRoom).                                       *)
ServerSays ==
    /\ ~Over /\ wire = "open" /\ Len(said) < MaxSaid /\ InputsLeft
    /\ \E type \in {0, 1}, size \in Sizes :
          /\ type = 0 => size = 1
          /\ said' = Append(said, [type |-> type, size |-> size])
          /\ stream' = stream \o [k \in 1 .. size |-> [packet |-> Len(said) + 1, part |-> k]]
    /\ UNCHANGED <<loopVars, recvVars, keyboard, wire, came, read, outbox, shown>>

Deliver ==
    /\ ~Over /\ ~Broken /\ came < Len(stream)
    /\ came' = came + 1
    /\ UNCHANGED <<loopVars, recvVars, keyboard, wire, said, stream, read, outbox, shown>>

(* A reset stands for every error: recv() tells none from the others, and  *)
(* what has not been received is lost.                                     *)
ServerFault ==
    /\ ~Over
    /\ \/ "close" \in ServerFaults /\ wire = "open" /\ wire' = "closed"
       \/ /\ wire = "closed" \/ ("reset" \in ServerFaults /\ wire = "open")
          /\ wire' = "reset"
    /\ UNCHANGED <<loopVars, recvVars, keyboard, said, stream, came, read, outbox, shown>>

-----------------------------------------------------------------------------
Init ==
    /\ userInputBuffer = <<>> /\ phase = "input" /\ begun = 0 /\ taken = 0
    /\ keyboard = <<>>
    /\ wire \in WireAtStart /\ said = <<>> /\ stream = <<>> /\ came = 0
    /\ read = <<>> /\ outbox = <<>> /\ shown = <<>> /\ torn = {} /\ crowded = FALSE

Stopped == Over /\ UNCHANGED vars

Next == Thread \/ Press \/ ServerSays \/ Deliver \/ ServerFault \/ Stopped

Spec == Init /\ [][Next]_vars

(* The thread goes on, and TCP delivers. *)
FairSpec == Spec /\ WF_vars(Thread) /\ WF_vars(Deliver)

-----------------------------------------------------------------------------
(* Properties. *)

(* Types of the thread's state and of the network's. *)
ClientTypeOK ==
    /\ userInputBuffer \in Seq(Char)
    /\ phase \in {"input", "select", "rest", "left", "crashed"}
    /\ keyboard \in Seq(Key) /\ read \in Seq(Key)
    /\ wire \in {"unconnected", "open", "closed", "reset"}
    /\ said \in Seq([type : {0, 1}, size : Sizes])
    /\ stream \in Seq([packet : DOMAIN said, part : Nat \ {0}])
    /\ came \in 0 .. Len(stream) /\ taken \in 0 .. came
    /\ begun \in 0 .. taken /\ (phase = "rest" <=> begun # 0)
    /\ outbox \in Seq([type : {1, 2}, text : Seq(Char)])
    /\ shown \in Seq([packet : DOMAIN said, complete : BOOLEAN])
    /\ torn \subseteq DOMAIN said /\ crowded \in BOOLEAN

(* A text is shown once and in its turn, also when recv() goes on to       *)
(* answer 0, and the loop to look into its buffer, for ever.               *)
ShownOnceInOrder ==
    \A j, k \in DOMAIN shown :
        /\ said[shown[k].packet].type = 1
        /\ j < k => shown[j].packet < shown[k].packet

TooLong(p) == said[p].size > 2 * BufSize

(* A text that two buffers hold is shown in part only if the connection    *)
(* broke meanwhile, or a recv() came before the network had delivered what *)
(* its buffer has room for.                                                *)
OnlyLossesAreIncomplete ==
    \A k \in DOMAIN shown :
        LET p == shown[k].packet IN
        shown[k].complete \/ Broken \/ TooLong(p) \/ p \in torn

(* The second recv() waits, and no more of the server has been sent. *)
Stuck == phase = "rest" /\ wire = "open" /\ taken = Len(stream)

(* The thread waits for what was never sent, or crashes on a connection    *)
(* that works, only after packets that two recv() calls cannot take, that  *)
(* came in parts, or that came together: not as long as every packet is    *)
(* short enough and is all that a recv() finds.                            *)
OnlyDisorderStops ==
    Stuck \/ (phase = "crashed" /\ ~Broken) =>
        crowded \/ torn # {} \/ \E p \in DOMAIN said : TooLong(p)

(* What a line editor makes of keys: the lines entered, and the one begun. *)
NothingTyped == [line |-> <<>>, lines |-> <<>>]

Typed(edit, key) ==
    CASE key \in Char -> [edit EXCEPT !.line = Append(@, key)]
      [] key = "backspace" /\ edit.line # <<>> -> [edit EXCEPT !.line = Front(@)]
      [] key = "enter" /\ edit.line # <<>> ->
            [line |-> <<>>, lines |-> Append(edit.lines, Outgoing(edit.line))]
      [] OTHER -> edit

Edited(keys) == FoldLeft(Typed, NothingTyped, keys)

(* The server gets what was typed, however the keys and the texts of the   *)
(* others come between each other: every line as long as the connection is *)
(* open, and afterwards none.  A line that says to leave is never sent.    *)
LinesArriveAsTyped ==
    LET lines == Edited(read).lines IN
    /\ IsPrefix(outbox, lines)
    /\ wire = "open" /\ phase # "left" => outbox = lines
    /\ phase # "left" => userInputBuffer = Edited(read).line
    /\ \A k \in DOMAIN outbox : FirstToken(outbox[k].text) # LeaveWord

(* Whatever the server does, every key is read in the end, and so the line *)
(* that says to leave, unless the second recv() comes to wait for what the *)
(* server has not sent.                                                    *)
KeysAreHeard == (keyboard # <<>>) ~> (keyboard = <<>> \/ Over \/ Stuck)
=============================================================================
