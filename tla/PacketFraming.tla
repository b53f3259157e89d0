--------------------------- MODULE PacketFraming ---------------------------
(***************************************************************************)
(* How packets cross a TCP connection: the sender's buildBuffer and send,  *)
(* and the receiver's two recv() calls, which main_server_select.cpp,      *)
(* main_auth_server.cpp and main_client.cpp have in the same form.  Bytes  *)
(* are numbers; a packet is its size (big endian, 4 bytes), its type (big  *)
(* endian, 2), the length of its text (little endian, 4) and the text.     *)
(*                                                                         *)
(* TCP keeps the bytes in order but not the packets apart: a recv() finds  *)
(* whatever part of the stream has arrived.  A stream is orderly as long   *)
(* as a packet arrives in one piece, packets that wait together fit the    *)
(* buffer together, and none is longer than the two recv() calls take.     *)
(*                                                                         *)
(* Reading or writing past the end of a vector is undefined: the process   *)
(* dies or goes on, with some text that is no packet's.  Connection errors *)
(* are in ChatServer, AuthServer and Client.                               *)
(***************************************************************************)
EXTENDS Integers, Sequences, FiniteSets, SequencesExt

CONSTANTS
    BufSize,      \* bufSize: 512 in the code
    Message,      \* what the sender may send: [type, text]
    KnownTypes,   \* message types the receiver acts on
    NoText,       \* a text read from outside the buffer
    MaxAlloc,     \* the longest vector there is memory for
    Cuts,         \* bound: how many bytes of a packet may arrive early
    MaxSent       \* bound: packets sent in all

Byte == 0 .. 255

HeaderSize == 10

(* A message type is sent in two bytes. *)
TypeCode == 1 .. 65535

(* A uint32_t, as which the size is written. *)
FitsIn4(n) == n \div 16777216 \in Byte

(* There is memory for what two recv() calls take.                         *)
ASSUME FramingAssumption ==
    /\ BufSize \in Nat /\ BufSize > HeaderSize
    /\ Message \subseteq [type : TypeCode, text : Seq(Byte)]
    /\ \A m \in Message : FitsIn4(HeaderSize + Len(m.text))
    /\ \A m \in Message : m.text # NoText
    /\ \A m \in Message : m.type \in KnownTypes
    /\ 0 \notin KnownTypes
    /\ MaxAlloc \in Nat /\ MaxAlloc >= 2 * BufSize
    /\ Cuts \subseteq Nat \ {0}
    /\ MaxSent \in Nat

VARIABLES
    sent,      \* history: the packets sent
    flight,    \* bytes on their way
    arrived,   \* bytes a recv() would find
    open,      \* whether the sender has not closed its end
    phase,     \* the receiver: before select(), in the second recv(), or gone
    buffer,    \* what the first recv() left in m_BufferData
    handled,   \* history: the packets handled
    orderly    \* history: whether the stream has been orderly so far

vars == <<sent, flight, arrived, open, phase, buffer, handled, orderly>>

-----------------------------------------------------------------------------
(* buffer.h, and buildBuffer. *)

BigEndian4(n) == <<n \div 16777216, (n \div 65536) % 256, (n \div 256) % 256, n % 256>>

BigEndian2(n) == <<n \div 256, n % 256>>

LittleEndian4(n) == <<n % 256, (n \div 256) % 256, (n \div 65536) % 256, n \div 16777216>>

ReadBigEndian4(b) == 16777216 * b[1] + 65536 * b[2] + 256 * b[3] + b[4]

ReadBigEndian2(b) == 256 * b[1] + b[2]

ReadLittleEndian4(b) == b[1] + 256 * b[2] + 65536 * b[3] + 16777216 * b[4]

Size(m) == HeaderSize + Len(m.text)

Packet(m) ==
    BigEndian4(Size(m)) \o BigEndian2(m.type) \o LittleEndian4(Len(m.text)) \o m.text

(* A vector that recv() filled from its start: resize() has zeroed the     *)
(* rest.  Only the first bytes are listed, a vector may be very long.      *)
Bytes(content, first, last) ==
    [k \in 1 .. last - first + 1 |->
        IF first + k - 1 \in DOMAIN content THEN content[first + k - 1] ELSE 0]

PacketSize(content) == ReadBigEndian4(Bytes(content, 1, 4))

-----------------------------------------------------------------------------
(* The sender and the network. *)

Unread == Len(flight) + Len(arrived) + Len(buffer)

(* What the sender may do to keep the stream orderly. *)
FitsIn(m) ==
    \/ Unread + Size(m) <= BufSize
    \/ Unread = 0 /\ Size(m) <= 2 * BufSize

Send(m) ==
    /\ open /\ Len(sent) < MaxSent
    /\ sent' = Append(sent, m)
    /\ flight' = flight \o Packet(m)
    /\ orderly' = (orderly /\ FitsIn(m))
    /\ UNCHANGED <<arrived, open, phase, buffer, handled>>

Deliver(n) ==
    /\ arrived' = arrived \o SubSeq(flight, 1, n)
    /\ flight' = SubSeq(flight, n + 1, Len(flight))
    /\ UNCHANGED <<sent, open, phase, buffer, handled>>

DeliverPacket ==
    /\ flight # <<>> /\ orderly
    /\ Deliver(PacketSize(flight))
    /\ UNCHANGED orderly

DeliverPart ==
    \/ \E n \in Cuts : n < Len(flight) /\ Deliver(n) /\ orderly' = FALSE
    \/ ~orderly /\ flight # <<>> /\ Deliver(Len(flight)) /\ UNCHANGED orderly

Close ==
    /\ open /\ open' = FALSE
    /\ UNCHANGED <<sent, flight, arrived, phase, buffer, handled, orderly>>

-----------------------------------------------------------------------------
(* The receiver. *)

Taken == SubSeq(arrived, 1, IF Len(arrived) < BufSize THEN Len(arrived) ELSE BufSize)

TakeArrived == arrived' = SubSeq(arrived, Len(Taken) + 1, Len(arrived))

VectorSize(content) ==
    IF PacketSize(content) > BufSize THEN PacketSize(content) ELSE BufSize

Crash == phase' = "crashed" /\ UNCHANGED handled

(* Mutant: an unknown type is handled like the known ones. *)
HandlePacket_anyType(content) ==
    LET length == ReadLittleEndian4(Bytes(content, 7, 10)) IN
    /\ length <= VectorSize(content) - HeaderSize
    /\ phase' = "select"
    /\ handled' = Append(handled, [type |-> ReadBigEndian2(Bytes(content, 5, 6)),
                                   text |-> Bytes(content, 11, HeaderSize + length)])

(* The message as the handlers read it: type, length, text. *)
HandlePacket(content) ==
    LET type == ReadBigEndian2(Bytes(content, 5, 6))
        length == ReadLittleEndian4(Bytes(content, 7, 10))
        outside == length > VectorSize(content) - HeaderSize
        text == IF outside THEN NoText ELSE Bytes(content, 11, HeaderSize + length)
    IN  \/ /\ phase' = "select"
           /\ handled' = IF type \in KnownTypes
                         THEN Append(handled, [type |-> type, text |-> text])
                         ELSE handled
        \/ type \in KnownTypes /\ outside /\ Crash

(* Mutant: `>=` for `>`. *)
NeedsRest_orEqual(content) == PacketSize(content) >= BufSize

(* packetSize > buffer.m_BufferData.size() *)
NeedsRest(content) == PacketSize(content) > BufSize

(* The first recv().  resize() throws when there is no memory. *)
Receive ==
    /\ phase = "select" /\ arrived # <<>>
    /\ TakeArrived
    /\ \/ ~NeedsRest(Taken) /\ HandlePacket(Taken) /\ UNCHANGED buffer
       \/ NeedsRest(Taken) /\ VectorSize(Taken) <= MaxAlloc
          /\ buffer' = Bytes(Taken, 1, BufSize) /\ phase' = "rest" /\ UNCHANGED handled
       \/ NeedsRest(Taken) /\ VectorSize(Taken) > MaxAlloc /\ Crash /\ UNCHANGED buffer
    /\ UNCHANGED <<sent, flight, open, orderly>>

(* Mutant: the rest is read to the start of the buffer. *)
Rest_atStart == Taken \o SubSeq(buffer, Len(Taken) + 1, BufSize)

(* &buffer.m_BufferData[512] *)
Rest == buffer \o Taken

(* Mutant: MSG_WAITALL: it waits until there is as much as it asks for. *)
ReceiveRest_waitsAll ==
    /\ phase = "rest" /\ (Len(arrived) >= BufSize \/ (flight = <<>> /\ ~open))
    /\ TakeArrived
    /\ buffer' = <<>>
    /\ HandlePacket(Rest)
    /\ UNCHANGED <<sent, flight, open, orderly>>

(* The second recv().  It waits when nothing is there, its result is not   *)
(* looked at, and the room for it is not either.                           *)
ReceiveRest ==
    /\ phase = "rest" /\ (arrived # <<>> \/ (flight = <<>> /\ ~open))
    /\ TakeArrived
    /\ buffer' = <<>>
    /\ \/ HandlePacket(Rest)
       \/ Len(Rest) > VectorSize(Rest) /\ Crash
    /\ UNCHANGED <<sent, flight, open, orderly>>

(* recv() answers 0: the server forgets the connection. *)
ReceiveEnd ==
    /\ phase = "select" /\ arrived = <<>> /\ flight = <<>> /\ ~open
    /\ phase' = "over"
    /\ UNCHANGED <<sent, flight, arrived, open, buffer, handled, orderly>>

-----------------------------------------------------------------------------
Init ==
    /\ sent = <<>> /\ flight = <<>> /\ arrived = <<>> /\ open = TRUE
    /\ phase = "select" /\ buffer = <<>> /\ handled = <<>> /\ orderly = TRUE

Network == DeliverPacket \/ DeliverPart

Receiver == Receive \/ ReceiveRest \/ ReceiveEnd

Stopped == phase \in {"over", "crashed"} /\ UNCHANGED vars

Next == (\E m \in Message : Send(m)) \/ Network \/ Close \/ Receiver \/ Stopped

Spec == Init /\ [][Next]_vars

(* TCP delivers, and the receiver is a loop around select(). *)
FairSpec == Spec /\ WF_vars(Network) /\ WF_vars(Receiver)

-----------------------------------------------------------------------------
(* Properties. *)

(* Types of the streams and of the receiver's state. *)
FramingTypeOK ==
    /\ sent \in Seq(Message)
    /\ flight \in Seq(Byte) /\ arrived \in Seq(Byte)
    /\ open \in BOOLEAN /\ orderly \in BOOLEAN
    /\ phase \in {"select", "rest", "over", "crashed"}
    /\ buffer \in Seq(Byte) /\ Len(buffer) \in {0, BufSize}
    /\ phase = "rest" <=> buffer # <<>>
    /\ handled \in Seq([type : KnownTypes, text : Seq(Byte) \cup {NoText}])

(* The second recv() finds the rest of its packet there: nothing but the   *)
(* size in the header says that it may be called.                          *)
RestIsThere == orderly /\ phase = "rest" => arrived # <<>>

(* How many of the packets sent have been read in full: of whose bytes     *)
(* none is among the unread ones at the end of the stream.                 *)
AddSize(n, m) == n + Size(m)

Total(packets) == FoldLeft(AddSize, 0, packets)

Gone == Cardinality({k \in DOMAIN sent : Total(SubSeq(sent, 1, k)) + Unread <= Total(sent)})

Queue == INSTANCE PacketQueue WITH gone <- Gone, MaxCoalesce <- BufSize \div HeaderSize

(* The bytes of an orderly stream come out as the packets that went in:    *)
(* whole, in order, and none lost but behind another in one recv().        *)
ImplementsQueue == Queue!QueueSpec

(* Every packet of an orderly stream is read at some time. *)
PacketsAreRead ==
    \A n \in 1 .. MaxSent :
        (Len(sent) >= n) ~> (Gone >= n \/ ~orderly)
=============================================================================
