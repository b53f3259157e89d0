------------------------ MODULE PacketFramingProofs ------------------------
(***************************************************************************)
(* Proofs about PacketFraming: what buildBuffer writes is read back; an    *)
(* orderly stream is the packets sent, laid end to end, of which buffer,   *)
(* arrived and flight are consecutive parts that end where packets end     *)
(* (FramingInv); so the second recv() finds its rest, and the connection   *)
(* implements PacketQueue.                                                 *)
(***************************************************************************)
EXTENDS PacketFraming, VectorFacts, TLAPS

(* buffer.h reads the size of a packet back as it was written. *)
LEMMA BigEndian4IsRead ==
  ASSUME NEW n \in Nat, FitsIn4(n)
  PROVE  /\ BigEndian4(n) \in Seq(Byte) /\ Len(BigEndian4(n)) = 4
         /\ ReadBigEndian4(BigEndian4(n)) = n
<1>1. /\ n \div 16777216 \in 0 .. 255 /\ (n \div 65536) % 256 \in 0 .. 255
      /\ (n \div 256) % 256 \in 0 .. 255 /\ n % 256 \in 0 .. 255
  BY SMT DEF FitsIn4, Byte
<1>2. 16777216 * (n \div 16777216) + 65536 * ((n \div 65536) % 256)
        + 256 * ((n \div 256) % 256) + (n % 256) = n
  BY SMT
<1>3. BigEndian4(n) \in Seq(Byte) /\ Len(BigEndian4(n)) = 4
  BY <1>1, SMT DEF BigEndian4, Byte
<1>4. ReadBigEndian4(BigEndian4(n)) = n
  BY <1>2, SMT DEF BigEndian4, ReadBigEndian4
<1> QED BY <1>3, <1>4

(* The same of the length, which is the other way round. *)
LEMMA LittleEndian4IsRead ==
  ASSUME NEW n \in Nat, FitsIn4(n)
  PROVE  /\ LittleEndian4(n) \in Seq(Byte) /\ Len(LittleEndian4(n)) = 4
         /\ ReadLittleEndian4(LittleEndian4(n)) = n
<1>1. /\ n \div 16777216 \in 0 .. 255 /\ (n \div 65536) % 256 \in 0 .. 255
      /\ (n \div 256) % 256 \in 0 .. 255 /\ n % 256 \in 0 .. 255
  BY SMT DEF FitsIn4, Byte
<1>2. (n % 256) + 256 * ((n \div 256) % 256)
        + 65536 * ((n \div 65536) % 256) + 16777216 * (n \div 16777216) = n
  BY SMT
<1>3. LittleEndian4(n) \in Seq(Byte) /\ Len(LittleEndian4(n)) = 4
  BY <1>1, SMT DEF LittleEndian4, Byte
<1>4. ReadLittleEndian4(LittleEndian4(n)) = n
  BY <1>2, SMT DEF LittleEndian4, ReadLittleEndian4
<1> QED BY <1>3, <1>4

(* The same of the type. *)
LEMMA BigEndian2IsRead ==
  ASSUME NEW n \in TypeCode
  PROVE  /\ BigEndian2(n) \in Seq(Byte) /\ Len(BigEndian2(n)) = 2
         /\ ReadBigEndian2(BigEndian2(n)) = n
<1>1. n \div 256 \in 0 .. 255 /\ n % 256 \in 0 .. 255 /\ 256 * (n \div 256) + (n % 256) = n
  BY SMT DEF TypeCode
<1> QED BY <1>1 DEF BigEndian2, ReadBigEndian2, Byte

(* The readers look at so many bytes only. *)
LEMMA SameBytesSameNumber ==
  ASSUME NEW b, NEW c
  PROVE  /\ (\A i \in 1 .. 4 : b[i] = c[i]) => ReadBigEndian4(b) = ReadBigEndian4(c)
         /\ (\A i \in 1 .. 4 : b[i] = c[i]) => ReadLittleEndian4(b) = ReadLittleEndian4(c)
         /\ (\A i \in 1 .. 2 : b[i] = c[i]) => ReadBigEndian2(b) = ReadBigEndian2(c)
<1>1. ASSUME \A i \in 1 .. 4 : b[i] = c[i]
      PROVE  b[1] = c[1] /\ b[2] = c[2] /\ b[3] = c[3] /\ b[4] = c[4]
  BY <1>1
<1>2. ASSUME \A i \in 1 .. 2 : b[i] = c[i]
      PROVE  b[1] = c[1] /\ b[2] = c[2]
  BY <1>2
<1>3. (\A i \in 1 .. 4 : b[i] = c[i]) => ReadBigEndian4(b) = ReadBigEndian4(c)
  BY <1>1, SMT DEF ReadBigEndian4
<1>4. (\A i \in 1 .. 4 : b[i] = c[i]) => ReadLittleEndian4(b) = ReadLittleEndian4(c)
  BY <1>1, SMT DEF ReadLittleEndian4
<1>5. (\A i \in 1 .. 2 : b[i] = c[i]) => ReadBigEndian2(b) = ReadBigEndian2(c)
  BY <1>2 DEF ReadBigEndian2
<1> QED BY <1>3, <1>4, <1>5

(* Where the elements of two joined sequences are. *)
LEMMA Concatenation ==
  ASSUME NEW S, NEW a \in Seq(S), NEW b \in Seq(S)
  PROVE  /\ a \o b \in Seq(S) /\ Len(a \o b) = Len(a) + Len(b)
         /\ \A i \in 1 .. Len(a) : (a \o b)[i] = a[i]
         /\ \A i \in 1 .. Len(b) : (a \o b)[Len(a) + i] = b[i]
OBVIOUS

(* A message and the numbers in its packet. *)
LEMMA MessageType ==
  ASSUME NEW m \in Message
  PROVE  /\ m.type \in TypeCode /\ m.text \in Seq(Byte) /\ Len(m.text) \in Nat
         /\ m = [type |-> m.type, text |-> m.text]
         /\ Size(m) \in Nat /\ Size(m) = 10 + Len(m.text)
         /\ FitsIn4(Size(m)) /\ FitsIn4(Len(m.text))
<1>1. /\ m.type \in TypeCode /\ m.text \in Seq(Byte) /\ Len(m.text) \in Nat
      /\ m = [type |-> m.type, text |-> m.text]
  <2>1. m \in [type : TypeCode, text : Seq(Byte)]
    BY FramingAssumption
  <2> QED BY <2>1
<1>2. Size(m) \in Nat /\ Size(m) = 10 + Len(m.text)
  BY <1>1 DEF Size, HeaderSize
<1>3. FitsIn4(Size(m))
  BY FramingAssumption DEF Size
<1> DEFINE n == Len(m.text)
           k == Size(m)
<1>5. n \in Nat /\ k = 10 + n /\ FitsIn4(k)
  BY <1>1, <1>2, <1>3
<1> HIDE DEF n, k
<1>4. FitsIn4(n)
  BY <1>5, SMT DEF FitsIn4, Byte
<1> QED BY <1>1, <1>2, <1>3, <1>4 DEF n

(* Where the bytes of a packet are. *)
LEMMA PacketBytes ==
  ASSUME NEW m \in Message
  PROVE  /\ Packet(m) \in Seq(Byte) /\ Len(Packet(m)) = Size(m)
         /\ \A i \in 1 .. 4 : Packet(m)[i] = BigEndian4(Size(m))[i]
         /\ \A i \in 1 .. 2 : Packet(m)[4 + i] = BigEndian2(m.type)[i]
         /\ \A i \in 1 .. 4 : Packet(m)[6 + i] = LittleEndian4(Len(m.text))[i]
         /\ \A i \in 1 .. Len(m.text) : Packet(m)[10 + i] = m.text[i]
<1> DEFINE size == BigEndian4(Size(m))
           type == BigEndian2(m.type)
           length == LittleEndian4(Len(m.text))
           text == m.text
           head == size \o type
           header == head \o length
           packet == header \o text
<1>1. size \in Seq(Byte) /\ type \in Seq(Byte) /\ length \in Seq(Byte) /\ text \in Seq(Byte)
  BY MessageType, BigEndian4IsRead, BigEndian2IsRead, LittleEndian4IsRead
<1>2. /\ Len(size) = 4 /\ Len(type) = 2 /\ Len(length) = 4
      /\ Len(text) \in Nat /\ Size(m) = 10 + Len(text)
  BY MessageType, BigEndian4IsRead, BigEndian2IsRead, LittleEndian4IsRead
<1>3. Packet(m) = packet
  BY DEF Packet
<1> HIDE DEF size, type, length, text
<1>4. /\ head \in Seq(Byte) /\ Len(head) = Len(size) + Len(type)
      /\ \A i \in 1 .. Len(size) : head[i] = size[i]
      /\ \A i \in 1 .. Len(type) : head[Len(size) + i] = type[i]
  BY <1>1, Concatenation
<1> HIDE DEF head
<1>5. /\ header \in Seq(Byte) /\ Len(header) = Len(head) + Len(length)
      /\ \A i \in 1 .. Len(head) : header[i] = head[i]
      /\ \A i \in 1 .. Len(length) : header[Len(head) + i] = length[i]
  <2>1. head \in Seq(Byte)
    BY <1>4
  <2> QED BY <1>1, <2>1, Concatenation
<1> HIDE DEF header
<1>6. /\ packet \in Seq(Byte) /\ Len(packet) = Len(header) + Len(text)
      /\ \A i \in 1 .. Len(header) : packet[i] = header[i]
      /\ \A i \in 1 .. Len(text) : packet[Len(header) + i] = text[i]
  <2>1. header \in Seq(Byte)
    BY <1>5
  <2> QED BY <1>1, <2>1, Concatenation
<1> HIDE DEF packet
<1>7. Len(head) = 6 /\ Len(header) = 10 /\ Len(packet) = Size(m)
  BY <1>2, <1>4, <1>5, <1>6
<1>8. \A i \in 1 .. 4 : packet[i] = size[i]
  BY <1>2, <1>4, <1>5, <1>6, <1>7
<1>9. \A i \in 1 .. 2 : packet[4 + i] = type[i]
  BY <1>2, <1>4, <1>5, <1>6, <1>7
<1>10. \A i \in 1 .. 4 : packet[6 + i] = length[i]
  BY <1>2, <1>5, <1>6, <1>7
<1>11. \A i \in 1 .. Len(text) : packet[10 + i] = text[i]
  BY <1>6, <1>7
<1> QED BY <1>3, <1>6, <1>7, <1>8, <1>9, <1>10, <1>11 DEF size, type, length, text

(* What is read from a vector that starts with a packet, or with its       *)
(* header only.                                                            *)
LEMMA HeaderIsRead ==
  ASSUME NEW m \in Message, NEW content \in Seq(Byte), Len(content) >= 10,
         \A i \in 1 .. 10 : content[i] = Packet(m)[i]
  PROVE  /\ PacketSize(content) = Size(m)
         /\ ReadBigEndian2(Bytes(content, 5, 6)) = m.type
         /\ ReadLittleEndian4(Bytes(content, 7, 10)) = Len(m.text)
<1>1. \A i \in 1 .. 10 : i \in DOMAIN content
  OBVIOUS
<1>2. \A i \in 1 .. 4 : Bytes(content, 1, 4)[i] = BigEndian4(Size(m))[i]
  <2>1. \A i \in 1 .. 4 : Packet(m)[i] = BigEndian4(Size(m))[i]
    BY PacketBytes
  <2>2. \A i \in 1 .. 4 : i \in 1 .. 10
    OBVIOUS
  <2>3. \A i \in 1 .. 4 : Bytes(content, 1, 4)[i] = content[i]
    BY <1>1, <2>2 DEF Bytes
  <2> QED BY <2>1, <2>2, <2>3
<1>3. \A i \in 1 .. 2 : Bytes(content, 5, 6)[i] = BigEndian2(m.type)[i]
  <2>1. \A i \in 1 .. 2 : Packet(m)[4 + i] = BigEndian2(m.type)[i]
    BY PacketBytes
  <2>2. \A i \in 1 .. 2 : 4 + i \in 1 .. 10
    OBVIOUS
  <2>3. \A i \in 1 .. 2 : Bytes(content, 5, 6)[i] = content[4 + i]
    BY <1>1, <2>2 DEF Bytes
  <2> QED BY <2>1, <2>2, <2>3
<1>4. \A i \in 1 .. 4 : Bytes(content, 7, 10)[i] = LittleEndian4(Len(m.text))[i]
  <2>1. \A i \in 1 .. 4 : Packet(m)[6 + i] = LittleEndian4(Len(m.text))[i]
    BY PacketBytes
  <2>2. \A i \in 1 .. 4 : 6 + i \in 1 .. 10
    OBVIOUS
  <2>3. \A i \in 1 .. 4 : Bytes(content, 7, 10)[i] = content[6 + i]
    BY <1>1, <2>2 DEF Bytes
  <2> QED BY <2>1, <2>2, <2>3
<1>5. PacketSize(content) = Size(m)
  BY <1>2, SameBytesSameNumber, BigEndian4IsRead, MessageType DEF PacketSize
<1>6. ReadBigEndian2(Bytes(content, 5, 6)) = m.type
  BY <1>3, SameBytesSameNumber, BigEndian2IsRead, MessageType
<1>7. ReadLittleEndian4(Bytes(content, 7, 10)) = Len(m.text)
  BY <1>4, SameBytesSameNumber, LittleEndian4IsRead, MessageType
<1> QED BY <1>5, <1>6, <1>7

(* What is read from a vector that starts with an entire packet. *)
LEMMA TextIsRead ==
  ASSUME NEW m \in Message, NEW content \in Seq(Byte), Len(content) >= Size(m),
         \A i \in 1 .. Size(m) : content[i] = Packet(m)[i]
  PROVE  Bytes(content, 11, HeaderSize + Len(m.text)) = m.text
<1> DEFINE text == Bytes(content, 11, HeaderSize + Len(m.text))
<1>1. m.text \in Seq(Byte) /\ Len(m.text) \in Nat /\ Size(m) = 10 + Len(m.text)
  BY MessageType
<1>2. text = [k \in 1 .. Len(m.text) |-> IF 10 + k \in DOMAIN content THEN content[10 + k] ELSE 0]
  BY <1>1 DEF Bytes, HeaderSize
<1> HIDE DEF text
<1>3. \A k \in 1 .. Len(m.text) : text[k] = m.text[k]
  <2> SUFFICES ASSUME NEW k \in 1 .. Len(m.text) PROVE text[k] = m.text[k]
    OBVIOUS
  <2>1. 10 + k \in DOMAIN content /\ 10 + k \in 1 .. Size(m)
    BY <1>1
  <2>2. Packet(m)[10 + k] = m.text[k]
    BY PacketBytes
  <2> QED BY <1>2, <2>1, <2>2
<1>4. text = [k \in 1 .. Len(m.text) |-> text[k]]
  BY <1>2
<1>5. m.text = [k \in 1 .. Len(m.text) |-> m.text[k]]
  <2>1. \A q \in Seq(Byte) : q = [k \in 1 .. Len(q) |-> q[k]]
    OBVIOUS
  <2>2. m.text \in Seq(Byte)
    BY <1>1
  <2> QED BY <2>1, <2>2
<1> QED BY <1>3, <1>4, <1>5 DEF text
-----------------------------------------------------------------------------
(* How long some packets are together. *)

(* Total is computed packet by packet. *)
LEMMA TotalStepwise ==
  ASSUME NEW q \in Seq(Message)
  PROVE  \E it : /\ Total(q) = it[1 .. Len(q)]
                 /\ it[{}] = 0
                 /\ \A k \in 1 .. Len(q) : it[1 .. k] = AddSize(it[1 .. (k - 1)], q[k])
<1> DEFINE n == Len(q)
           Value(it, s) == IF s = {} THEN 0 ELSE AddSize(it[s \ {Max(s)}], q[Max(s)])
           Iter(it) == it = [s \in SUBSET (DOMAIN q) |-> Value(it, s)]
           step == [i \in 1 .. n |-> [total \in Nat |-> AddSize(total, q[i])]]
<1>1. n \in Nat /\ DOMAIN q = 1 .. n /\ \A i \in 1 .. n : q[i] \in Message
  OBVIOUS
<1>2. ASSUME NEW total \in Nat, NEW m \in Message PROVE AddSize(total, m) \in Nat
  BY MessageType DEF AddSize
<1>3. step \in [1 .. n -> [Nat -> Nat]]
  BY <1>1, <1>2
<1> HIDE DEF step, n
<1>4. PICK g \in [SUBSET (1 .. n) -> Nat] : IsFold(g, n, 0, step)
  <2>1. 0 \in Nat
    OBVIOUS
  <2> QED BY <1>1, <1>3, <2>1, FoldExists
<1>5. ASSUME NEW s \in SUBSET (1 .. n) PROVE g[s] = Value(g, s)
  <2>1. CASE s = {}
    BY <1>4, <2>1 DEF IsFold
  <2>2. CASE s # {}
    <3>1. Max(s) \in 1 .. n
      BY <1>1, <2>2, MaxOfInterval
    <3>2. g[s \ {Max(s)}] \in Nat
      BY <1>4
    <3>3. step[Max(s)][g[s \ {Max(s)}]] = AddSize(g[s \ {Max(s)}], q[Max(s)])
      BY <3>1, <3>2 DEF step
    <3> QED BY <1>4, <2>2, <3>3 DEF IsFold
  <2> QED BY <2>1, <2>2
<1>6. Iter(g)
  <2> HIDE DEF Value
  <2>1. g = [s \in SUBSET (1 .. n) |-> g[s]]
    BY <1>4
  <2> QED BY <2>1, <1>1, <1>5
<1> DEFINE it == CHOOSE i : Iter(i)
<1>7. Total(q) = it[DOMAIN q]
  BY DEF Total, FoldLeft, MapThenFoldSet
<1>8. Iter(it)
  <2> HIDE DEF Iter
  <2> QED BY <1>6
<1> HIDE DEF it
<1>9. it[{}] = 0
  BY <1>8
<1>10. ASSUME NEW k \in 1 .. n PROVE it[1 .. k] = AddSize(it[1 .. (k - 1)], q[k])
  <2>1. k \in Nat /\ 1 .. k \in SUBSET (1 .. n) /\ k \in 1 .. k /\ (1 .. k) \ {k} = 1 .. (k - 1)
    BY <1>1
  <2>2. Max(1 .. k) = k
    BY <2>1, MaxUpTo
  <2>3. it[1 .. k] = Value(it, 1 .. k)
    <3> HIDE DEF Value
    <3> QED BY <1>1, <1>8, <2>1
  <2> QED BY <2>1, <2>2, <2>3
<1> QED BY <1>1, <1>7, <1>9, <1>10 DEF n

(* One more packet adds its size. *)
LEMMA TotalGrows ==
  ASSUME NEW q \in Seq(Message), NEW m \in Message
  PROVE  Total(Append(q, m)) = AddSize(Total(q), m)
<1> DEFINE r == Append(q, m)
           n == Len(q)
<1>1. /\ r \in Seq(Message) /\ n \in Nat /\ Len(r) = n + 1
      /\ \A i \in 1 .. n : r[i] = q[i]
      /\ r[n + 1] = m
  BY AppendProperties
<1> HIDE DEF r, n
<1>2. PICK f : /\ Total(q) = f[1 .. n]
               /\ f[{}] = 0
               /\ \A k \in 1 .. n : f[1 .. k] = AddSize(f[1 .. (k - 1)], q[k])
  BY TotalStepwise DEF n
<1>3. PICK g : /\ Total(r) = g[1 .. (n + 1)]
               /\ g[{}] = 0
               /\ \A k \in 1 .. (n + 1) : g[1 .. k] = AddSize(g[1 .. (k - 1)], r[k])
  BY <1>1, TotalStepwise
<1>4. ASSUME NEW k \in 1 .. n, f[1 .. (k - 1)] = g[1 .. (k - 1)] PROVE f[1 .. k] = g[1 .. k]
  <2>1. k \in 1 .. (n + 1) /\ r[k] = q[k]
    BY <1>1
  <2>2. f[1 .. k] = AddSize(f[1 .. (k - 1)], q[k])
    BY <1>2
  <2>3. g[1 .. k] = AddSize(g[1 .. (k - 1)], r[k])
    BY <1>3, <2>1
  <2> QED BY <1>4, <2>1, <2>2, <2>3
<1>5. f[1 .. n] = g[1 .. n]
  <2>1. n \in Nat
    BY <1>1
  <2>2. f[{}] = g[{}]
    BY <1>2, <1>3
  <2>3. \A k \in 1 .. n : f[1 .. (k - 1)] = g[1 .. (k - 1)] => f[1 .. k] = g[1 .. k]
    BY <1>4
  <2> QED BY <2>1, <2>2, <2>3, SameSteps
<1>6. n + 1 \in 1 .. (n + 1) /\ (n + 1) - 1 = n
  BY <1>1
<1>7. g[1 .. (n + 1)] = AddSize(g[1 .. n], m)
  BY <1>3, <1>6, <1>1
<1> QED BY <1>2, <1>3, <1>5, <1>7 DEF r

(* No packets have no bytes. *)
LEMMA NothingIsEmpty == Total(<<>>) = 0
<1>1. << >> \in Seq(Message) /\ Len(<< >>) = 0 /\ 1 .. 0 = {}
  OBVIOUS
<1>2. PICK it : Total(<< >>) = it[1 .. Len(<< >>)] /\ it[{}] = 0
  BY <1>1, TotalStepwise
<1> QED BY <1>1, <1>2

(* Where in the stream of all packets the first k end. *)
EndOf(packets, k) == Total(SubSeq(packets, 1, k))

(* Each packet ends its size behind the one before. *)
LEMMA Ends ==
  ASSUME NEW q \in Seq(Message)
  PROVE  /\ EndOf(q, 0) = 0 /\ EndOf(q, Len(q)) = Total(q)
         /\ \A k \in 0 .. (Len(q) - 1) : EndOf(q, k + 1) = EndOf(q, k) + Size(q[k + 1])
         /\ \A k \in 0 .. Len(q) : EndOf(q, k) \in Nat
<1> DEFINE n == Len(q)
<1>1. SubSeq(q, 1, 0) = <<>> /\ SubSeq(q, 1, n) = q /\ n \in Nat
  OBVIOUS
<1>2. EndOf(q, 0) = 0 /\ EndOf(q, n) = Total(q)
  BY <1>1, NothingIsEmpty DEF EndOf
<1>3. ASSUME NEW k \in 0 .. (n - 1) PROVE EndOf(q, k + 1) = EndOf(q, k) + Size(q[k + 1])
  <2>1. SubSeq(q, 1, k) \in Seq(Message) /\ q[k + 1] \in Message
    OBVIOUS
  <2>2. SubSeq(q, 1, k + 1) = Append(SubSeq(q, 1, k), q[k + 1])
    OBVIOUS
  <2> QED BY <2>1, <2>2, TotalGrows DEF EndOf, AddSize
<1> DEFINE I == {k \in Nat : k <= n => EndOf(q, k) \in Nat}
<1>4. 0 \in I
  BY <1>2
<1>5. ASSUME NEW k \in I \cap Nat PROVE k + 1 \in I
  <2> SUFFICES ASSUME k + 1 <= n PROVE EndOf(q, k + 1) \in Nat
    OBVIOUS
  <2>1. k \in 0 .. (n - 1) /\ EndOf(q, k) \in Nat /\ k + 1 \in 1 .. n
    OBVIOUS
  <2>2. Size(q[k + 1]) \in Nat
    BY <2>1, MessageType
  <2> QED BY <1>3, <2>1, <2>2
<1> HIDE DEF I
<1>6. Nat \subseteq I
  BY <1>4, <1>5, NatSetInduction
<1>7. \A k \in 0 .. n : EndOf(q, k) \in Nat
  BY <1>1, <1>6 DEF I
<1> QED BY <1>2, <1>3, <1>7

(* No packet is shorter than its header. *)
LEMMA EndsRise ==
  ASSUME NEW q \in Seq(Message), NEW j \in 0 .. Len(q), NEW k \in 0 .. Len(q), j <= k
  PROVE  EndOf(q, j) + 10 * (k - j) <= EndOf(q, k)
<1> DEFINE n == Len(q)
           I == {i \in Nat : j <= i /\ i <= n => EndOf(q, j) + 10 * (i - j) <= EndOf(q, i)}
<1>0. n \in Nat /\ EndOf(q, j) \in Nat
  BY Ends
<1>1. 0 \in I
  BY <1>0
<1>2. ASSUME NEW i \in I \cap Nat PROVE i + 1 \in I
  <2> SUFFICES ASSUME j <= i + 1, i + 1 <= n
               PROVE  EndOf(q, j) + 10 * ((i + 1) - j) <= EndOf(q, i + 1)
    OBVIOUS
  <2>1. CASE j = i + 1
    BY <1>0, <2>1
  <2>2. CASE j <= i
    <3>1. EndOf(q, j) + 10 * (i - j) <= EndOf(q, i)
      BY <2>2
    <3>2. i \in 0 .. (n - 1) /\ i \in 0 .. n /\ q[i + 1] \in Message
      BY <1>0
    <3>3. EndOf(q, i + 1) = EndOf(q, i) + Size(q[i + 1]) /\ EndOf(q, i) \in Nat
      BY <3>2, Ends
    <3>4. Size(q[i + 1]) \in Nat /\ Size(q[i + 1]) >= 10
      BY <3>2, MessageType
    <3> HIDE DEF I
    <3> QED BY <1>0, <3>1, <3>3, <3>4
  <2> QED BY <2>1, <2>2
<1> HIDE DEF I
<1>3. Nat \subseteq I
  BY <1>1, <1>2, NatSetInduction
<1>4. k \in I
  BY <1>3
<1> QED BY <1>4 DEF I

(* One more packet does not move the ends of those before. *)
LEMMA EndsStay ==
  ASSUME NEW q \in Seq(Message), NEW m \in Message
  PROVE  /\ \A k \in 0 .. Len(q) : EndOf(Append(q, m), k) = EndOf(q, k)
         /\ EndOf(Append(q, m), Len(q) + 1) = EndOf(q, Len(q)) + Size(m)
<1>1. \A k \in 0 .. Len(q) : SubSeq(Append(q, m), 1, k) = SubSeq(q, 1, k)
  OBVIOUS
<1>2. /\ SubSeq(Append(q, m), 1, Len(q) + 1) = Append(q, m)
      /\ SubSeq(q, 1, Len(q)) = q
  OBVIOUS
<1> QED BY <1>1, <1>2, TotalGrows DEF EndOf, AddSize
-----------------------------------------------------------------------------
(* Parts of the stream. *)

(* These bytes are those of the packets that follow the first `offset`.    *)
BytesAt(packets, bytes, offset) ==
    \A k \in 1 .. Len(packets) : \A j \in 1 .. Size(packets[k]) : \A i \in 1 .. Len(bytes) :
        offset + i = EndOf(packets, k - 1) + j => bytes[i] = Packet(packets[k])[j]

(* A part of the stream that starts with a packet starts with its bytes. *)
LEMMA BytesOfPacket ==
  ASSUME NEW q \in Seq(Message), NEW k \in 1 .. Len(q), NEW bytes \in Seq(Byte),
         BytesAt(q, bytes, EndOf(q, k - 1)), NEW x \in Nat, x <= Size(q[k]), x <= Len(bytes)
  PROVE  \A i \in 1 .. x : bytes[i] = Packet(q[k])[i]
<1> SUFFICES ASSUME NEW i \in 1 .. x PROVE bytes[i] = Packet(q[k])[i]
  OBVIOUS
<1>1. Size(q[k]) \in Nat
  BY MessageType
<1>2. i \in 1 .. Size(q[k]) /\ i \in 1 .. Len(bytes)
  BY <1>1
<1> QED BY <1>2 DEF BytesAt

(* No bytes are anywhere. *)
LEMMA NoBytes ==
  ASSUME NEW q, NEW offset
  PROVE  BytesAt(q, <<>>, offset)
BY DEF BytesAt

(* The first bytes of a part of the stream are at the same place. *)
LEMMA FrontBytes ==
  ASSUME NEW q \in Seq(Message), NEW bytes \in Seq(Byte), NEW offset \in Nat,
         BytesAt(q, bytes, offset), NEW n \in 0 .. Len(bytes)
  PROVE  /\ SubSeq(bytes, 1, n) \in Seq(Byte) /\ Len(SubSeq(bytes, 1, n)) = n
         /\ BytesAt(q, SubSeq(bytes, 1, n), offset)
<1> DEFINE b == SubSeq(bytes, 1, n)
<1>1. b \in Seq(Byte) /\ Len(b) = n /\ \A i \in 1 .. n : b[i] = bytes[i] /\ i \in 1 .. Len(bytes)
  OBVIOUS
<1> HIDE DEF b
<1>2. BytesAt(q, b, offset)
  BY <1>1 DEF BytesAt
<1> QED BY <1>1, <1>2 DEF b

(* The others are as much further on. *)
LEMMA BackBytes ==
  ASSUME NEW q \in Seq(Message), NEW bytes \in Seq(Byte), NEW offset \in Nat,
         BytesAt(q, bytes, offset), NEW n \in 0 .. Len(bytes)
  PROVE  /\ SubSeq(bytes, n + 1, Len(bytes)) \in Seq(Byte)
         /\ Len(SubSeq(bytes, n + 1, Len(bytes))) = Len(bytes) - n
         /\ BytesAt(q, SubSeq(bytes, n + 1, Len(bytes)), offset + n)
<1> DEFINE b == SubSeq(bytes, n + 1, Len(bytes))
<1>0. Len(bytes) \in Nat
  OBVIOUS
<1>1. /\ b \in Seq(Byte) /\ Len(b) = Len(bytes) - n
      /\ \A i \in 1 .. Len(b) : b[i] = bytes[n + i]
  OBVIOUS
<1> HIDE DEF b
<1>2. \A i \in 1 .. Len(b) : n + i \in 1 .. Len(bytes)
  BY <1>0, <1>1
<1>3. BytesAt(q, b, offset + n)
  <2> SUFFICES ASSUME NEW k \in 1 .. Len(q), NEW j \in 1 .. Size(q[k]), NEW i \in 1 .. Len(b),
                      (offset + n) + i = EndOf(q, k - 1) + j
               PROVE  b[i] = Packet(q[k])[j]
    BY DEF BytesAt
  <2>1. offset + (n + i) = EndOf(q, k - 1) + j
    <3>1. i \in Nat
      BY <1>0, <1>1
    <3> QED BY <3>1
  <2> QED BY <1>1, <1>2, <2>1 DEF BytesAt
<1> QED BY <1>1, <1>3 DEF b

(* Two parts of the stream, one behind the other, are one. *)
LEMMA JoinedBytes ==
  ASSUME NEW q \in Seq(Message), NEW a \in Seq(Byte), NEW b \in Seq(Byte), NEW offset \in Nat,
         BytesAt(q, a, offset), BytesAt(q, b, offset + Len(a))
  PROVE  /\ a \o b \in Seq(Byte) /\ Len(a \o b) = Len(a) + Len(b)
         /\ BytesAt(q, a \o b, offset)
<1> DEFINE c == a \o b
<1>0. Len(a) \in Nat /\ Len(b) \in Nat
  OBVIOUS
<1>1. /\ c \in Seq(Byte) /\ Len(c) = Len(a) + Len(b)
      /\ \A i \in 1 .. Len(a) : c[i] = a[i]
      /\ \A i \in 1 .. Len(b) : c[Len(a) + i] = b[i]
  BY Concatenation
<1> HIDE DEF c
<1>2. BytesAt(q, c, offset)
  <2> SUFFICES ASSUME NEW k \in 1 .. Len(q), NEW j \in 1 .. Size(q[k]), NEW i \in 1 .. Len(c),
                      offset + i = EndOf(q, k - 1) + j
               PROVE  c[i] = Packet(q[k])[j]
    BY DEF BytesAt
  <2>1. CASE i \in 1 .. Len(a)
    BY <1>1, <2>1 DEF BytesAt
  <2>2. CASE i \notin 1 .. Len(a)
    <3>1. i - Len(a) \in 1 .. Len(b) /\ Len(a) + (i - Len(a)) = i
      BY <1>0, <1>1, <2>2
    <3>2. (offset + Len(a)) + (i - Len(a)) = EndOf(q, k - 1) + j
      BY <1>0, <1>1
    <3>3. c[i] = b[i - Len(a)]
      BY <1>1, <3>1
    <3> QED BY <3>1, <3>2, <3>3 DEF BytesAt
  <2> QED BY <2>1, <2>2
<1> QED BY <1>1, <1>2 DEF c

(* What is sent later comes behind. *)
LEMMA EarlierBytes ==
  ASSUME NEW q \in Seq(Message), NEW m \in Message, NEW bytes \in Seq(Byte), NEW offset \in Nat,
         BytesAt(q, bytes, offset), offset + Len(bytes) <= EndOf(q, Len(q))
  PROVE  BytesAt(Append(q, m), bytes, offset)
<1> DEFINE r == Append(q, m)
           n == Len(q)
<1>1. /\ r \in Seq(Message) /\ n \in Nat /\ Len(r) = n + 1 /\ Len(bytes) \in Nat
      /\ \A i \in 1 .. n : r[i] = q[i]
      /\ r[n + 1] = m
  BY AppendProperties
<1>2. \A k \in 0 .. n : EndOf(r, k) = EndOf(q, k) /\ EndOf(q, k) \in Nat
  BY EndsStay, Ends
<1>3. Size(m) \in Nat
  BY MessageType
<1> HIDE DEF r, n
<1>4. BytesAt(r, bytes, offset)
  <2> SUFFICES ASSUME NEW k \in 1 .. Len(r), NEW j \in 1 .. Size(r[k]), NEW i \in 1 .. Len(bytes),
                      offset + i = EndOf(r, k - 1) + j
               PROVE  bytes[i] = Packet(r[k])[j]
    BY DEF BytesAt
  <2>1. k - 1 \in 0 .. n /\ EndOf(r, k - 1) = EndOf(q, k - 1)
    BY <1>1, <1>2
  <2>2. CASE k = n + 1
    <3>1. k - 1 = n /\ j >= 1 /\ j \in Nat
      BY <1>1, <1>3, <2>2
    <3>2. offset + i > EndOf(q, n)
      BY <1>1, <1>2, <2>1, <3>1
    <3>3. i \in Nat /\ i <= Len(bytes) /\ EndOf(q, n) \in Nat /\ n \in 0 .. n
      BY <1>1, <1>2
    <3>4. offset + Len(bytes) <= EndOf(q, n)
      BY DEF n
    <3>5. offset + i <= offset + Len(bytes)
      BY <1>1, <3>3
    <3> QED BY <1>1, <3>2, <3>3, <3>4, <3>5
  <2>3. CASE k # n + 1
    <3>1. k \in 1 .. n /\ r[k] = q[k]
      BY <1>1, <2>3
    <3> QED BY <2>1, <3>1 DEF BytesAt, n
  <2> QED BY <2>2, <2>3
<1> QED BY <1>4 DEF r

(* A packet just sent is behind the end of those before. *)
LEMMA LastBytes ==
  ASSUME NEW q \in Seq(Message), NEW m \in Message
  PROVE  BytesAt(Append(q, m), Packet(m), EndOf(q, Len(q)))
<1> DEFINE r == Append(q, m)
           n == Len(q)
           bytes == Packet(m)
<1>1. /\ r \in Seq(Message) /\ n \in Nat /\ Len(r) = n + 1
      /\ r[n + 1] = m /\ \A i \in 1 .. n : r[i] \in Message
  BY AppendProperties
<1>2. \A k \in 0 .. n : EndOf(r, k) = EndOf(q, k) /\ EndOf(q, k) \in Nat
  BY EndsStay, Ends
<1>3. bytes \in Seq(Byte) /\ Len(bytes) = Size(m) /\ Size(m) \in Nat
  BY MessageType, PacketBytes
<1> HIDE DEF r, n, bytes
<1>4. BytesAt(r, bytes, EndOf(q, n))
  <2> SUFFICES ASSUME NEW k \in 1 .. Len(r), NEW j \in 1 .. Size(r[k]), NEW i \in 1 .. Len(bytes),
                      EndOf(q, n) + i = EndOf(r, k - 1) + j
               PROVE  bytes[i] = Packet(r[k])[j]
    BY DEF BytesAt
  <2>1. k - 1 \in 0 .. n /\ EndOf(r, k - 1) = EndOf(q, k - 1)
    BY <1>1, <1>2
  <2>2. CASE k = n + 1
    <3>1. k - 1 = n /\ j \in Nat /\ i \in Nat
      BY <1>1, <1>3, <2>2
    <3>2. i = j
      BY <1>1, <1>2, <2>1, <3>1
    <3> QED BY <1>1, <2>2, <3>2 DEF bytes
  <2>3. CASE k # n + 1
    <3>1. k \in 1 .. n /\ k \in 0 .. n /\ k - 1 \in 0 .. n /\ n \in 0 .. n
      BY <1>1, <2>3
    <3>2. EndOf(r, k) = EndOf(r, k - 1) + Size(r[k])
      <4>1. k - 1 \in 0 .. (Len(r) - 1) /\ (k - 1) + 1 = k
        BY <1>1, <3>1
      <4> QED BY <1>1, <4>1, Ends
    <3>3. EndOf(q, k) <= EndOf(q, n)
      <4>1. EndOf(q, k) + 10 * (n - k) <= EndOf(q, n)
        BY <1>1, <3>1, EndsRise DEF n
      <4> QED BY <1>1, <1>2, <3>1, <4>1
    <3>4. Size(r[k]) \in Nat
      BY <1>1, <3>1, MessageType
    <3>5. i \in Nat /\ i >= 1 /\ j <= Size(r[k]) /\ j \in Nat
      BY <1>3, <3>4
    <3>6. EndOf(r, k) = EndOf(q, k) /\ EndOf(q, k) \in Nat /\ EndOf(q, k - 1) \in Nat /\ EndOf(q, n) \in Nat
      BY <1>2, <3>1
    <3>7. EndOf(q, k - 1) + j <= EndOf(q, n)
      BY <2>1, <3>2, <3>3, <3>4, <3>5, <3>6
    <3> QED BY <2>1, <3>5, <3>6, <3>7
  <2> QED BY <2>2, <2>3
<1> QED BY <1>4 DEF r, n, bytes
-----------------------------------------------------------------------------
(* The inductive invariant: where in the stream the parts of it are.       *)

(* The first g packets are gone, those up to a have left the network.      *)
Lengths(g, a) ==
    /\ g \in Nat /\ a \in Nat /\ g <= a /\ a <= Len(sent)
    /\ Len(buffer) + Len(arrived) = EndOf(sent, a) - EndOf(sent, g)
    /\ Len(flight) = EndOf(sent, Len(sent)) - EndOf(sent, a)

Contents(g, a) ==
    /\ BytesAt(sent, buffer, EndOf(sent, g))
    /\ BytesAt(sent, arrived, EndOf(sent, g) + Len(buffer))
    /\ BytesAt(sent, flight, EndOf(sent, a))

(* What waits fits the buffer, or is one packet for two recv() calls.      *)
Limited(g) ==
    \/ EndOf(sent, Len(sent)) - EndOf(sent, g) <= BufSize
    \/ Len(sent) = g + 1 /\ Size(sent[g + 1]) <= 2 * BufSize

Halfway(g, a) == phase = "rest" => Len(sent) = g + 1 /\ a = g + 1 /\ arrived # <<>>

Whereabouts(g, a) == Lengths(g, a) /\ Contents(g, a) /\ Limited(g) /\ Halfway(g, a)

FramingInv == FramingTypeOK /\ (orderly => \E g, a \in Nat : Whereabouts(g, a))

(* The types of the streams and the limits alone.                          *)
LEMMA Typed ==
  ASSUME FramingTypeOK
  PROVE  /\ sent \in Seq(Message) /\ Len(sent) \in Nat
         /\ flight \in Seq(Byte) /\ Len(flight) \in Nat
         /\ arrived \in Seq(Byte) /\ Len(arrived) \in Nat
         /\ buffer \in Seq(Byte) /\ Len(buffer) \in Nat
         /\ phase = "rest" => Len(buffer) = BufSize
         /\ phase # "rest" => Len(buffer) = 0
         /\ (flight = <<>> <=> Len(flight) = 0) /\ (arrived = <<>> <=> Len(arrived) = 0)
         /\ BufSize \in Nat /\ BufSize > 10
<1>1. BufSize \in Nat /\ BufSize > 10
  BY FramingAssumption DEF HeaderSize
<1>2. /\ sent \in Seq(Message) /\ flight \in Seq(Byte) /\ arrived \in Seq(Byte)
      /\ buffer \in Seq(Byte) /\ Len(buffer) \in {0, BufSize} /\ (phase = "rest" <=> buffer # <<>>)
  BY DEF FramingTypeOK
<1>3. /\ Len(sent) \in Nat /\ Len(flight) \in Nat /\ Len(arrived) \in Nat /\ Len(buffer) \in Nat
      /\ (flight = <<>> <=> Len(flight) = 0) /\ (arrived = <<>> <=> Len(arrived) = 0)
      /\ (buffer = <<>> <=> Len(buffer) = 0)
  BY <1>2
<1> QED BY <1>1, <1>2, <1>3

(* The ends of the packets, as numbers. *)
LEMMA Placed ==
  ASSUME FramingTypeOK, NEW g \in Nat, NEW a \in Nat, Lengths(g, a)
  PROVE  /\ EndOf(sent, g) \in Nat /\ EndOf(sent, a) \in Nat /\ EndOf(sent, Len(sent)) \in Nat
         /\ EndOf(sent, g) + 10 * (a - g) <= EndOf(sent, a)
         /\ EndOf(sent, a) + 10 * (Len(sent) - a) <= EndOf(sent, Len(sent))
         /\ Unread = EndOf(sent, Len(sent)) - EndOf(sent, g)
<1>1. sent \in Seq(Message) /\ Len(sent) \in Nat
  BY Typed
<1>2. g \in 0 .. Len(sent) /\ a \in 0 .. Len(sent) /\ Len(sent) \in 0 .. Len(sent)
      /\ g <= a /\ a <= Len(sent)
  BY <1>1 DEF Lengths
<1>3. /\ EndOf(sent, g) \in Nat /\ EndOf(sent, a) \in Nat /\ EndOf(sent, Len(sent)) \in Nat
  BY <1>1, <1>2, Ends
<1>4. EndOf(sent, g) + 10 * (a - g) <= EndOf(sent, a)
  BY <1>1, <1>2, EndsRise
<1>5. EndOf(sent, a) + 10 * (Len(sent) - a) <= EndOf(sent, Len(sent))
  BY <1>1, <1>2, EndsRise
<1>6. Unread = EndOf(sent, Len(sent)) - EndOf(sent, g)
  <2>1. /\ Len(buffer) + Len(arrived) = EndOf(sent, a) - EndOf(sent, g)
        /\ Len(flight) = EndOf(sent, Len(sent)) - EndOf(sent, a)
    BY DEF Lengths
  <2>2. Len(flight) \in Nat /\ Len(arrived) \in Nat /\ Len(buffer) \in Nat
    BY Typed
  <2>3. Unread = Len(flight) + Len(arrived) + Len(buffer)
    BY DEF Unread
  <2> QED BY <1>3, <2>1, <2>2, <2>3
<1> QED BY <1>3, <1>4, <1>5, <1>6

(* A part of the stream from behind packet j to a later end has the next   *)
(* packet in full.                                                         *)
LEMMA NextIsEntire ==
  ASSUME NEW q \in Seq(Message), NEW j \in Nat, NEW k \in Nat, j < k, k <= Len(q)
  PROVE  /\ q[j + 1] \in Message /\ Size(q[j + 1]) \in Nat /\ Size(q[j + 1]) >= 10
         /\ EndOf(q, j + 1) = EndOf(q, j) + Size(q[j + 1])
         /\ EndOf(q, j) + Size(q[j + 1]) <= EndOf(q, k)
<1>0. Len(q) \in Nat
  OBVIOUS
<1>1. /\ j \in 0 .. (Len(q) - 1) /\ j + 1 \in 1 .. Len(q) /\ k \in 0 .. Len(q)
      /\ j + 1 \in 0 .. Len(q) /\ j + 1 <= k /\ j \in 0 .. Len(q)
  BY <1>0
<1>2. q[j + 1] \in Message /\ Size(q[j + 1]) \in Nat /\ Size(q[j + 1]) >= 10
  <2>1. q[j + 1] \in Message
    BY <1>1
  <2> QED BY <2>1, MessageType
<1>3. EndOf(q, j + 1) = EndOf(q, j) + Size(q[j + 1])
  BY <1>1, Ends
<1>4. EndOf(q, j + 1) + 10 * (k - (j + 1)) <= EndOf(q, k)
  BY <1>1, EndsRise
<1>5. EndOf(q, j + 1) \in Nat /\ EndOf(q, k) \in Nat /\ k - (j + 1) \in Nat
  BY <1>1, Ends
<1> QED BY <1>2, <1>3, <1>4, <1>5

(* The packet that a part of the stream starts with is in its first bytes. *)
LEMMA StartsWith ==
  ASSUME NEW q \in Seq(Message), NEW j \in Nat, j < Len(q), NEW bytes \in Seq(Byte),
         BytesAt(q, bytes, EndOf(q, j)), NEW x \in Nat, x <= Size(q[j + 1]), x <= Len(bytes)
  PROVE  \A i \in 1 .. x : bytes[i] = Packet(q[j + 1])[i]
<1>1. Len(q) \in Nat
  OBVIOUS
<1>2. j + 1 \in 1 .. Len(q) /\ (j + 1) - 1 = j
  BY <1>1
<1> QED BY <1>2, BytesOfPacket

(* So the network knows where the next packet ends. *)
LEMMA NextInFlight ==
  ASSUME FramingTypeOK, NEW g \in Nat, NEW a \in Nat, Whereabouts(g, a), flight # <<>>
  PROVE  /\ a < Len(sent) /\ PacketSize(flight) = Size(sent[a + 1])
         /\ Size(sent[a + 1]) \in Nat /\ Size(sent[a + 1]) <= Len(flight)
<1>1. /\ sent \in Seq(Message) /\ Len(sent) \in Nat /\ flight \in Seq(Byte)
      /\ Len(flight) \in Nat /\ Len(flight) # 0
  BY Typed
<1>2. Lengths(g, a) /\ BytesAt(sent, flight, EndOf(sent, a))
  BY DEF Whereabouts, Contents
<1>3. a < Len(sent)
  <2>1. a <= Len(sent) /\ Len(flight) = EndOf(sent, Len(sent)) - EndOf(sent, a)
    BY <1>2 DEF Lengths
  <2>2. EndOf(sent, a) \in Nat
    BY <1>2, Placed
  <2>3. a # Len(sent)
    BY <1>1, <2>1, <2>2
  <2> QED BY <1>1, <2>1, <2>3
<1>4. /\ sent[a + 1] \in Message /\ Size(sent[a + 1]) \in Nat /\ Size(sent[a + 1]) >= 10
      /\ EndOf(sent, a) + Size(sent[a + 1]) <= EndOf(sent, Len(sent))
  BY <1>1, <1>3, NextIsEntire
<1>5. Size(sent[a + 1]) <= Len(flight)
  <2>1. Len(flight) = EndOf(sent, Len(sent)) - EndOf(sent, a)
    BY <1>2 DEF Lengths
  <2>2. EndOf(sent, a) \in Nat /\ EndOf(sent, Len(sent)) \in Nat
    BY <1>2, Placed
  <2> QED BY <1>4, <2>1, <2>2
<1>6. 10 \in Nat /\ 10 <= Size(sent[a + 1]) /\ 10 <= Len(flight) /\ Len(flight) >= 10
  BY <1>1, <1>4, <1>5
<1>7. \A i \in 1 .. 10 : flight[i] = Packet(sent[a + 1])[i]
  BY <1>1, <1>2, <1>3, <1>6, StartsWith
<1>8. PacketSize(flight) = Size(sent[a + 1])
  BY <1>1, <1>4, <1>6, <1>7, HeaderIsRead
<1> QED BY <1>3, <1>4, <1>5, <1>8
-----------------------------------------------------------------------------
(* What the receiver makes of the bytes. *)

(* What the receiver reads out of a vector are bytes. *)
LEMMA BytesTyped ==
  ASSUME NEW content \in Seq(Byte), NEW first \in Nat \ {0}, NEW last \in Nat, first <= last + 1
  PROVE  Bytes(content, first, last) \in Seq(Byte) /\ Len(Bytes(content, first, last)) = last - first + 1
<1> DEFINE n == last - first + 1
           byte(k) == IF first + k - 1 \in DOMAIN content THEN content[first + k - 1] ELSE 0
<1>1. n \in Nat
  OBVIOUS
<1>2. \A k \in 1 .. n : byte(k) \in Byte
  <2>1. 0 \in Byte
    BY DEF Byte
  <2>2. \A i \in DOMAIN content : content[i] \in Byte
    OBVIOUS
  <2> QED BY <2>1, <2>2
<1>3. Bytes(content, first, last) = [k \in 1 .. n |-> byte(k)]
  BY DEF Bytes
<1> HIDE DEF n, byte
<1>4. [k \in 1 .. n |-> byte(k)] \in Seq(Byte) /\ Len([k \in 1 .. n |-> byte(k)]) = n
  BY <1>1, <1>2
<1> QED BY <1>3, <1>4 DEF n

(* Four bytes make a number. *)
LEMMA NumberIsNat ==
  ASSUME NEW b \in Seq(Byte), Len(b) = 4
  PROVE  ReadBigEndian4(b) \in Nat /\ ReadLittleEndian4(b) \in Nat
<1> DEFINE n == Len(b)
<1>1. 1 \in 1 .. n /\ 2 \in 1 .. n /\ 3 \in 1 .. n /\ 4 \in 1 .. n
  <2>1. n = 4
    OBVIOUS
  <2> HIDE DEF n
  <2> QED BY <2>1
<1>2. \A i \in 1 .. n : b[i] \in Byte
  BY ElementOfSeq
<1> HIDE DEF n
<1>3. b[1] \in Byte /\ b[2] \in Byte /\ b[3] \in Byte /\ b[4] \in Byte
  BY <1>1, <1>2
<1>4. \A x \in Byte : x \in Nat
  BY DEF Byte
<1> DEFINE w == b[1]
           x == b[2]
           y == b[3]
           z == b[4]
<1>5. w \in Nat /\ x \in Nat /\ y \in Nat /\ z \in Nat
  BY <1>3, <1>4
<1>6. /\ ReadBigEndian4(b) = 16777216 * w + 65536 * x + 256 * y + z
      /\ ReadLittleEndian4(b) = w + 256 * x + 65536 * y + 16777216 * z
  BY SMT DEF ReadBigEndian4, ReadLittleEndian4
<1> HIDE DEF w, x, y, z
<1>7. /\ 16777216 * w + 65536 * x + 256 * y + z \in Nat
      /\ w + 256 * x + 65536 * y + 16777216 * z \in Nat
  BY <1>5, SMT
<1> QED BY <1>6, <1>7

(* The sizes the receiver reads and the vector it has are numbers, and the *)
(* vector is as long as the longer of bufSize and the packet.              *)
LEMMA SizesTyped ==
  ASSUME NEW content \in Seq(Byte)
  PROVE  /\ PacketSize(content) \in Nat
         /\ VectorSize(content) \in Nat /\ VectorSize(content) >= BufSize
         /\ VectorSize(content) >= PacketSize(content)
         /\ NeedsRest(content) => VectorSize(content) = PacketSize(content)
         /\ ReadLittleEndian4(Bytes(content, 7, 10)) \in Nat
<1>0. BufSize \in Nat
  BY FramingAssumption
<1>1. PacketSize(content) \in Nat
  <2>1. Bytes(content, 1, 4) \in Seq(Byte) /\ Len(Bytes(content, 1, 4)) = 4
    <3>1. 1 \in Nat \ {0} /\ 4 \in Nat /\ 1 <= 4 + 1 /\ 4 - 1 + 1 = 4
      OBVIOUS
    <3> QED BY <3>1, BytesTyped
  <2> QED BY <2>1, NumberIsNat DEF PacketSize
<1>2. ReadLittleEndian4(Bytes(content, 7, 10)) \in Nat
  <2>1. Bytes(content, 7, 10) \in Seq(Byte) /\ Len(Bytes(content, 7, 10)) = 4
    <3>1. 7 \in Nat \ {0} /\ 10 \in Nat /\ 7 <= 10 + 1 /\ 10 - 7 + 1 = 4
      OBVIOUS
    <3> QED BY <3>1, BytesTyped
  <2> QED BY <2>1, NumberIsNat
<1> QED BY <1>0, <1>1, <1>2 DEF VectorSize, NeedsRest

(* Whatever is read, the receiver's history keeps its type. *)
LEMMA HandlePacketTyped ==
  ASSUME FramingTypeOK, NEW content \in Seq(Byte),
         HandlePacket(content) \/ Crash
  PROVE  /\ handled' \in Seq([type : KnownTypes, text : Seq(Byte) \cup {NoText}])
         /\ phase' \in {"select", "crashed"}
<1> DEFINE Packets == [type : KnownTypes, text : Seq(Byte) \cup {NoText}]
           type == ReadBigEndian2(Bytes(content, 5, 6))
           length == ReadLittleEndian4(Bytes(content, 7, 10))
           outside == length > VectorSize(content) - HeaderSize
           text == IF outside THEN NoText ELSE Bytes(content, 11, HeaderSize + length)
<1>1. handled \in Seq(Packets)
  BY DEF FramingTypeOK
<1>2. text \in Seq(Byte) \cup {NoText}
  <2>1. length \in Nat
    BY SizesTyped
  <2>2. HeaderSize + length \in Nat /\ 11 \in Nat \ {0} /\ 11 <= HeaderSize + length + 1
    BY <2>1 DEF HeaderSize
  <2>3. Bytes(content, 11, HeaderSize + length) \in Seq(Byte)
    BY <2>2, BytesTyped
  <2> QED BY <2>3
<1>3. \/ /\ phase' = "select"
         /\ handled' = IF type \in KnownTypes
                       THEN Append(handled, [type |-> type, text |-> text])
                       ELSE handled
      \/ Crash
  BY DEF HandlePacket
<1> HIDE DEF type, text
<1>4. type \in KnownTypes => [type |-> type, text |-> text] \in Packets
  BY <1>2
<1>5. \A p \in Packets : Append(handled, p) \in Seq(Packets)
  <2> HIDE DEF Packets
  <2> QED BY <1>1
<1> QED BY <1>1, <1>3, <1>4, <1>5 DEF Crash

(* An entire packet is handled as the message it was made of. *)
LEMMA HandleEntire ==
  ASSUME NEW m \in Message, NEW content \in Seq(Byte), Len(content) >= Size(m),
         \A i \in 1 .. Size(m) : content[i] = Packet(m)[i],
         HandlePacket(content)
  PROVE  phase' = "select" /\ handled' = Append(handled, m)
<1> DEFINE type == ReadBigEndian2(Bytes(content, 5, 6))
           length == ReadLittleEndian4(Bytes(content, 7, 10))
           outside == length > VectorSize(content) - HeaderSize
           text == IF outside THEN NoText ELSE Bytes(content, 11, HeaderSize + length)
<1>1. /\ Len(m.text) \in Nat /\ m = [type |-> m.type, text |-> m.text]
      /\ Size(m) \in Nat /\ Size(m) = 10 + Len(m.text) /\ Len(content) \in Nat
  BY MessageType
<1>2. Len(content) >= 10 /\ \A i \in 1 .. 10 : i \in 1 .. Size(m)
  BY <1>1
<1>3. \A i \in 1 .. 10 : content[i] = Packet(m)[i]
  BY <1>2
<1>4. PacketSize(content) = Size(m) /\ type = m.type /\ length = Len(m.text)
  BY <1>2, <1>3, HeaderIsRead
<1>5. ~outside
  BY <1>1, <1>4, SizesTyped DEF HeaderSize
<1>6. text = m.text
  BY <1>4, <1>5, TextIsRead
<1>7. type \in KnownTypes
  BY <1>4, FramingAssumption
<1>8. \/ /\ phase' = "select"
         /\ handled' = IF type \in KnownTypes
                       THEN Append(handled, [type |-> type, text |-> text])
                       ELSE handled
      \/ type \in KnownTypes /\ outside /\ Crash
  BY DEF HandlePacket
<1> HIDE DEF type, text, outside
<1>9. phase' = "select" /\ handled' = Append(handled, [type |-> type, text |-> text])
  BY <1>5, <1>7, <1>8
<1> QED BY <1>1, <1>4, <1>6, <1>9

(* What a recv() takes. *)
LEMMA TakenFacts ==
  ASSUME FramingTypeOK
  PROVE  /\ Taken \in Seq(Byte) /\ Len(Taken) \in Nat /\ Len(Taken) <= BufSize
         /\ Len(Taken) <= Len(arrived)
         /\ Len(arrived) <= BufSize => Taken = arrived
         /\ Len(arrived) > BufSize => Taken = SubSeq(arrived, 1, BufSize) /\ Len(Taken) = BufSize
         /\ SubSeq(arrived, Len(Taken) + 1, Len(arrived)) \in Seq(Byte)
<1> DEFINE n == IF Len(arrived) < BufSize THEN Len(arrived) ELSE BufSize
<1>1. arrived \in Seq(Byte) /\ Len(arrived) \in Nat /\ BufSize \in Nat
  BY Typed
<1>2. n \in Nat /\ n <= BufSize /\ n <= Len(arrived)
      /\ (Len(arrived) <= BufSize => n = Len(arrived))
      /\ (Len(arrived) > BufSize => n = BufSize)
  BY <1>1
<1>3. Taken = SubSeq(arrived, 1, n)
  BY DEF Taken
<1> HIDE DEF n
<1>4. SubSeq(arrived, 1, n) \in Seq(Byte) /\ Len(SubSeq(arrived, 1, n)) = n
  BY <1>1, <1>2
<1>5. SubSeq(arrived, 1, Len(arrived)) = arrived
  BY <1>1
<1>6. SubSeq(arrived, n + 1, Len(arrived)) \in Seq(Byte)
  BY <1>1, <1>2
<1> QED BY <1>1, <1>2, <1>3, <1>4, <1>5, <1>6
-----------------------------------------------------------------------------
(* What each action does to an orderly stream. *)

(* send(): the packet comes behind all others and keeps the limits. *)
LEMMA SendStep ==
  ASSUME FramingTypeOK, NEW g \in Nat, NEW a \in Nat, Whereabouts(g, a),
         NEW m \in Message, Send(m), orderly'
  PROVE  Whereabouts(g, a)'
<1> DEFINE n == Len(sent)
<1>0. n \in Nat /\ Len(flight) \in Nat /\ Len(arrived) \in Nat /\ Len(buffer) \in Nat
  BY Typed
<1>1. /\ sent \in Seq(Message) /\ n \in Nat /\ flight \in Seq(Byte) /\ Len(flight) \in Nat
      /\ Len(arrived) \in Nat /\ Len(buffer) \in Nat /\ BufSize \in Nat
      /\ arrived \in Seq(Byte) /\ buffer \in Seq(Byte)
      /\ phase = "rest" => Len(buffer) = BufSize
      /\ arrived = <<>> <=> Len(arrived) = 0
  BY Typed
<1>2. /\ sent' = Append(sent, m) /\ flight' = flight \o Packet(m) /\ FitsIn(m)
      /\ arrived' = arrived /\ phase' = phase /\ buffer' = buffer
  BY DEF Send
<1>3. Lengths(g, a) /\ Contents(g, a) /\ Limited(g) /\ Halfway(g, a)
  BY DEF Whereabouts
<1>4. /\ g <= a /\ a <= n
      /\ Len(buffer) + Len(arrived) = EndOf(sent, a) - EndOf(sent, g)
      /\ Len(flight) = EndOf(sent, n) - EndOf(sent, a)
  BY <1>3 DEF Lengths
<1>5. /\ EndOf(sent, g) \in Nat /\ EndOf(sent, a) \in Nat /\ EndOf(sent, n) \in Nat
      /\ EndOf(sent, g) + 10 * (a - g) <= EndOf(sent, a)
      /\ EndOf(sent, a) + 10 * (n - a) <= EndOf(sent, n)
      /\ Unread = EndOf(sent, n) - EndOf(sent, g)
  BY <1>3, Placed
<1> DEFINE eg == EndOf(sent, g)
           ea == EndOf(sent, a)
           en == EndOf(sent, n)
           before == Len(buffer)
           waiting == Len(arrived)
           away == Len(flight)
           size == Size(m)
<1>numbers. /\ n \in Nat /\ eg \in Nat /\ ea \in Nat /\ en \in Nat
       /\ before \in Nat /\ waiting \in Nat /\ away \in Nat
       /\ size \in Nat /\ size >= 10 /\ BufSize \in Nat /\ BufSize > 10
       /\ g <= a /\ a <= n /\ eg + 10 * (a - g) <= ea /\ ea + 10 * (n - a) <= en
       /\ before + waiting = ea - eg /\ away = en - ea
  <2>1. size \in Nat /\ size >= 10 /\ BufSize \in Nat /\ BufSize > 10
    <3>1. size = 10 + Len(m.text) /\ Len(m.text) \in Nat
      BY MessageType
    <3>2. BufSize \in Nat /\ BufSize > 10
      BY Typed
    <3> HIDE DEF size
    <3> QED BY <3>1, <3>2
  <2> QED BY <1>0, <1>4, <1>5, <2>1
<1> HIDE DEF eg, ea, en, before, waiting, away, size
<1>6. g \in 0 .. n /\ a \in 0 .. n
  BY <1>1, <1>4
<1>7. /\ EndOf(sent', g) = EndOf(sent, g) /\ EndOf(sent', a) = EndOf(sent, a)
      /\ EndOf(sent', n + 1) = EndOf(sent, n) + Size(m)
  BY <1>1, <1>2, <1>6, EndsStay
<1>8. /\ Packet(m) \in Seq(Byte) /\ Len(Packet(m)) = Size(m)
      /\ Size(m) \in Nat /\ Size(m) >= 10
  BY PacketBytes, MessageType
<1>9. flight' \in Seq(Byte) /\ Len(flight') = Len(flight) + Size(m)
  <2>1. flight \in Seq(Byte) /\ Packet(m) \in Seq(Byte)
    BY <1>1, <1>8
  <2> QED BY <2>1, <1>2, <1>8, Concatenation
<1>10. Len(sent') = n + 1 /\ (n \in Nat => sent'[n + 1] = m)
  BY <1>1, <1>2
<1> HIDE DEF n
<1>11. Lengths(g, a)'
  <2>1. g <= a /\ a <= n + 1
    BY <1>1, <1>4
  <2>2. Len(buffer') + Len(arrived') = EndOf(sent', a) - EndOf(sent', g)
    BY <1>2, <1>4, <1>7
  <2>3. Len(flight') = EndOf(sent', n + 1) - EndOf(sent', a)
    <3>1. away + size = (en + size) - ea
      BY <1>numbers
    <3> QED BY <1>7, <1>9, <3>1 DEF away, size, en, ea
  <2> QED BY <1>10, <2>1, <2>2, <2>3 DEF Lengths
<1>12. Contents(g, a)'
  <2>1. /\ BytesAt(sent, buffer, EndOf(sent, g))
        /\ BytesAt(sent, arrived, EndOf(sent, g) + Len(buffer))
        /\ BytesAt(sent, flight, EndOf(sent, a))
    BY <1>3 DEF Contents
  <2>2. /\ EndOf(sent, g) + Len(buffer) \in Nat
        /\ EndOf(sent, g) + Len(buffer) <= EndOf(sent, n)
        /\ EndOf(sent, g) + Len(buffer) + Len(arrived) <= EndOf(sent, n)
        /\ EndOf(sent, a) + Len(flight) <= EndOf(sent, n)
        /\ EndOf(sent, a) + Len(flight) = EndOf(sent, n)
    <3>1. /\ eg + before \in Nat /\ eg + before <= en /\ (eg + before) + waiting <= en
          /\ ea + away <= en /\ ea + away = en
      BY <1>numbers
    <3> QED BY <3>1 DEF eg, ea, en, before, waiting, away
  <2>3. BytesAt(sent', buffer, EndOf(sent, g))
    BY <1>1, <1>2, <1>5, <2>1, <2>2, EarlierBytes DEF n
  <2>4. BytesAt(sent', arrived, EndOf(sent, g) + Len(buffer))
    BY <1>1, <1>2, <2>1, <2>2, EarlierBytes DEF n
  <2>5. BytesAt(sent', flight, EndOf(sent, a))
    BY <1>1, <1>2, <1>5, <2>1, <2>2, EarlierBytes DEF n
  <2>6. BytesAt(sent', Packet(m), EndOf(sent, n))
    BY <1>1, <1>2, LastBytes DEF n
  <2>7. sent' \in Seq(Message)
    BY <1>1, <1>2
  <2>8. BytesAt(sent', Packet(m), EndOf(sent, a) + Len(flight))
    BY <2>2, <2>6
  <2>9. BytesAt(sent', flight', EndOf(sent, a))
    BY <1>1, <1>2, <1>5, <1>8, <2>5, <2>7, <2>8, JoinedBytes
  <2> QED BY <1>2, <1>7, <2>3, <2>4, <2>9 DEF Contents
<1>13. Limited(g)' /\ phase # "rest"
  <2>1. \/ EndOf(sent, n) - EndOf(sent, g) + Size(m) <= BufSize
        \/ EndOf(sent, n) - EndOf(sent, g) = 0 /\ Size(m) <= 2 * BufSize
    BY <1>2, <1>5 DEF FitsIn
  <2>2. CASE EndOf(sent, n) - EndOf(sent, g) + Size(m) <= BufSize
    <3>1. EndOf(sent', n + 1) - EndOf(sent', g) <= BufSize
      BY <1>5, <1>7, <1>8, <2>2
    <3>2. phase # "rest"
      <4>1. BufSize \in Nat /\ Len(buffer) # BufSize
        <5>1. en - eg + size <= BufSize
          BY <2>2 DEF en, eg, size
        <5>2. BufSize \in Nat /\ before # BufSize
          BY <1>numbers, <5>1
        <5> QED BY <5>2 DEF before
      <4> QED BY <1>1, <4>1
    <3> QED BY <1>10, <3>1, <3>2 DEF Limited
  <2>3. CASE EndOf(sent, n) - EndOf(sent, g) = 0 /\ Size(m) <= 2 * BufSize
    <3>1. g = n
      <4>1. en - eg = 0
        BY <2>3 DEF en, eg
      <4> QED BY <1>numbers, <4>1
    <3>2. Len(sent') = g + 1 /\ sent'[g + 1] = m
      BY <1>1, <1>10, <3>1
    <3>3. phase # "rest"
      <4>1. Len(buffer) = 0
        <5>1. en - eg = 0
          BY <2>3 DEF en, eg
        <5>2. before = 0
          BY <1>numbers, <5>1
        <5> QED BY <5>2 DEF before
      <4>2. BufSize > 10
        BY Typed
      <4> QED BY <1>1, <4>1, <4>2
    <3> QED BY <2>3, <3>2, <3>3 DEF Limited
  <2> QED BY <2>1, <2>2, <2>3
<1>14. Halfway(g, a)'
  BY <1>2, <1>13 DEF Halfway
<1> QED BY <1>11, <1>12, <1>13, <1>14 DEF Whereabouts

(* The network brings the next packet. *)
LEMMA DeliverStep ==
  ASSUME FramingTypeOK, NEW g \in Nat, NEW a \in Nat, Whereabouts(g, a), DeliverPacket
  PROVE  Whereabouts(g, a + 1)'
<1> DEFINE n == Len(sent)
           size == Size(sent[a + 1])
<1>0. n \in Nat /\ Len(flight) \in Nat /\ Len(arrived) \in Nat /\ Len(buffer) \in Nat
  BY Typed
<1>1. /\ sent \in Seq(Message) /\ n \in Nat /\ flight \in Seq(Byte) /\ Len(flight) \in Nat
      /\ arrived \in Seq(Byte) /\ Len(arrived) \in Nat /\ Len(buffer) \in Nat
  BY Typed
<1>2. flight # <<>> /\ Deliver(PacketSize(flight))
  BY DEF DeliverPacket
<1>3. a < n /\ PacketSize(flight) = size /\ size \in Nat /\ size <= Len(flight)
  BY <1>2, NextInFlight
<1>4. /\ arrived' = arrived \o SubSeq(flight, 1, size)
      /\ flight' = SubSeq(flight, size + 1, Len(flight))
      /\ sent' = sent /\ phase' = phase /\ buffer' = buffer
  BY <1>2, <1>3 DEF Deliver
<1>5. Lengths(g, a) /\ Contents(g, a) /\ Limited(g) /\ Halfway(g, a)
  BY DEF Whereabouts
<1>6. /\ g <= a /\ a <= n
      /\ Len(buffer) + Len(arrived) = EndOf(sent, a) - EndOf(sent, g)
      /\ Len(flight) = EndOf(sent, n) - EndOf(sent, a)
  BY <1>5 DEF Lengths
<1>7. EndOf(sent, g) \in Nat /\ EndOf(sent, a) \in Nat /\ EndOf(sent, n) \in Nat
  BY <1>5, Placed
<1>8. EndOf(sent, a + 1) = EndOf(sent, a) + size /\ size >= 10
  BY <1>1, <1>3, NextIsEntire
<1> HIDE DEF n, size
<1>9. /\ BytesAt(sent, buffer, EndOf(sent, g))
      /\ BytesAt(sent, arrived, EndOf(sent, g) + Len(buffer))
      /\ BytesAt(sent, flight, EndOf(sent, a))
  BY <1>5 DEF Contents
<1> DEFINE front == SubSeq(flight, 1, size)
           back == SubSeq(flight, size + 1, Len(flight))
<1>10. size \in 0 .. Len(flight)
  BY <1>1, <1>3
<1>11. front \in Seq(Byte) /\ Len(front) = size /\ BytesAt(sent, front, EndOf(sent, a))
  BY <1>1, <1>7, <1>9, <1>10, FrontBytes
<1>12. /\ back \in Seq(Byte) /\ Len(back) = Len(flight) - size
       /\ BytesAt(sent, back, EndOf(sent, a) + size)
  BY <1>1, <1>7, <1>9, <1>10, BackBytes
<1> HIDE DEF front, back
<1>13. EndOf(sent, g) + Len(buffer) \in Nat /\ (EndOf(sent, g) + Len(buffer)) + Len(arrived) = EndOf(sent, a)
  BY <1>0, <1>6, <1>7
<1>14. /\ arrived \o front \in Seq(Byte) /\ Len(arrived \o front) = Len(arrived) + Len(front)
       /\ BytesAt(sent, arrived \o front, EndOf(sent, g) + Len(buffer))
  <2>1. BytesAt(sent, front, (EndOf(sent, g) + Len(buffer)) + Len(arrived))
    BY <1>11, <1>13
  <2> QED BY <1>1, <1>9, <1>11, <1>13, <2>1, JoinedBytes
<1>15. arrived' = arrived \o front /\ flight' = back
  BY <1>4 DEF front, back
<1>16. Lengths(g, a + 1)'
  <2>1. g <= a + 1 /\ a + 1 <= n /\ a + 1 \in Nat
    BY <1>1, <1>3, <1>6
  <2>2. Len(buffer') + Len(arrived') = EndOf(sent, a + 1) - EndOf(sent, g)
    <3>1. Len(buffer') = Len(buffer) /\ Len(arrived') = Len(arrived) + size
      BY <1>4, <1>11, <1>14, <1>15
    <3>2. Len(buffer) + (Len(arrived) + size) = (EndOf(sent, a) + size) - EndOf(sent, g)
      <4> DEFINE eg == EndOf(sent, g)
                 ea == EndOf(sent, a)
                 before == Len(buffer)
                 waiting == Len(arrived)
      <4>1. /\ before \in Nat /\ waiting \in Nat /\ size \in Nat
            /\ eg \in Nat /\ ea \in Nat /\ before + waiting = ea - eg
        BY <1>0, <1>3, <1>6, <1>7
      <4> HIDE DEF eg, ea, before, waiting
      <4>2. before + (waiting + size) = (ea + size) - eg
        BY <4>1
      <4> QED BY <4>2 DEF eg, ea, before, waiting
    <3> QED BY <1>8, <3>1, <3>2
  <2>3. Len(flight') = EndOf(sent, n) - EndOf(sent, a + 1)
    <3>1. Len(flight') = Len(flight) - size
      BY <1>12, <1>15
    <3> QED BY <1>0, <1>3, <1>6, <1>7, <1>8, <3>1
  <2> QED BY <1>4, <2>1, <2>2, <2>3 DEF Lengths, n
<1>17. Contents(g, a + 1)'
  BY <1>4, <1>8, <1>9, <1>12, <1>14, <1>15 DEF Contents
<1>18. Limited(g)'
  BY <1>4, <1>5 DEF Limited
<1>19. Halfway(g, a + 1)'
  BY <1>1, <1>3, <1>4, <1>5 DEF Halfway, n
<1> QED BY <1>16, <1>17, <1>18, <1>19 DEF Whereabouts

(* Everything that had arrived has been read. *)
LEMMA AllRead ==
  ASSUME FramingTypeOK, NEW g \in Nat, NEW a \in Nat, Whereabouts(g, a),
         sent' = sent, flight' = flight, buffer' = <<>>, arrived' = <<>>, phase' = "select"
  PROVE  Whereabouts(a, a)'
<1> DEFINE n == Len(sent)
           eg == EndOf(sent, g)
           ea == EndOf(sent, a)
           en == EndOf(sent, n)
<1>1. Lengths(g, a) /\ Contents(g, a) /\ Limited(g)
  BY DEF Whereabouts
<1>2. /\ g <= a /\ a <= n /\ Len(flight) = en - ea
  BY <1>1 DEF Lengths
<1>3. /\ n \in Nat /\ BufSize \in Nat /\ eg \in Nat /\ ea \in Nat /\ en \in Nat
      /\ eg + 10 * (a - g) <= ea
  BY <1>1, Placed, Typed
<1>4. en - eg <= BufSize \/ n = g + 1
  BY <1>1 DEF Limited
<1>5. Lengths(a, a)'
  BY <1>2, <1>3 DEF Lengths
<1>6. Contents(a, a)'
  <2>1. BytesAt(sent, flight, EndOf(sent, a))
    BY <1>1 DEF Contents
  <2> QED BY <2>1, NoBytes DEF Contents
<1>7. Limited(a)'
  <2>1. CASE a = g
    BY <1>1, <2>1 DEF Limited
  <2>2. CASE a # g
    <3> HIDE DEF eg, ea, en, n
    <3>1. en - ea <= BufSize
      <4>1. CASE en - eg <= BufSize
        BY <1>2, <1>3, <4>1
      <4>2. CASE n = g + 1
        <5>1. a = n
          BY <1>2, <1>3, <2>2, <4>2
        <5>2. en = ea
          BY <5>1 DEF en, ea
        <5> QED BY <1>3, <5>2
      <4> QED BY <1>4, <4>1, <4>2
    <3> QED BY <3>1 DEF Limited, en, ea, n
  <2> QED BY <2>1, <2>2
<1>8. Halfway(a, a)'
  BY DEF Halfway
<1> QED BY <1>5, <1>6, <1>7, <1>8 DEF Whereabouts

(* Before select(): the packets that arrived together fit the buffer.      *)
LEMMA ReceiveStep ==
  ASSUME FramingTypeOK, NEW g \in Nat, NEW a \in Nat, Whereabouts(g, a), Receive,
         EndOf(sent, Len(sent)) - EndOf(sent, g) <= BufSize
  PROVE  /\ Whereabouts(a, a)' /\ handled' = Append(handled, sent[g + 1])
         /\ g < a /\ 10 * (a - g) <= BufSize
<1> DEFINE n == Len(sent)
           eg == EndOf(sent, g)
           ea == EndOf(sent, a)
           en == EndOf(sent, n)
           waiting == Len(arrived)
           m == sent[g + 1]
<1>1. Lengths(g, a) /\ BytesAt(sent, arrived, EndOf(sent, g) + Len(buffer))
  BY DEF Whereabouts, Contents
<1>2. phase = "select" /\ arrived # <<>> /\ buffer = <<>> /\ Len(buffer) = 0
  BY DEF Receive, FramingTypeOK
<1>3. /\ sent \in Seq(Message) /\ n \in Nat /\ arrived \in Seq(Byte)
      /\ waiting \in Nat /\ waiting # 0 /\ BufSize \in Nat
  BY <1>2, Typed
<1>4. /\ eg \in Nat /\ ea \in Nat /\ en \in Nat
      /\ eg + 10 * (a - g) <= ea /\ ea + 10 * (n - a) <= en
  BY <1>1, Placed
<1>5. g <= a /\ a <= n /\ waiting = ea - eg /\ en - eg <= BufSize
  <2>1. g <= a /\ a <= n /\ Len(buffer) + waiting = ea - eg
    BY <1>1 DEF Lengths
  <2> QED BY <1>2, <1>3, <2>1
<1>6. g < a
  <2>1. g = a => ea = eg
    OBVIOUS
  <2> HIDE DEF waiting, ea, eg
  <2>2. g # a
    BY <1>3, <1>4, <1>5, <2>1
  <2> QED BY <1>5, <2>2
<1>7. /\ m \in Message /\ Size(m) \in Nat /\ Size(m) >= 10 /\ eg + Size(m) <= ea
  BY <1>3, <1>5, <1>6, NextIsEntire
<1>8. g < n /\ BytesAt(sent, arrived, EndOf(sent, g))
  <2>1. EndOf(sent, g) + Len(buffer) = EndOf(sent, g)
    BY <1>2, <1>4
  <2>2. g < n
    BY <1>3, <1>5, <1>6
  <2> QED BY <1>1, <2>1, <2>2
<1> DEFINE size == Size(m)
<1> HIDE DEF n, eg, ea, en, waiting, size
<1>9. waiting <= BufSize /\ size <= waiting /\ 10 <= waiting /\ size <= BufSize /\ 10 * (a - g) <= BufSize
  <2>1. size \in Nat /\ size >= 10 /\ eg + size <= ea
    BY <1>7 DEF size
  <2> QED BY <1>3, <1>4, <1>5, <2>1
<1>10. Taken = arrived
  BY <1>9, TakenFacts DEF waiting
<1>11. \A i \in 1 .. Size(m) : arrived[i] = Packet(m)[i]
  BY <1>3, <1>7, <1>8, <1>9, StartsWith DEF n, size, waiting
<1>12. ~NeedsRest(arrived)
  <2>1. \A i \in 1 .. 10 : i \in 1 .. Size(m)
    BY <1>7
  <2>2. \A i \in 1 .. 10 : arrived[i] = Packet(m)[i]
    BY <1>11, <2>1
  <2>3. Len(arrived) >= 10
    BY <1>3, <1>9 DEF waiting
  <2>4. PacketSize(arrived) = Size(m)
    BY <1>3, <1>7, <2>2, <2>3, HeaderIsRead
  <2> QED BY <1>3, <1>7, <1>9, <2>4 DEF NeedsRest, size
<1>13. HandlePacket(arrived) /\ UNCHANGED <<sent, flight, buffer>> /\ TakeArrived
  BY <1>10, <1>12 DEF Receive
<1>14. phase' = "select" /\ handled' = Append(handled, m)
  <2>1. Len(arrived) >= Size(m)
    BY <1>3, <1>7, <1>9 DEF waiting, size
  <2> QED BY <1>3, <1>7, <1>11, <1>13, <2>1, HandleEntire
<1>15. arrived' = <<>>
  <2>1. arrived' = SubSeq(arrived, Len(arrived) + 1, Len(arrived))
    BY <1>10, <1>13 DEF TakeArrived
  <2> QED BY <1>3, <2>1
<1> QED BY <1>2, <1>6, <1>9, <1>13, <1>14, <1>15, AllRead

(* A vector read from its start to its end is itself. *)
LEMMA BytesInFull ==
  ASSUME NEW content \in Seq(Byte)
  PROVE  Bytes(content, 1, Len(content)) = content
<1>1. Len(content) \in Nat /\ DOMAIN content = 1 .. Len(content)
  OBVIOUS
<1>2. Len(content) - 1 + 1 = Len(content) /\ \A k \in 1 .. Len(content) : 1 + k - 1 = k
  BY <1>1
<1>3. Bytes(content, 1, Len(content)) = [k \in 1 .. Len(content) |-> content[k]]
  BY <1>1, <1>2 DEF Bytes
<1> QED BY <1>3

(* Before select(): a packet that is longer than the buffer is there alone. *)
LEMMA ReceiveLongStep ==
  ASSUME FramingTypeOK, NEW g \in Nat, NEW a \in Nat, Whereabouts(g, a), Receive,
         ~(EndOf(sent, Len(sent)) - EndOf(sent, g) <= BufSize)
  PROVE  Whereabouts(g, a)' /\ handled' = handled
<1> DEFINE n == Len(sent)
           eg == EndOf(sent, g)
           ea == EndOf(sent, a)
           en == EndOf(sent, n)
           waiting == Len(arrived)
           m == sent[g + 1]
           rest == SubSeq(arrived, BufSize + 1, Len(arrived))
<1>1. /\ Lengths(g, a) /\ Limited(g)
      /\ BytesAt(sent, arrived, EndOf(sent, g) + Len(buffer))
      /\ BytesAt(sent, flight, EndOf(sent, a))
  BY DEF Whereabouts, Contents
<1>2. phase = "select" /\ arrived # <<>> /\ buffer = <<>> /\ Len(buffer) = 0
  BY DEF Receive, FramingTypeOK
<1>3. /\ sent \in Seq(Message) /\ n \in Nat /\ arrived \in Seq(Byte)
      /\ waiting \in Nat /\ waiting # 0 /\ BufSize \in Nat /\ BufSize > 10
  BY <1>2, Typed
<1>4. /\ eg \in Nat /\ ea \in Nat /\ en \in Nat
      /\ eg + 10 * (a - g) <= ea /\ ea + 10 * (n - a) <= en
  BY <1>1, Placed
<1>5. g <= a /\ a <= n /\ waiting = ea - eg /\ en - eg > BufSize
  <2>1. g <= a /\ a <= n /\ Len(buffer) + waiting = ea - eg
    BY <1>1 DEF Lengths
  <2>2. ~(en - eg <= BufSize)
    OBVIOUS
  <2> HIDE DEF en, eg
  <2>3. en - eg > BufSize
    BY <1>3, <1>4, <2>2
  <2> QED BY <1>2, <1>3, <2>1, <2>3
<1>6. n = g + 1 /\ Size(m) <= 2 * BufSize
  BY <1>1 DEF Limited
<1>7. g < a /\ a = g + 1 /\ a = n /\ g < n
  <2>1. g = a => ea = eg
    OBVIOUS
  <2> HIDE DEF waiting, ea, eg, n
  <2>2. g # a
    BY <1>3, <1>4, <1>5, <2>1
  <2> QED BY <1>3, <1>5, <1>6, <2>2
<1>8. /\ m \in Message /\ Size(m) \in Nat /\ Size(m) >= 10 /\ ea = eg + Size(m) /\ en = ea
  BY <1>3, <1>5, <1>7, NextIsEntire
<1>9. BytesAt(sent, arrived, EndOf(sent, g))
  <2>1. EndOf(sent, g) + Len(buffer) = EndOf(sent, g)
    BY <1>2, <1>4
  <2> QED BY <1>1, <2>1
<1> DEFINE size == Size(m)
<1> HIDE DEF n, eg, ea, en, waiting, size, rest
<1>10. waiting = size /\ size > BufSize /\ size <= 2 * BufSize
  <2>1. size \in Nat /\ ea = eg + size /\ en = ea /\ size <= 2 * BufSize
    BY <1>6, <1>8 DEF size
  <2> QED BY <1>3, <1>4, <1>5, <2>1
<1>11. Taken = SubSeq(arrived, 1, BufSize) /\ Len(Taken) = BufSize /\ Taken \in Seq(Byte)
  BY <1>10, TakenFacts DEF waiting
<1>12. BufSize \in 0 .. Len(arrived)
  BY <1>3, <1>10 DEF waiting
<1>13. BytesAt(sent, Taken, EndOf(sent, g))
  BY <1>3, <1>4, <1>9, <1>11, <1>12, FrontBytes DEF eg
<1>14. /\ rest \in Seq(Byte) /\ Len(rest) = waiting - BufSize
       /\ BytesAt(sent, rest, EndOf(sent, g) + BufSize)
  BY <1>3, <1>4, <1>9, <1>12, BackBytes DEF eg, rest, waiting
<1>15. PacketSize(Taken) = Size(m)
  <2>1. 10 \in Nat /\ 10 <= Size(m) /\ 10 <= Len(Taken) /\ Len(Taken) >= 10
    BY <1>3, <1>8, <1>11
  <2>2. \A i \in 1 .. 10 : Taken[i] = Packet(m)[i]
    <3>1. sent \in Seq(Message) /\ g < Len(sent) /\ Taken \in Seq(Byte)
      BY <1>3, <1>7, <1>11 DEF n
    <3> QED BY <1>13, <2>1, <3>1, StartsWith
  <2> QED BY <1>8, <1>11, <2>1, <2>2, HeaderIsRead
<1>16. NeedsRest(Taken) /\ ~(VectorSize(Taken) > MaxAlloc)
  <2>1. NeedsRest(Taken) /\ VectorSize(Taken) = size
    BY <1>10, <1>15 DEF NeedsRest, VectorSize, size
  <2>2. MaxAlloc \in Nat /\ MaxAlloc >= 2 * BufSize
    BY FramingAssumption
  <2> QED BY <1>3, <1>8, <1>10, <2>1, <2>2 DEF size
<1>17. /\ buffer' = Bytes(Taken, 1, BufSize) /\ phase' = "rest" /\ handled' = handled
       /\ sent' = sent /\ flight' = flight /\ TakeArrived
  BY <1>16 DEF Receive
<1>18. buffer' = Taken /\ arrived' = rest
  BY <1>11, <1>17, BytesInFull DEF TakeArrived, rest
<1>19. Lengths(g, a)'
  <2>1. BufSize + (waiting - BufSize) = ea - eg
    BY <1>3, <1>4, <1>5
  <2>2. Len(buffer') + Len(arrived') = EndOf(sent', a) - EndOf(sent', g)
    BY <1>11, <1>14, <1>17, <1>18, <2>1 DEF ea, eg
  <2> QED BY <1>1, <1>17, <2>2 DEF Lengths
<1>20. Contents(g, a)'
  BY <1>1, <1>11, <1>13, <1>14, <1>17, <1>18 DEF Contents
<1>21. Limited(g)'
  BY <1>1, <1>17 DEF Limited
<1>22. Halfway(g, a)'
  <2>1. Len(rest) # 0
    BY <1>3, <1>8, <1>10, <1>14 DEF size
  <2>2. rest # <<>>
    BY <2>1
  <2> QED BY <1>6, <1>7, <1>17, <1>18, <2>2 DEF Halfway, n
<1> QED BY <1>17, <1>19, <1>20, <1>21, <1>22 DEF Whereabouts

(* In the second recv(): the rest of the packet is there, and nothing else. *)
LEMMA ReceiveRestStep ==
  ASSUME FramingTypeOK, NEW g \in Nat, NEW a \in Nat, Whereabouts(g, a), ReceiveRest
  PROVE  /\ Whereabouts(a, a)' /\ handled' = Append(handled, sent[g + 1])
         /\ a = g + 1
<1> DEFINE n == Len(sent)
           eg == EndOf(sent, g)
           ea == EndOf(sent, a)
           waiting == Len(arrived)
           m == sent[g + 1]
           size == Size(m)
<1>1. /\ Lengths(g, a) /\ Limited(g) /\ Halfway(g, a)
      /\ BytesAt(sent, buffer, EndOf(sent, g))
      /\ BytesAt(sent, arrived, EndOf(sent, g) + Len(buffer))
  BY DEF Whereabouts, Contents
<1>2. /\ phase = "rest" /\ TakeArrived /\ buffer' = <<>> /\ sent' = sent /\ flight' = flight
      /\ HandlePacket(Rest) \/ (Len(Rest) > VectorSize(Rest) /\ Crash)
  BY DEF ReceiveRest
<1>3. /\ sent \in Seq(Message) /\ n \in Nat /\ arrived \in Seq(Byte) /\ buffer \in Seq(Byte)
      /\ waiting \in Nat /\ Len(buffer) = BufSize /\ BufSize \in Nat
  BY <1>2, Typed
<1>4. n = g + 1 /\ a = g + 1 /\ waiting # 0 /\ g < a /\ g < n /\ a <= n
  <2>1. n = g + 1 /\ a = g + 1 /\ arrived # <<>>
    BY <1>1, <1>2 DEF Halfway
  <2>2. waiting # 0
    BY <2>1, Typed
  <2> QED BY <2>1, <2>2
<1>5. /\ m \in Message /\ size \in Nat /\ size >= 10 /\ ea = eg + size
  BY <1>3, <1>4, NextIsEntire
<1>6. eg \in Nat /\ ea \in Nat
  BY <1>1, Placed
<1>7. BufSize + waiting = ea - eg
  BY <1>1, <1>3 DEF Lengths
<1>8. ea - eg <= BufSize \/ size <= 2 * BufSize
  BY <1>1, <1>4 DEF Limited
<1> HIDE DEF n, eg, ea, waiting, size
<1>9. BufSize + waiting = size /\ waiting <= BufSize
  <2>1. waiting \in Nat /\ BufSize \in Nat
    BY <1>3
  <2> QED BY <1>4, <1>5, <1>6, <1>7, <1>8, <2>1
<1>10. Taken = arrived
  BY <1>9, TakenFacts DEF waiting
<1>11. /\ Rest \in Seq(Byte) /\ Len(Rest) = BufSize + waiting
       /\ BytesAt(sent, Rest, EndOf(sent, g))
  <2>1. Rest = buffer \o arrived
    BY <1>10 DEF Rest
  <2>2. buffer \in Seq(Byte) /\ arrived \in Seq(Byte) /\ EndOf(sent, g) \in Nat
    BY <1>3, <1>6 DEF eg
  <2>3. Rest \in Seq(Byte) /\ Len(Rest) = Len(buffer) + Len(arrived) /\ BytesAt(sent, Rest, EndOf(sent, g))
    BY <1>1, <1>3, <2>1, <2>2, JoinedBytes
  <2> QED BY <1>3, <2>3 DEF waiting
<1>12. Len(Rest) = Size(m) /\ Size(m) \in Nat /\ Size(m) <= Size(m) /\ Len(Rest) >= Size(m)
       /\ Len(Rest) >= 10 /\ Size(m) <= Len(Rest)
  <2>1. Len(Rest) = size
    BY <1>9, <1>11
  <2>2. size <= size /\ size >= size
    BY <1>5
  <2> QED BY <1>5, <2>1, <2>2 DEF size
<1>13. \A i \in 1 .. Size(m) : Rest[i] = Packet(m)[i]
  <2>1. sent \in Seq(Message) /\ g < Len(sent) /\ Rest \in Seq(Byte)
    BY <1>3, <1>4, <1>11 DEF n
  <2> QED BY <1>11, <1>12, <2>1, StartsWith
<1>14. PacketSize(Rest) = Size(m)
  <2>1. \A i \in 1 .. 10 : i \in 1 .. Size(m)
    BY <1>5 DEF size
  <2>2. \A i \in 1 .. 10 : Rest[i] = Packet(m)[i]
    BY <1>13, <2>1
  <2> QED BY <1>5, <1>11, <1>12, <2>2, HeaderIsRead
<1>15. ~(Len(Rest) > VectorSize(Rest))
  <2>1. VectorSize(Rest) \in Nat /\ VectorSize(Rest) >= Size(m)
    BY <1>11, <1>14, SizesTyped
  <2> QED BY <1>12, <2>1
<1>16. phase' = "select" /\ handled' = Append(handled, m)
  BY <1>2, <1>5, <1>11, <1>12, <1>13, <1>15, HandleEntire
<1>17. arrived' = <<>>
  <2>1. arrived' = SubSeq(arrived, Len(arrived) + 1, Len(arrived))
    BY <1>2, <1>10 DEF TakeArrived
  <2> QED BY <1>3, <2>1
<1> QED BY <1>2, <1>4, <1>16, <1>17, AllRead
-----------------------------------------------------------------------------
(* The types, action by action. *)

(* Bytes move from the network to the socket. *)
LEMMA DeliverTyped ==
  ASSUME FramingTypeOK, NEW n \in Nat, n <= Len(flight), Deliver(n), orderly' \in BOOLEAN
  PROVE  FramingTypeOK'
<1>1. flight \in Seq(Byte) /\ Len(flight) \in Nat /\ arrived \in Seq(Byte)
  BY Typed
<1>2. /\ arrived' = arrived \o SubSeq(flight, 1, n)
      /\ flight' = SubSeq(flight, n + 1, Len(flight))
      /\ UNCHANGED <<sent, open, phase, buffer, handled>>
  BY DEF Deliver
<1>3. SubSeq(flight, 1, n) \in Seq(Byte) /\ SubSeq(flight, n + 1, Len(flight)) \in Seq(Byte)
  BY <1>1
<1>4. arrived \o SubSeq(flight, 1, n) \in Seq(Byte)
  BY <1>1, <1>3, Concatenation
<1> QED BY <1>2, <1>3, <1>4 DEF FramingTypeOK

(* The first recv(). *)
LEMMA ReceiveTyped ==
  ASSUME FramingTypeOK, Receive
  PROVE  FramingTypeOK'
<1>1. /\ phase = "select" /\ buffer = <<>> /\ arrived' \in Seq(Byte)
      /\ sent' = sent /\ flight' = flight /\ open' = open /\ orderly' = orderly
  BY TakenFacts DEF Receive, TakeArrived, FramingTypeOK
<1>2. Taken \in Seq(Byte)
  BY TakenFacts
<1>3. CASE (HandlePacket(Taken) \/ Crash) /\ UNCHANGED buffer
  <2>1. /\ handled' \in Seq([type : KnownTypes, text : Seq(Byte) \cup {NoText}])
        /\ phase' \in {"select", "crashed"}
    BY <1>2, <1>3, HandlePacketTyped
  <2> QED BY <1>1, <1>3, <2>1 DEF FramingTypeOK
<1>4. CASE buffer' = Bytes(Taken, 1, BufSize) /\ phase' = "rest" /\ UNCHANGED handled
  <2>1. BufSize \in Nat /\ BufSize > 10
    BY Typed
  <2>2. Bytes(Taken, 1, BufSize) \in Seq(Byte) /\ Len(Bytes(Taken, 1, BufSize)) = BufSize
    <3>1. 1 \in Nat \ {0} /\ 1 <= BufSize + 1 /\ BufSize - 1 + 1 = BufSize
      BY <2>1
    <3> QED BY <1>2, <2>1, <3>1, BytesTyped
  <2>3. Len(buffer') \in {0, BufSize} /\ buffer' # <<>> /\ buffer' \in Seq(Byte)
    <3>1. Len(buffer') # 0
      BY <1>4, <2>1, <2>2
    <3> QED BY <1>4, <2>2, <3>1
  <2> QED BY <1>1, <1>4, <2>3 DEF FramingTypeOK
<1> QED BY <1>3, <1>4 DEF Receive

(* The second recv(). *)
LEMMA ReceiveRestTyped ==
  ASSUME FramingTypeOK, ReceiveRest
  PROVE  FramingTypeOK'
<1>1. /\ buffer' = <<>> /\ arrived' \in Seq(Byte)
      /\ sent' = sent /\ flight' = flight /\ open' = open /\ orderly' = orderly
  BY TakenFacts DEF ReceiveRest, TakeArrived
<1>2. Rest \in Seq(Byte)
  <2>1. buffer \in Seq(Byte) /\ Taken \in Seq(Byte)
    BY Typed, TakenFacts
  <2> QED BY <2>1, Concatenation DEF Rest
<1>3. HandlePacket(Rest) \/ Crash
  BY DEF ReceiveRest
<1>4. /\ handled' \in Seq([type : KnownTypes, text : Seq(Byte) \cup {NoText}])
      /\ phase' \in {"select", "crashed"}
  BY <1>2, <1>3, HandlePacketTyped
<1> QED BY <1>1, <1>4 DEF FramingTypeOK

(* Every action keeps the types; DeliverPacket needs the invariant to find  *)
(* its packet in flight.                                                   *)
LEMMA NextTyped ==
  ASSUME FramingInv, Next
  PROVE  FramingTypeOK'
<1>0. FramingTypeOK
  BY DEF FramingInv
<1>1. ASSUME NEW m \in Message, Send(m) PROVE FramingTypeOK'
  <2>1. /\ sent' = Append(sent, m) /\ flight' = flight \o Packet(m)
        /\ orderly' \in BOOLEAN /\ UNCHANGED <<arrived, open, phase, buffer, handled>>
    BY <1>1 DEF Send
  <2>2. sent' \in Seq(Message)
    BY <1>0, <2>1, Typed
  <2>3. flight' \in Seq(Byte)
    <3>1. flight \in Seq(Byte) /\ Packet(m) \in Seq(Byte)
      BY <1>0, Typed, PacketBytes
    <3> QED BY <2>1, <3>1, Concatenation
  <2> QED BY <1>0, <2>1, <2>2, <2>3 DEF FramingTypeOK
<1>2. CASE DeliverPacket
  <2>1. orderly /\ flight # <<>> /\ Deliver(PacketSize(flight)) /\ orderly' = orderly
    BY <1>2 DEF DeliverPacket
  <2>2. PICK g, a \in Nat : Whereabouts(g, a)
    BY <2>1 DEF FramingInv
  <2>3. PacketSize(flight) \in Nat /\ PacketSize(flight) <= Len(flight)
    BY <1>0, <2>1, <2>2, NextInFlight
  <2>4. orderly' \in BOOLEAN
    BY <1>0, <2>1 DEF FramingTypeOK
  <2> QED BY <1>0, <2>1, <2>3, <2>4, DeliverTyped
<1>3. CASE DeliverPart
  <2>0. flight \in Seq(Byte) /\ Len(flight) \in Nat /\ orderly \in BOOLEAN
    BY <1>0, Typed DEF FramingTypeOK
  <2>1. ASSUME NEW n \in Cuts, n < Len(flight), Deliver(n), orderly' = FALSE
        PROVE  FramingTypeOK'
    <3>1. n \in Nat
      BY FramingAssumption
    <3>2. n <= Len(flight)
      BY <2>0, <2>1, <3>1
    <3> QED BY <1>0, <2>1, <3>1, <3>2, DeliverTyped
  <2>2. ASSUME Deliver(Len(flight)), UNCHANGED orderly
        PROVE  FramingTypeOK'
    <3>1. Len(flight) <= Len(flight) /\ orderly' \in BOOLEAN
      BY <2>0, <2>2
    <3> QED BY <1>0, <2>0, <2>2, <3>1, DeliverTyped
  <2> QED BY <1>3, <2>1, <2>2 DEF DeliverPart
<1>4. CASE Close
  BY <1>0, <1>4 DEF Close, FramingTypeOK
<1>5. CASE Receive
  BY <1>0, <1>5, ReceiveTyped
<1>6. CASE ReceiveRest
  BY <1>0, <1>6, ReceiveRestTyped
<1>7. CASE ReceiveEnd
  BY <1>0, <1>7 DEF ReceiveEnd, FramingTypeOK
<1>8. CASE Stopped
  BY <1>0, <1>8 DEF Stopped, vars, FramingTypeOK
<1> QED BY <1>1, <1>2, <1>3, <1>4, <1>5, <1>6, <1>7, <1>8 DEF Next, Network, Receiver

(* Nothing of the stream has changed. *)
LEMMA NothingMoves ==
  ASSUME NEW g \in Nat, NEW a \in Nat, Whereabouts(g, a),
         UNCHANGED <<sent, flight, arrived, buffer>>, phase' # "rest" \/ phase' = phase
  PROVE  Whereabouts(g, a)'
BY DEF Whereabouts, Lengths, Contents, Limited, Halfway

(* A stream that stays orderly: a packet is sent, or the next packets are  *)
(* read and the first of them handled, or neither.                         *)
Sends(g, h) == h = g /\ handled' = handled /\ \E m \in Message : sent' = Append(sent, m)

Handles(g, h) ==
    /\ g < h /\ 10 * (h - g) <= BufSize
    /\ handled' = Append(handled, sent[g + 1]) /\ sent' = sent

Moves(g, h) == h = g /\ handled' = handled /\ sent' = sent

(* Every action of a stream that stays orderly is one of the three.        *)
LEMMA OrderlyStep ==
  ASSUME FramingInv, Next, orderly'
  PROVE  /\ orderly
         /\ \E g, a, h, b \in Nat :
               /\ Whereabouts(g, a) /\ Whereabouts(h, b)'
               /\ Sends(g, h) \/ Handles(g, h) \/ Moves(g, h)
<1>0. FramingTypeOK
  BY DEF FramingInv
<1>1. orderly
  BY DEF Next, Send, Network, DeliverPacket, DeliverPart, Close, Receiver, Receive, ReceiveRest,
         ReceiveEnd, Stopped, vars
<1>2. PICK g \in Nat, a \in Nat : Whereabouts(g, a)
  BY <1>1 DEF FramingInv
<1> DEFINE Goal == \E h, b \in Nat :
                      /\ Whereabouts(h, b)'
                      /\ Sends(g, h) \/ Handles(g, h) \/ Moves(g, h)
<1>3. ASSUME NEW m \in Message, Send(m) PROVE Goal
  <2>1. Whereabouts(g, a)'
    BY <1>0, <1>2, <1>3, SendStep
  <2>2. Sends(g, g)
    BY <1>3 DEF Send, Sends
  <2> QED BY <2>1, <2>2
<1>4. ASSUME DeliverPacket PROVE Goal
  <2>1. Whereabouts(g, a + 1)'
    BY <1>0, <1>2, <1>4, DeliverStep
  <2>2. Moves(g, g) /\ a + 1 \in Nat
    BY <1>4 DEF DeliverPacket, Deliver, Moves
  <2> QED BY <2>1, <2>2
<1>5. ~DeliverPart
  BY <1>1 DEF DeliverPart
<1>6. ASSUME Receive PROVE Goal
  <2>1. CASE EndOf(sent, Len(sent)) - EndOf(sent, g) <= BufSize
    <3>1. /\ Whereabouts(a, a)' /\ handled' = Append(handled, sent[g + 1])
          /\ g < a /\ 10 * (a - g) <= BufSize
      BY <1>0, <1>2, <1>6, <2>1, ReceiveStep
    <3>2. Handles(g, a)
      BY <1>6, <3>1 DEF Receive, Handles
    <3> QED BY <3>1, <3>2
  <2>2. CASE ~(EndOf(sent, Len(sent)) - EndOf(sent, g) <= BufSize)
    <3>1. Whereabouts(g, a)' /\ handled' = handled
      BY <1>0, <1>2, <1>6, <2>2, ReceiveLongStep
    <3>2. Moves(g, g)
      BY <1>6, <3>1 DEF Receive, Moves
    <3> QED BY <3>1, <3>2
  <2> QED BY <2>1, <2>2
<1>7. ASSUME ReceiveRest PROVE Goal
  <2>1. Whereabouts(a, a)' /\ handled' = Append(handled, sent[g + 1]) /\ a = g + 1
    BY <1>0, <1>2, <1>7, ReceiveRestStep
  <2>2. g < a /\ 10 * (a - g) <= BufSize
    <3>1. BufSize \in Nat /\ BufSize > 10
      BY <1>0, Typed
    <3> QED BY <2>1, <3>1
  <2>3. Handles(g, a)
    BY <1>7, <2>1, <2>2 DEF ReceiveRest, Handles
  <2> QED BY <2>1, <2>3
<1>8. ASSUME Close \/ ReceiveEnd \/ Stopped PROVE Goal
  <2>1. UNCHANGED <<sent, flight, arrived, buffer, handled>> /\ (phase' # "rest" \/ phase' = phase)
    BY <1>8 DEF Close, ReceiveEnd, Stopped, vars
  <2>2. Whereabouts(g, a)'
    BY <1>2, <2>1, NothingMoves
  <2>3. Moves(g, g)
    BY <2>1 DEF Moves
  <2> QED BY <2>2, <2>3
<1>9. Goal
  BY <1>3, <1>4, <1>5, <1>6, <1>7, <1>8 DEF Next, Network, Receiver
<1> QED BY <1>1, <1>2, <1>9

(* The invariant holds at the start. *)
LEMMA FramingInvInit == Init => FramingInv
<1> SUFFICES ASSUME Init PROVE FramingInv
  OBVIOUS
<1>1. /\ sent = << >> /\ flight = << >> /\ arrived = << >> /\ buffer = << >>
      /\ phase = "select" /\ handled = << >> /\ open = TRUE /\ orderly = TRUE
  BY DEF Init
<1>2. << >> \in Seq(Message) /\ << >> \in Seq(Byte) /\ Len(<< >>) = 0
      /\ << >> \in Seq([type : KnownTypes, text : Seq(Byte) \cup {NoText}])
  OBVIOUS
<1>3. FramingTypeOK
  BY <1>1, <1>2 DEF FramingTypeOK
<1>4. EndOf(sent, 0) = 0 /\ BufSize \in Nat
  BY <1>1, <1>2, Ends, FramingAssumption
<1>5. Lengths(0, 0)
  BY <1>1, <1>2, <1>4 DEF Lengths
<1>6. Contents(0, 0)
  BY <1>1, NoBytes DEF Contents
<1>7. Limited(0) /\ Halfway(0, 0)
  BY <1>1, <1>2, <1>4 DEF Limited, Halfway
<1> QED BY <1>3, <1>5, <1>6, <1>7 DEF FramingInv, Whereabouts

(* Every step keeps it. *)
LEMMA FramingInvNext == FramingInv /\ [Next]_vars => FramingInv'
<1> SUFFICES ASSUME FramingInv, [Next]_vars PROVE FramingInv'
  OBVIOUS
<1>1. CASE Next
  <2>1. FramingTypeOK'
    BY <1>1, NextTyped
  <2>2. ASSUME orderly' PROVE (\E g, a \in Nat : Whereabouts(g, a))'
    BY <1>1, <2>2, OrderlyStep
  <2> QED BY <2>1, <2>2 DEF FramingInv
<1>2. CASE UNCHANGED vars
  BY <1>2 DEF FramingInv, FramingTypeOK, Whereabouts, Lengths, Contents, Limited, Halfway, vars
<1> QED BY <1>1, <1>2

(* So it always holds. *)
LEMMA SpecFramingInv == Spec => []FramingInv
<1> QED BY FramingInvInit, FramingInvNext, PTL DEF Spec

(* Types of the streams and of the receiver's state, for buffers of every  *)
(* size and whatever way the bytes come.                                   *)
THEOREM FramingTypeInvariant == Spec => []FramingTypeOK
<1>1. FramingInv => FramingTypeOK
  BY DEF FramingInv
<1> QED BY <1>1, SpecFramingInv, PTL

(* The second recv() of main_server_select.cpp, main_auth_server.cpp and   *)
(* main_client.cpp finds the rest of its packet there, as long as a packet *)
(* arrives in one piece and what waits fits the buffer.                    *)
THEOREM RestIsAlwaysThere == Spec => []RestIsThere
<1>1. FramingInv => RestIsThere
  BY DEF FramingInv, RestIsThere, Whereabouts, Halfway
<1> QED BY <1>1, SpecFramingInv, PTL
-----------------------------------------------------------------------------
(* The connection implements the queue of packets. *)

(* How many packets have no byte among the last `unread` ones.             *)
ReadUpTo(packets, unread) ==
    Cardinality({k \in DOMAIN packets : EndOf(packets, k) + unread <= Total(packets)})

(* They are the packets up to the one behind which so many bytes follow. *)
LEMMA GoneIs ==
  ASSUME NEW q \in Seq(Message), NEW g \in Nat, g <= Len(q),
         NEW unread, unread = EndOf(q, Len(q)) - EndOf(q, g)
  PROVE  ReadUpTo(q, unread) = g
<1> DEFINE n == Len(q)
           read == {k \in DOMAIN q : EndOf(q, k) + unread <= Total(q)}
<1>1. n \in Nat /\ DOMAIN q = 1 .. n /\ g \in 0 .. n
  OBVIOUS
<1>2. EndOf(q, n) = Total(q) /\ EndOf(q, n) \in Nat /\ EndOf(q, g) \in Nat
  BY <1>1, Ends
<1>3. ASSUME NEW k \in 1 .. n PROVE EndOf(q, k) + unread <= Total(q) <=> k <= g
  <2>1. k \in 0 .. n /\ k \in Nat
    BY <1>1
  <2>2. EndOf(q, k) \in Nat
    BY <2>1, Ends
  <2>3. CASE k <= g
    <3>1. EndOf(q, k) + 10 * (g - k) <= EndOf(q, g)
      BY <1>1, <2>1, <2>3, EndsRise
    <3> QED BY <1>2, <2>1, <2>2, <2>3, <3>1
  <2>4. CASE ~(k <= g)
    <3>0. g <= k
      BY <2>1, <2>4
    <3>1. EndOf(q, g) + 10 * (k - g) <= EndOf(q, k)
      BY <1>1, <2>1, <3>0, EndsRise
    <3> QED BY <1>2, <2>1, <2>2, <2>4, <3>1
  <2> QED BY <2>3, <2>4
<1>4. read = 1 .. g
  BY <1>1, <1>3
<1>5. Cardinality(1 .. g) = g
  BY FS_Interval
<1> QED BY <1>4, <1>5 DEF ReadUpTo

(* Before and after a step, Gone is the g of the invariant. *)
LEMMA GoneStep ==
  ASSUME FramingInv, FramingTypeOK', NEW g \in Nat, NEW a \in Nat, NEW h \in Nat, NEW b \in Nat,
         Lengths(g, a), Lengths(h, b)'
  PROVE  Gone = g /\ Gone' = h /\ g <= Len(sent) /\ h <= Len(sent')
<1>0. FramingTypeOK
  BY DEF FramingInv
<1>1. Gone = ReadUpTo(sent, Unread) /\ Gone' = ReadUpTo(sent', Unread')
  BY DEF Gone, ReadUpTo, EndOf
<1>2. sent \in Seq(Message) /\ Len(sent) \in Nat /\ g <= Len(sent)
  BY <1>0, Typed DEF Lengths
<1>3. Gone = g
  BY <1>0, <1>1, <1>2, Placed, GoneIs
<1>4. /\ sent' \in Seq(Message) /\ Len(sent') \in Nat
      /\ Len(flight') \in Nat /\ Len(arrived') \in Nat /\ Len(buffer') \in Nat
  BY DEF FramingTypeOK
<1>5. /\ h <= b /\ b <= Len(sent')
      /\ Len(buffer') + Len(arrived') = EndOf(sent', b) - EndOf(sent', h)
      /\ Len(flight') = EndOf(sent', Len(sent')) - EndOf(sent', b)
  BY DEF Lengths
<1>6. h \in 0 .. Len(sent') /\ b \in 0 .. Len(sent') /\ Len(sent') \in 0 .. Len(sent') /\ h <= Len(sent')
  BY <1>4, <1>5
<1>7. /\ EndOf(sent', h) \in Nat /\ EndOf(sent', b) \in Nat
      /\ EndOf(sent', Len(sent')) \in Nat
  BY <1>4, <1>6, Ends
<1>8. Unread' = EndOf(sent', Len(sent')) - EndOf(sent', h)
  <2>1. Unread' = Len(flight') + Len(arrived') + Len(buffer')
    BY DEF Unread
  <2> DEFINE before == Len(buffer')
             waiting == Len(arrived')
             away == Len(flight')
             eh == EndOf(sent', h)
             eb == EndOf(sent', b)
             en == EndOf(sent', Len(sent'))
  <2>2. /\ before \in Nat /\ waiting \in Nat /\ away \in Nat
        /\ eh \in Nat /\ eb \in Nat /\ en \in Nat
        /\ before + waiting = eb - eh /\ away = en - eb
    BY <1>4, <1>5, <1>7
  <2> HIDE DEF before, waiting, away, eh, eb, en
  <2>3. away + waiting + before = en - eh
    BY <2>2
  <2> QED BY <2>1, <2>3 DEF before, waiting, away, eh, en
<1>9. Gone' = h
  BY <1>1, <1>4, <1>6, <1>8, GoneIs
<1> QED BY <1>2, <1>3, <1>6, <1>9

(* Every step of the connection is one of the queue's, or none. *)
LEMMA QueueStep ==
  ASSUME FramingInv, FramingInv', [Next]_vars
  PROVE  [Queue!QueueNext]_<<sent, handled, Gone, orderly>>
<1>1. CASE ~orderly'
  BY <1>1 DEF Queue!QueueNext
<1>2. CASE orderly' /\ Next
  <2>1. PICK g \in Nat, a \in Nat, h \in Nat, b \in Nat :
           /\ orderly /\ Whereabouts(g, a) /\ Whereabouts(h, b)'
           /\ Sends(g, h) \/ Handles(g, h) \/ Moves(g, h)
    BY <1>2, OrderlyStep
  <2>2. Gone = g /\ Gone' = h /\ g <= Len(sent) /\ h <= Len(sent')
    <3>1. FramingTypeOK' /\ Lengths(g, a) /\ Lengths(h, b)'
      BY <2>1 DEF FramingInv, Whereabouts
    <3> QED BY <3>1, GoneStep
  <2>3. CASE Sends(g, h)
    BY <2>2, <2>3 DEF Sends, Queue!QueueNext, Queue!Send
  <2>4. CASE Handles(g, h)
    <3> DEFINE k == h - g
    <3>1. g < h /\ 10 * (h - g) <= BufSize /\ handled' = Append(handled, sent[g + 1]) /\ sent' = sent
      BY <2>4 DEF Handles
    <3>2. k \in 1 .. (BufSize \div HeaderSize) /\ g + k = h
      <4>1. BufSize \in Nat
        BY FramingAssumption
      <4> QED BY <3>1, <4>1 DEF HeaderSize
    <3>3. Gone' = Gone + k /\ Gone' <= Len(sent)
      BY <2>2, <3>1, <3>2
    <3>4. handled' = Append(handled, sent[Gone + 1])
      BY <2>2, <3>1
    <3> HIDE DEF k
    <3>5. Queue!Handle
      BY <3>1, <3>2, <3>3, <3>4 DEF Queue!Handle
    <3> QED BY <3>5 DEF Queue!QueueNext
  <2>5. CASE Moves(g, h)
    <3>1. orderly \in BOOLEAN /\ orderly' \in BOOLEAN
      BY DEF FramingInv, FramingTypeOK
    <3> QED BY <1>2, <2>1, <2>2, <2>5, <3>1 DEF Moves
  <2> QED BY <2>1, <2>3, <2>4, <2>5
<1>3. CASE UNCHANGED vars
  BY <1>3 DEF vars, Gone, Unread
<1> QED BY <1>1, <1>2, <1>3

(* The connection starts as the queue does. *)
LEMMA QueueStart == Init => Queue!QueueInit
<1> SUFFICES ASSUME Init PROVE Queue!QueueInit
  OBVIOUS
<1>1. sent = << >> /\ handled = << >> /\ orderly = TRUE
  BY DEF Init
<1>2. Gone = 0
  <2>1. {k \in DOMAIN sent : Total(SubSeq(sent, 1, k)) + Unread <= Total(sent)} = {}
    BY <1>1
  <2> QED BY <2>1, FS_EmptySet DEF Gone
<1> QED BY <1>1, <1>2 DEF Queue!QueueInit

(* buildBuffer and the two recv() calls give the programs what they rely   *)
(* on: as long as the bytes come orderly, packets are handled whole and in *)
(* the order they were sent, none lost but behind another in one recv().   *)
THEOREM FramingImplementsQueue == Spec => ImplementsQueue
<1>1. FramingInv /\ FramingInv' /\ [Next]_vars
        => [Queue!QueueNext]_<<sent, handled, Gone, orderly>>
  BY QueueStep
<1> QED BY <1>1, QueueStart, SpecFramingInv, PTL DEF Spec, ImplementsQueue, Queue!QueueSpec
=============================================================================
