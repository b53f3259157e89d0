---------------------------- MODULE ClientProofs ----------------------------
(***************************************************************************)
(* What the client shows and sends, for packets of any size, cells         *)
(* delivered in any way and a connection that may break: types, each text  *)
(* once and in its turn, what may be shown in part, what the second recv() *)
(* may wait for, and the lines as the keys say.                            *)
(***************************************************************************)
EXTENDS Client, VectorFacts, TLAPS

-----------------------------------------------------------------------------
(* Sequences. *)

LEMMA AppendShown ==
    ASSUME NEW S, NEW s \in Seq(S), NEW x \in S
    PROVE  /\ Append(s, x) \in Seq(S)
           /\ DOMAIN Append(s, x) = DOMAIN s \cup {Len(s) + 1}
           /\ Len(Append(s, x)) = Len(s) + 1
           /\ Append(s, x)[Len(s) + 1] = x
           /\ \A k \in DOMAIN s : Append(s, x)[k] = s[k] /\ k < Len(s) + 1
    OBVIOUS

LEMMA HeadTail ==
    ASSUME NEW S, NEW s \in Seq(S), s # <<>>
    PROVE  /\ Head(s) \in S /\ Tail(s) \in Seq(S)
           /\ 1 \in DOMAIN s /\ Head(s) = s[1]
    OBVIOUS

LEMMA FrontIsSeq ==
    ASSUME NEW S, NEW s \in Seq(S), s # <<>>
    PROVE  Front(s) \in Seq(S)
    BY DEF Front

LEMMA NothingInSeq == \A S : <<>> \in Seq(S)
    OBVIOUS

LEMMA Elements ==
    ASSUME NEW S, NEW s \in Seq(S)
    PROVE  /\ \A k \in DOMAIN s : s[k] \in S /\ k \in Nat
           /\ Len(s) \in Nat /\ DOMAIN s = 1 .. Len(s)
    OBVIOUS

LEMMA SeqGrows ==
    ASSUME NEW S, NEW T, S \subseteq T, NEW s \in Seq(S)
    PROVE  s \in Seq(T)
    OBVIOUS

-----------------------------------------------------------------------------
(* The stream. *)

(* No cell follows, or the one that does begins a packet. *)
AtHeader(i) == i = Len(stream) + 1 \/ IsHeader(i)

(* The cells of a packet follow its header, and the next packet follows    *)
(* them; the numbers of the packets never fall, and rise at every header.  *)
StreamInv ==
    /\ \A i \in DOMAIN stream : IsHeader(i) =>
          /\ i + Size(i) - 1 \in DOMAIN stream
          /\ \A j \in i .. i + Size(i) - 1 :
                stream[j].packet = stream[i].packet /\ stream[j].part = j - i + 1
    /\ AtHeader(1)
    /\ \A i \in DOMAIN stream : stream[i].part = Size(i) => AtHeader(i + 1)
    /\ \A i, j \in DOMAIN stream : i < j =>
          /\ stream[i].packet <= stream[j].packet
          /\ IsHeader(j) => stream[i].packet < stream[j].packet

(* The numbers of the packets rise from what is shown, over the packet     *)
(* that waits for its rest, to those whose headers have not been received. *)
Ordered ==
    /\ \A k \in DOMAIN shown, i \in DOMAIN stream :
          taken < i /\ IsHeader(i) => shown[k].packet < stream[i].packet
    /\ phase = "rest" /\ IsHeader(begun) =>
          \A k \in DOMAIN shown : shown[k].packet < stream[begun].packet

(* A packet that waits for its rest fills the buffer, or came in parts. *)
RestInv ==
    phase = "rest" /\ IsHeader(begun) =>
        /\ BufSize < Size(begun) /\ taken <= begun + BufSize - 1
        /\ taken = begun + BufSize - 1 \/ stream[begun].packet \in torn

Disorder == crowded \/ torn # {} \/ \E p \in DOMAIN said : TooLong(p)

(* Without disorder every first recv() begins with a header. *)
OrderInv ==
    \/ Disorder
    \/ /\ phase \in {"input", "select"} => Broken \/ AtHeader(taken + 1)
       /\ phase = "rest" => IsHeader(begun)
       /\ phase = "crashed" => Broken

ClientInv ==
    /\ ClientTypeOK /\ StreamInv /\ Ordered /\ RestInv /\ OrderInv
    /\ ShownOnceInOrder /\ OnlyLossesAreIncomplete

Said == [type : {0, 1}, size : Sizes]

Cell == [packet : DOMAIN said, part : Nat \ {0}]

LEMMA Numbers ==
    ASSUME ClientTypeOK
    PROVE  /\ BufSize \in Nat \ {0} /\ Len(stream) \in Nat /\ came \in Nat /\ taken \in Nat
           /\ begun \in Nat /\ begun <= taken /\ taken <= came /\ came <= Len(stream)
           /\ DOMAIN stream = 1 .. Len(stream) /\ DOMAIN said = 1 .. Len(said) /\ Len(said) \in Nat
           /\ \A p \in DOMAIN said : said[p].size \in Nat \ {0} /\ p \in Nat
           /\ \A i \in DOMAIN stream : /\ stream[i].packet \in DOMAIN said /\ stream[i].packet \in Nat
                                       /\ stream[i].part \in Nat \ {0} /\ Size(i) \in Nat \ {0}
  <1>1. said \in Seq(Said) /\ stream \in Seq(Cell)
    BY DEF ClientTypeOK, Said, Cell
  <1>2. /\ Len(stream) \in Nat /\ DOMAIN stream = 1 .. Len(stream)
        /\ Len(said) \in Nat /\ DOMAIN said = 1 .. Len(said)
        /\ \A p \in DOMAIN said : said[p] \in Said
        /\ \A i \in DOMAIN stream : stream[i] \in Cell
    BY <1>1, Elements
  <1>3. \A p \in DOMAIN said : said[p].size \in Nat \ {0} /\ p \in Nat
    <2>1. Sizes \subseteq Nat \ {0} BY ClientAssumption
    <2>2. \A p \in DOMAIN said : said[p].size \in Sizes BY <1>2 DEF Said
    <2>3. \A p \in DOMAIN said : p \in Nat BY <1>2
    <2> QED BY <2>1, <2>2, <2>3
  <1>4. \A i \in DOMAIN stream : stream[i].packet \in DOMAIN said /\ stream[i].part \in Nat \ {0}
    BY <1>2 DEF Cell
  <1> QED BY <1>2, <1>3, <1>4, ClientAssumption DEF ClientTypeOK, Size

(* What one recv() that finds something takes. *)
LEMMA RecvTakes ==
    ASSUME ClientTypeOK, NEW first, Recv(first), taken < came, UNCHANGED <<stream, said>>
    PROVE  /\ taken' \in Nat /\ taken < taken' /\ taken' <= came /\ taken' <= taken + BufSize
           /\ taken' \in DOMAIN stream
           /\ taken' < taken + BufSize /\ stream[taken'].part < Size(taken') =>
                 stream[taken'].packet \in torn'
           /\ stream[taken'].packet # stream[first].packet => crowded'
           /\ torn \subseteq torn' /\ torn' \subseteq DOMAIN said
           /\ crowded' \in BOOLEAN /\ (crowded => crowded')
  <1>1. /\ taken' \in Nat /\ taken < taken' /\ taken' <= came /\ taken' <= taken + BufSize
        /\ taken' \in DOMAIN stream
    BY Numbers DEF Recv
  <1>2. stream[taken'].packet \in DOMAIN said BY <1>1, Numbers
  <1>3. torn \subseteq DOMAIN said /\ crowded \in BOOLEAN BY DEF ClientTypeOK
  <1>4. crowded' \in BOOLEAN /\ (crowded => crowded')
        /\ (stream[taken'].packet # stream[first].packet => crowded')
    BY <1>3 DEF Recv
  <1> QED BY <1>1, <1>2, <1>3, <1>4 DEF Recv

(* Disorder is not undone. *)
LEMMA DisorderStays ==
    ASSUME Disorder, torn \subseteq torn', crowded => crowded', UNCHANGED said
    PROVE  Disorder'
    BY DEF Disorder, TooLong

-----------------------------------------------------------------------------
(* The keyboard. *)

LEMMA KeysAreTyped ==
    ASSUME ClientTypeOK, NEW key, ReadKey(key)
    PROVE  /\ keyboard' \in Seq(Key) /\ read' \in Seq(Key)
           /\ phase = "input" /\ begun = 0
  <1>1. keyboard # <<>> /\ key = Head(keyboard) /\ key \in Key
    BY HeadTail DEF ReadKey, ClientTypeOK
  <1> QED BY <1>1, HeadTail DEF ReadKey, ClientTypeOK

(* What touches neither the stream nor the buffer. *)
LEMMA TurnKeeps ==
    ASSUME ClientInv, UNCHANGED <<begun, recvVars, netVars, shown>>,
           phase \in {"input", "select"}, phase' \in {"input", "select", "left"}
    PROVE  /\ StreamInv' /\ Ordered' /\ RestInv' /\ OrderInv'
           /\ ShownOnceInOrder' /\ OnlyLossesAreIncomplete'
  <1> USE DEF ClientInv, netVars, recvVars
  <1>1. StreamInv' BY DEF StreamInv, AtHeader, IsHeader, Size
  <1>2. Ordered' /\ RestInv' BY DEF Ordered, RestInv, IsHeader
  <1>3. OrderInv' BY DEF OrderInv, Disorder, TooLong, AtHeader, IsHeader, Broken
  <1>4. ShownOnceInOrder' /\ OnlyLossesAreIncomplete'
    BY DEF ShownOnceInOrder, OnlyLossesAreIncomplete, Broken, TooLong
  <1> QED BY <1>1, <1>2, <1>3, <1>4

LEMMA KeyboardKeepsTypes ==
    ASSUME ClientTypeOK, UNCHANGED <<begun, recvVars, netVars, shown>>, phase = "input",
           phase' \in {"select", "left"}, userInputBuffer' \in Seq(Char),
           keyboard' \in Seq(Key), read' \in Seq(Key),
           outbox' \in Seq([type : {1, 2}, text : Seq(Char)])
    PROVE  ClientTypeOK'
    BY DEF ClientTypeOK, netVars, recvVars

LEMMA TypingKeeps ==
    ASSUME ClientInv,
           TypeChar \/ Backspace \/ IgnoreKey \/ SendLine \/ Leave \/ NoKey
    PROVE  ClientInv'
  <1> USE DEF ClientInv
  <1>1. CASE TypeChar
    <2> PICK c \in Char : /\ ReadKey(c)
                          /\ userInputBuffer' = Append(userInputBuffer, c)
                          /\ phase' = "select" /\ UNCHANGED outbox
      BY <1>1 DEF TypeChar
    <2>1. userInputBuffer' \in Seq(Char) BY AppendShown DEF ClientTypeOK
    <2> QED BY <2>1, KeysAreTyped, KeyboardKeepsTypes, TurnKeeps
            DEF ReadKey, ClientTypeOK
  <1>2. CASE Backspace
    <2>1. userInputBuffer' \in Seq(Char) BY <1>2, FrontIsSeq DEF Backspace, ClientTypeOK
    <2> QED BY <1>2, <2>1, KeysAreTyped, KeyboardKeepsTypes, TurnKeeps
            DEF Backspace, ReadKey, ClientTypeOK
  <1>3. CASE IgnoreKey
    <2> PICK key : ReadKey(key) BY <1>3 DEF IgnoreKey
    <2> QED BY <1>3, KeysAreTyped, KeyboardKeepsTypes, TurnKeeps
            DEF IgnoreKey, ReadKey, ClientTypeOK
  <1>4. CASE SendLine
    <2>1. Outgoing(userInputBuffer) \in [type : {1, 2}, text : Seq(Char)]
      BY DEF Outgoing, ClientTypeOK
    <2>2. outbox' \in Seq([type : {1, 2}, text : Seq(Char)])
      BY <1>4, <2>1, AppendShown DEF SendLine, ClientTypeOK
    <2> QED BY <1>4, <2>2, KeysAreTyped, KeyboardKeepsTypes, TurnKeeps
            DEF SendLine, ReadKey, ClientTypeOK
  <1>5. CASE Leave
    BY <1>5, KeysAreTyped, KeyboardKeepsTypes, TurnKeeps DEF Leave, ReadKey, ClientTypeOK
  <1>6. CASE NoKey
    BY <1>6, KeyboardKeepsTypes, TurnKeeps DEF NoKey, ClientTypeOK
  <1> QED BY <1>1, <1>2, <1>3, <1>4, <1>5, <1>6

-----------------------------------------------------------------------------
(* The connection. *)

LEMMA ShowKeeps ==
    ASSUME ClientInv, NEW i \in DOMAIN stream, NEW complete \in BOOLEAN,
           Show(i, complete), UNCHANGED <<said, wire>>, torn \subseteq torn',
           IsHeader(i) =>
              /\ \A k \in DOMAIN shown : shown[k].packet < stream[i].packet
              /\ \/ complete \/ Broken \/ TooLong(stream[i].packet)
                 \/ stream[i].packet \in torn'
    PROVE  /\ shown' \in Seq([packet : DOMAIN said, complete : BOOLEAN])
           /\ ShownOnceInOrder' /\ OnlyLossesAreIncomplete'
           /\ \A k \in DOMAIN shown' :
                 \/ IsHeader(i) /\ shown'[k].packet = stream[i].packet
                 \/ \E j \in DOMAIN shown : shown'[k] = shown[j]
  <1> DEFINE Shown == [packet : DOMAIN said, complete : BOOLEAN]
             p == stream[i].packet
             new == [packet |-> p, complete |-> complete]
  <1>0. p \in DOMAIN said BY Numbers DEF ClientInv
  <1>1. shown \in Seq(Shown) BY DEF ClientInv, ClientTypeOK
  <1>2. CASE ~(IsHeader(i) /\ said[p].type = 1)
    <2>1. shown' = shown BY <1>2 DEF Show
    <2> QED BY <1>1, <2>1 DEF ClientInv, ShownOnceInOrder, OnlyLossesAreIncomplete, Broken, TooLong
  <1>3. CASE IsHeader(i) /\ said[p].type = 1
    <2>1. shown' = Append(shown, new) BY <1>3 DEF Show
    <2>2. new \in Shown /\ new.packet = p /\ new.complete = complete BY <1>0
    <2>6. /\ \A k \in DOMAIN shown : shown[k].packet < p
          /\ complete \/ Broken \/ TooLong(p) \/ p \in torn'
          /\ said[p].type = 1
      BY <1>3
    <2> HIDE DEF new, Shown, p
    <2>3. /\ shown' \in Seq(Shown)
          /\ DOMAIN shown' = DOMAIN shown \cup {Len(shown) + 1}
          /\ shown'[Len(shown) + 1] = new
          /\ \A k \in DOMAIN shown : shown'[k] = shown[k] /\ k < Len(shown) + 1
      BY <1>1, <2>1, <2>2, AppendShown
    <2>4. DOMAIN shown = 1 .. Len(shown) /\ Len(shown) \in Nat BY <1>1
    <2>5. ShownOnceInOrder'
      <3> SUFFICES ASSUME NEW j \in DOMAIN shown', NEW k \in DOMAIN shown'
                   PROVE  /\ said[shown'[k].packet].type = 1
                          /\ said[shown'[j].packet].type = 1
                          /\ j < k => shown'[j].packet < shown'[k].packet
        BY DEF ShownOnceInOrder
      <3> QED BY <2>6, <2>2, <2>3, <2>4 DEF ClientInv, ShownOnceInOrder
    <2>7. OnlyLossesAreIncomplete'
      BY <2>2, <2>3, <2>6 DEF ClientInv, OnlyLossesAreIncomplete, Broken, TooLong
    <2>8. \A k \in DOMAIN shown' :
             shown'[k].packet = p \/ \E j \in DOMAIN shown : shown'[k] = shown[j]
      BY <2>2, <2>3
    <2> QED BY <1>3, <2>3, <2>5, <2>7, <2>8 DEF Shown, p
  <1> QED BY <1>2, <1>3

(* What a recv() has of a packet whose header is cell i, after which the   *)
(* next one begins: all of it and no more, or there is disorder.           *)
LEMMA EndsWithPacket ==
    ASSUME ClientInv, NEW i \in DOMAIN stream, IsHeader(i), Recv(i), taken < came,
           UNCHANGED <<stream, said>>, i <= taken + 1, i + Size(i) - 1 <= taken + BufSize
    PROVE  /\ i + Size(i) - 1 <= taken' \/ stream[i].packet \in torn'
           /\ ~Disorder' => taken' = i + Size(i) - 1 /\ AtHeader(taken' + 1)
  <1> DEFINE last == i + Size(i) - 1
  <1>1. /\ taken \in Nat /\ BufSize \in Nat /\ i \in Nat /\ Size(i) \in Nat \ {0}
        /\ DOMAIN stream = 1 .. Len(stream) /\ Len(stream) \in Nat
        /\ \A j \in DOMAIN stream : stream[j].packet \in Nat
    BY Numbers DEF ClientInv
  <1>2. /\ taken' \in Nat /\ taken < taken' /\ taken' \in DOMAIN stream
        /\ taken' < taken + BufSize /\ stream[taken'].part < Size(taken') =>
              stream[taken'].packet \in torn'
        /\ stream[taken'].packet # stream[i].packet => crowded'
    BY RecvTakes DEF ClientInv
  <1>3. /\ last \in DOMAIN stream
        /\ \A j \in i .. last : stream[j].packet = stream[i].packet /\ stream[j].part = j - i + 1
    BY DEF ClientInv, StreamInv
  <1>4. last \in i .. last /\ last \in Nat BY <1>1
  <1>5. AtHeader(last + 1)
    <2>1. Size(last) = Size(i) BY <1>3, <1>4 DEF Size
    <2>2. stream[last].part = Size(i) BY <1>1, <1>3, <1>4
    <2> QED BY <1>3, <2>1, <2>2 DEF ClientInv, StreamInv
  <1>6. CASE taken' < last
    <2>1. taken' \in i .. last BY <1>1, <1>2, <1>4, <1>6
    <2>4. Size(taken') = Size(i) BY <1>3, <2>1 DEF Size
    <2>2. stream[taken'].part < Size(taken') BY <1>1, <1>2, <1>3, <1>6, <2>1, <2>4
    <2>3. stream[i].packet \in torn' BY <1>1, <1>2, <1>3, <1>6, <2>1, <2>2
    <2> QED BY <2>3 DEF Disorder
  <1>7. CASE last < taken'
    <2>1. IsHeader(last + 1) /\ last + 1 \in DOMAIN stream
      BY <1>1, <1>2, <1>4, <1>5, <1>7 DEF AtHeader
    <2>2. stream[i].packet < stream[last + 1].packet
      BY <1>1, <1>4, <2>1 DEF ClientInv, StreamInv
    <2>3. last + 1 = taken' \/ stream[last + 1].packet <= stream[taken'].packet
      <3>1. last + 1 = taken' \/ last + 1 < taken' BY <1>2, <1>4, <1>7
      <3>2. \A j, k \in DOMAIN stream : j < k => stream[j].packet <= stream[k].packet
        BY DEF ClientInv, StreamInv
      <3> HIDE DEF last
      <3> QED BY <1>2, <2>1, <3>1, <3>2
    <2>4. stream[taken'].packet # stream[i].packet BY <1>1, <1>2, <2>1, <2>2, <2>3
    <2> QED BY <1>2, <1>4, <1>7, <2>4 DEF Disorder
  <1>8. CASE taken' = last
    BY <1>4, <1>5, <1>8 DEF AtHeader, IsHeader
  <1> QED BY <1>2, <1>4, <1>6, <1>7, <1>8

LEMMA StreamStays ==
    ASSUME StreamInv, UNCHANGED <<stream, said>>
    PROVE  StreamInv'
    BY DEF StreamInv, AtHeader, IsHeader, Size

LEMMA ReceiveKeeps ==
    ASSUME ClientInv, Receive
    PROVE  ClientInv'
  <1> DEFINE f == taken + 1
  <1> USE DEF ClientInv
  <1>1. /\ UNCHANGED <<stream, said, wire, came, userInputBuffer, keyboard, read, outbox>>
        /\ phase = "select" /\ ~Broken /\ taken < came /\ Recv(f) /\ begun = 0
    BY DEF Receive, KeyboardUnchanged, netVars, ClientTypeOK
  <1>2. /\ taken' \in Nat /\ taken < taken' /\ taken' <= came /\ taken' <= taken + BufSize
        /\ taken' \in DOMAIN stream
        /\ torn \subseteq torn' /\ torn' \subseteq DOMAIN said
        /\ crowded' \in BOOLEAN /\ (crowded => crowded')
    BY <1>1, RecvTakes
  <1>3. /\ taken \in Nat /\ BufSize \in Nat \ {0} /\ f \in DOMAIN stream /\ f \in Nat
        /\ Size(f) \in Nat \ {0} /\ DOMAIN stream = 1 .. Len(stream) /\ Len(stream) \in Nat
        /\ came \in Nat /\ came <= Len(stream)
    BY <1>1, Numbers
  <1>4. ~Disorder' => IsHeader(f)
    <2> SUFFICES ASSUME ~Disorder' PROVE IsHeader(f) OBVIOUS
    <2>1. ~Disorder BY <1>1, <1>2, DisorderStays
    <2>2. AtHeader(f) BY <1>1, <2>1 DEF OrderInv
    <2> QED BY <1>3, <2>2 DEF AtHeader
  <1>5. IsHeader(f) => \A k \in DOMAIN shown : shown[k].packet < stream[f].packet
    BY <1>3 DEF Ordered
  <1>6. StreamInv' BY <1>1, StreamStays
  <1>7. \A i \in DOMAIN stream : taken' < i /\ IsHeader(i) =>
           /\ \A k \in DOMAIN shown : shown[k].packet < stream[i].packet
           /\ stream[f].packet < stream[i].packet
    BY <1>2, <1>3 DEF Ordered, StreamInv
  <1>8. CASE NeedsRest(f) /\ phase' = "rest" /\ begun' = f /\ UNCHANGED shown
    <2>1. ClientTypeOK' BY <1>1, <1>2, <1>3, <1>8 DEF ClientTypeOK
    <2>2. Ordered' BY <1>1, <1>5, <1>7, <1>8 DEF Ordered, IsHeader
    <2>3. RestInv'
      <3> SUFFICES ASSUME IsHeader(f)
                   PROVE  /\ BufSize < Size(f) /\ taken' <= f + BufSize - 1
                          /\ taken' = f + BufSize - 1 \/ stream[f].packet \in torn'
        BY <1>1, <1>8 DEF RestInv, IsHeader, Size
      <3>1. BufSize < Size(f) BY <1>3, <1>8 DEF NeedsRest
      <3>2. CASE taken' = f + BufSize - 1 BY <1>2, <1>3, <3>1, <3>2
      <3>3. CASE taken' # f + BufSize - 1
        <4>1. taken' \in f .. f + Size(f) - 1 /\ taken' - f + 1 < Size(f)
          BY <1>2, <1>3, <3>1, <3>3
        <4>2. stream[taken'].packet = stream[f].packet /\ stream[taken'].part = taken' - f + 1
          BY <1>3, <4>1 DEF StreamInv
        <4>3. stream[taken'].part < Size(taken') /\ taken' < taken + BufSize
          <5>1. Size(taken') = Size(f) BY <4>2 DEF Size
          <5> QED BY <1>2, <1>3, <3>3, <4>1, <4>2, <5>1
        <4>4. stream[f].packet \in torn' BY <1>1, <4>2, <4>3, RecvTakes
        <4> QED BY <1>2, <1>3, <3>1, <4>4
      <3> QED BY <3>2, <3>3
    <2>4. OrderInv' BY <1>1, <1>4, <1>8 DEF OrderInv, IsHeader
    <2>5. ShownOnceInOrder' /\ OnlyLossesAreIncomplete'
      BY <1>1, <1>2, <1>8 DEF ShownOnceInOrder, OnlyLossesAreIncomplete, Broken, TooLong
    <2> QED BY <1>6, <2>1, <2>2, <2>3, <2>4, <2>5
  <1>9. CASE ~IsHeader(f) /\ phase' = "crashed" /\ UNCHANGED <<begun, shown>>
    <2>1. ClientTypeOK' BY <1>1, <1>2, <1>3, <1>9 DEF ClientTypeOK
    <2>2. Ordered' BY <1>1, <1>7, <1>9 DEF Ordered, IsHeader
    <2>3. RestInv' BY <1>9 DEF RestInv
    <2>4. OrderInv' BY <1>4, <1>9 DEF OrderInv
    <2>5. ShownOnceInOrder' /\ OnlyLossesAreIncomplete'
      BY <1>1, <1>2, <1>9 DEF ShownOnceInOrder, OnlyLossesAreIncomplete, Broken, TooLong
    <2> QED BY <1>6, <2>1, <2>2, <2>3, <2>4, <2>5
  <1>10. CASE /\ ~NeedsRest(f) /\ phase' = "input" /\ UNCHANGED begun
              /\ Show(f, taken' >= taken + Size(f))
    <2> DEFINE complete == taken' >= taken + Size(f)
    <2>1. IsHeader(f) /\ Size(f) <= BufSize BY <1>3, <1>10 DEF NeedsRest
    <2>2. f + Size(f) - 1 <= taken + BufSize /\ f + Size(f) - 1 = taken + Size(f)
      BY <1>3, <2>1
    <2>3. /\ complete \/ stream[f].packet \in torn'
          /\ ~Disorder' => AtHeader(taken' + 1)
      BY <1>1, <1>2, <1>3, <2>1, <2>2, EndsWithPacket
    <2>4. complete \in BOOLEAN OBVIOUS
    <2>5. Show(f, complete) BY <1>10
    <2> HIDE DEF complete
    <2>6. /\ shown' \in Seq([packet : DOMAIN said, complete : BOOLEAN])
          /\ ShownOnceInOrder' /\ OnlyLossesAreIncomplete'
          /\ \A k \in DOMAIN shown' :
                \/ IsHeader(f) /\ shown'[k].packet = stream[f].packet
                \/ \E j \in DOMAIN shown : shown'[k] = shown[j]
      <3>1. stream[f].packet \in torn' \/ complete BY <2>3
      <3> QED BY <1>1, <1>2, <1>3, <1>5, <2>4, <2>5, <3>1, ShowKeeps
    <2>7. ClientTypeOK' BY <1>1, <1>2, <1>3, <1>10, <2>6 DEF ClientTypeOK
    <2>8. Ordered'
      <3>1. \A k \in DOMAIN shown', i \in DOMAIN stream :
               taken' < i /\ IsHeader(i) => shown'[k].packet < stream[i].packet
        BY <1>7, <2>6
      <3> QED BY <1>1, <1>10, <3>1 DEF Ordered, IsHeader
    <2>9. RestInv' BY <1>10 DEF RestInv
    <2>10. OrderInv' BY <1>1, <1>10, <2>3 DEF OrderInv, AtHeader, IsHeader
    <2> QED BY <1>6, <2>6, <2>7, <2>8, <2>9, <2>10
  <1> QED BY <1>1, <1>8, <1>9, <1>10 DEF Receive

(* The end of ReceiveRest, when it is known what the buffer holds. *)
LEMMA RestEnds ==
    ASSUME ClientInv, ReceiveRest,
           taken' \in Nat, taken <= taken', taken' <= came,
           torn \subseteq torn', torn' \subseteq DOMAIN said,
           crowded' \in BOOLEAN, crowded => crowded',
           IsHeader(begun) => \/ Broken \/ Whole \/ TooLong(stream[begun].packet)
                              \/ stream[begun].packet \in torn',
           ~Disorder' => (Broken \/ AtHeader(taken' + 1)) /\ IsHeader(begun) /\ RestFits
    PROVE  ClientInv'
  <1> USE DEF ClientInv
  <1>1. /\ UNCHANGED <<stream, said, wire, came, userInputBuffer, keyboard, read, outbox>>
        /\ phase = "rest" /\ begun' = 0 /\ begun # 0
    BY DEF ReceiveRest, KeyboardUnchanged, netVars, ClientTypeOK
  <1>2. /\ taken \in Nat /\ begun \in DOMAIN stream /\ begun \in Nat
        /\ DOMAIN stream = 1 .. Len(stream) /\ Len(stream) \in Nat
        /\ came \in Nat /\ came <= Len(stream) /\ begun <= taken
    BY <1>1, Numbers
  <1>3. StreamInv' BY <1>1, StreamStays
  <1>4. RestInv' BY DEF ReceiveRest, RestInv
  <1>5. \A i \in DOMAIN stream : taken' < i /\ IsHeader(i) =>
           /\ \A k \in DOMAIN shown : shown[k].packet < stream[i].packet
           /\ stream[begun].packet < stream[i].packet
    BY <1>2 DEF Ordered, StreamInv
  <1>6. CASE phase' = "input" /\ Show(begun, Whole)
    <2>1. PICK c \in BOOLEAN : (c <=> Whole) /\ Show(begun, c)
      <3>1. Whole \in BOOLEAN BY DEF Whole
      <3> QED BY <1>6, <3>1
    <2>2. IsHeader(begun) =>
             /\ \A k \in DOMAIN shown : shown[k].packet < stream[begun].packet
             /\ \/ c \/ Broken \/ TooLong(stream[begun].packet)
                \/ stream[begun].packet \in torn'
      BY <1>1, <2>1 DEF Ordered
    <2>3. /\ shown' \in Seq([packet : DOMAIN said, complete : BOOLEAN])
          /\ ShownOnceInOrder' /\ OnlyLossesAreIncomplete'
          /\ \A k \in DOMAIN shown' :
                \/ IsHeader(begun) /\ shown'[k].packet = stream[begun].packet
                \/ \E j \in DOMAIN shown : shown'[k] = shown[j]
      BY <1>1, <1>2, <2>1, <2>2, ShowKeeps
    <2>4. ClientTypeOK' BY <1>1, <1>2, <1>6, <2>3 DEF ClientTypeOK
    <2>5. Ordered'
      <3>1. \A k \in DOMAIN shown', i \in DOMAIN stream :
               taken' < i /\ IsHeader(i) => shown'[k].packet < stream[i].packet
        BY <1>5, <2>3
      <3> QED BY <1>1, <1>6, <3>1 DEF Ordered, IsHeader
    <2>6. OrderInv' BY <1>1, <1>6 DEF OrderInv, AtHeader, IsHeader, Broken
    <2> QED BY <1>3, <1>4, <2>3, <2>4, <2>5, <2>6
  <1>7. CASE ~RestFits /\ phase' = "crashed" /\ UNCHANGED shown
    <2>1. ClientTypeOK' BY <1>1, <1>2, <1>7 DEF ClientTypeOK
    <2>2. Ordered' BY <1>1, <1>5, <1>7 DEF Ordered, IsHeader
    <2>3. OrderInv' BY <1>7 DEF OrderInv
    <2>4. ShownOnceInOrder' /\ OnlyLossesAreIncomplete'
      BY <1>1, <1>7 DEF ShownOnceInOrder, OnlyLossesAreIncomplete, Broken, TooLong
    <2> QED BY <1>3, <1>4, <2>1, <2>2, <2>3, <2>4
  <1> QED BY <1>6, <1>7 DEF ReceiveRest

LEMMA ReceiveRestKeeps ==
    ASSUME ClientInv, ReceiveRest
    PROVE  ClientInv'
  <1> USE DEF ClientInv
  <1>1. /\ UNCHANGED <<stream, said, wire, came, userInputBuffer, keyboard, read, outbox>>
        /\ phase = "rest" /\ begun' = 0 /\ begun # 0
    BY DEF ReceiveRest, KeyboardUnchanged, netVars, ClientTypeOK
  <1>2. /\ taken \in Nat /\ BufSize \in Nat \ {0} /\ begun \in DOMAIN stream /\ begun \in Nat
        /\ Size(begun) \in Nat \ {0} /\ DOMAIN stream = 1 .. Len(stream) /\ Len(stream) \in Nat
        /\ came \in Nat /\ came <= Len(stream) /\ taken <= came /\ begun <= taken
    BY <1>1, Numbers
  <1>3. CASE Broken \/ AtEnd
    <2>1. Broken => UNCHANGED recvVars BY DEF ReceiveRest
    <2>2. AtEnd => ~Broken /\ taken = came /\ came = Len(stream) BY DEF AtEnd, Broken
    <2>3. ~Broken => Recv(begun) BY DEF ReceiveRest
    <2>4. taken' = taken /\ torn' = torn
      <3>1. CASE Broken BY <2>1, <3>1 DEF recvVars
      <3>2. CASE AtEnd
        <4>1. Recv(begun) /\ taken = came BY <2>2, <2>3, <3>2
        <4>2. taken' = taken BY <1>2, <4>1 DEF Recv
        <4> QED BY <1>2, <4>1, <4>2 DEF Recv
      <3> QED BY <1>3, <3>1, <3>2
    <2>5. crowded' \in BOOLEAN /\ (crowded => crowded')
      BY <1>3, <2>1, <2>2, <2>3 DEF Recv, recvVars, ClientTypeOK
    <2>6. IsHeader(begun) => Broken \/ Whole \/ stream[begun].packet \in torn
      <3> SUFFICES ASSUME IsHeader(begun), AtEnd, taken = begun + BufSize - 1
                   PROVE  Whole
        BY <1>1, <1>3 DEF RestInv
      <3>1. begun + Size(begun) - 1 \in DOMAIN stream BY <1>2 DEF StreamInv
      <3> QED BY <1>2, <2>2, <2>4, <3>1 DEF Whole
    <2>7. ~Disorder' => Broken /\ IsHeader(begun) /\ RestFits
      <3> SUFFICES ASSUME ~Disorder' PROVE Broken /\ IsHeader(begun) /\ RestFits OBVIOUS
      <3>1. ~Disorder BY <1>1, <2>4, <2>5, DisorderStays
      <3>2. IsHeader(begun) BY <1>1, <3>1 DEF OrderInv
      <3>3. taken = begun + BufSize - 1 /\ BufSize < Size(begun)
        BY <1>1, <3>1, <3>2 DEF RestInv, Disorder
      <3>4. begun + Size(begun) - 1 \in DOMAIN stream BY <1>2, <3>2 DEF StreamInv
      <3>5. taken # Len(stream) BY <1>2, <3>3, <3>4
      <3>6. Broken BY <1>3, <2>2, <3>5
      <3>7. BufSize + (taken' - taken) <= Size(begun) BY <1>2, <2>4, <3>3
      <3> QED BY <3>2, <3>6, <3>7 DEF RestFits
    <2>8. /\ taken' \in Nat /\ taken <= taken' /\ taken' <= came
          /\ torn \subseteq torn' /\ torn' \subseteq DOMAIN said
      BY <1>2, <2>4 DEF ClientTypeOK
    <2> QED BY <2>4, <2>5, <2>6, <2>7, <2>8, RestEnds
  <1>4. CASE ~Broken /\ taken < came
    <2>1. Recv(begun) BY <1>4 DEF ReceiveRest
    <2>2. /\ taken' \in Nat /\ taken < taken' /\ taken' <= came
          /\ torn \subseteq torn' /\ torn' \subseteq DOMAIN said
          /\ crowded' \in BOOLEAN /\ (crowded => crowded')
      BY <1>1, <1>4, <2>1, RecvTakes
    <2>3. \/ Size(begun) <= 2 * BufSize
          \/ TooLong(stream[begun].packet) /\ stream[begun].packet \in DOMAIN said
      BY <1>2, Numbers DEF TooLong, Size
    <2>4. IsHeader(begun) /\ taken = begun + BufSize - 1 /\ Size(begun) <= 2 * BufSize =>
             /\ begun + Size(begun) - 1 <= taken' \/ stream[begun].packet \in torn'
             /\ ~Disorder' => taken' = begun + Size(begun) - 1 /\ AtHeader(taken' + 1)
      <3> SUFFICES ASSUME IsHeader(begun), taken = begun + BufSize - 1,
                          Size(begun) <= 2 * BufSize
                   PROVE  /\ begun + Size(begun) - 1 <= taken' \/ stream[begun].packet \in torn'
                          /\ ~Disorder' => taken' = begun + Size(begun) - 1 /\ AtHeader(taken' + 1)
        OBVIOUS
      <3>1. begun <= taken + 1 /\ begun + Size(begun) - 1 <= taken + BufSize BY <1>2
      <3> QED BY <1>1, <1>2, <1>4, <2>1, <3>1, EndsWithPacket
    <2>5. IsHeader(begun) =>
             Whole \/ TooLong(stream[begun].packet) \/ stream[begun].packet \in torn'
      BY <1>1, <1>2, <2>2, <2>3, <2>4 DEF RestInv, Whole
    <2>6. ~Disorder' => AtHeader(taken' + 1) /\ IsHeader(begun) /\ RestFits
      <3> SUFFICES ASSUME ~Disorder'
                   PROVE  AtHeader(taken' + 1) /\ IsHeader(begun) /\ RestFits
        OBVIOUS
      <3>1. ~Disorder BY <1>1, <2>2, DisorderStays
      <3>2. IsHeader(begun) BY <1>1, <3>1 DEF OrderInv
      <3>3. taken = begun + BufSize - 1 BY <1>1, <3>1, <3>2 DEF RestInv, Disorder
      <3>4. Size(begun) <= 2 * BufSize BY <2>3, <3>1 DEF Disorder
      <3>5. taken' = begun + Size(begun) - 1 /\ AtHeader(taken' + 1)
        BY <2>4, <3>2, <3>3, <3>4
      <3>6. BufSize + (taken' - taken) <= Size(begun)
        <4> DEFINE s == Size(begun)
        <4>1. taken' = begun + s - 1 /\ s \in Nat /\ begun \in Nat /\ BufSize \in Nat
          BY <1>2, <3>5
        <4> HIDE DEF s
        <4>2. BufSize + (taken' - taken) <= s BY <3>3, <4>1
        <4> QED BY <4>2 DEF s
      <3> QED BY <3>2, <3>5, <3>6 DEF RestFits
    <2> QED BY <1>1, <1>2, <2>2, <2>5, <2>6, RestEnds
  <1> QED BY <1>3, <1>4 DEF ReceiveRest, Readable

LEMMA WaitingKeeps ==
    ASSUME ClientInv, SelectTimeout \/ ReceiveEnd \/ ReceiveError
    PROVE  ClientInv'
  <1>1. /\ UNCHANGED <<begun, recvVars, netVars, shown>> /\ KeyboardUnchanged
        /\ phase = "select" /\ phase' \in {"input", "left", "crashed"}
        /\ phase' = "crashed" => Broken
    BY DEF SelectTimeout, ReceiveEnd, ReceiveError, KeyboardUnchanged
  <1>2. ClientTypeOK'
    BY <1>1 DEF ClientInv, ClientTypeOK, KeyboardUnchanged, netVars, recvVars
  <1>3. CASE phase' # "crashed" BY <1>1, <1>2, <1>3, TurnKeeps DEF ClientInv
  <1>4. CASE phase' = "crashed"
    <2> USE DEF ClientInv, netVars, recvVars
    <2>1. StreamInv' BY <1>1, StreamStays
    <2>2. Ordered' /\ RestInv' BY <1>1, <1>4 DEF Ordered, RestInv, IsHeader
    <2>3. OrderInv' BY <1>1, <1>4 DEF OrderInv, Broken
    <2>4. ShownOnceInOrder' /\ OnlyLossesAreIncomplete'
      BY <1>1 DEF ShownOnceInOrder, OnlyLossesAreIncomplete, Broken, TooLong
    <2> QED BY <1>2, <2>1, <2>2, <2>3, <2>4
  <1> QED BY <1>3, <1>4

-----------------------------------------------------------------------------
(* The user, the network and the server. *)

LEMMA PressKeeps ==
    ASSUME ClientInv, Press
    PROVE  ClientInv'
  <1>1. keyboard' \in Seq(Key) BY AppendShown DEF Press, ClientInv, ClientTypeOK
  <1> USE DEF ClientInv, Press, netVars, recvVars, loopVars
  <1>2. ClientTypeOK' BY <1>1 DEF ClientTypeOK
  <1>3. StreamInv' BY StreamStays
  <1>4. Ordered' /\ RestInv' BY DEF Ordered, RestInv, IsHeader, Size
  <1>5. OrderInv' BY DEF OrderInv, Disorder, TooLong, AtHeader, IsHeader, Broken
  <1>6. ShownOnceInOrder' /\ OnlyLossesAreIncomplete'
    BY DEF ShownOnceInOrder, OnlyLossesAreIncomplete, Broken, TooLong
  <1> QED BY <1>2, <1>3, <1>4, <1>5, <1>6

LEMMA ServerSaysKeeps ==
    ASSUME ClientInv, ServerSays
    PROVE  ClientInv'
  <1> USE DEF ClientInv
  <1>0. PICK l \in Nat, n \in Nat : l = Len(stream) /\ n = Len(said) + 1
    <2>1. Len(stream) \in Nat /\ Len(said) + 1 \in Nat BY Numbers
    <2> QED BY <2>1
  <1> DEFINE Shown(s) == [packet : DOMAIN s, complete : BOOLEAN]
             Cells(s) == [packet : DOMAIN s, part : Nat \ {0}]
  <1>1. PICK type \in {0, 1}, size \in Sizes :
           /\ said' = Append(said, [type |-> type, size |-> size])
           /\ stream' = stream \o [k \in 1 .. size |-> [packet |-> n, part |-> k]]
    BY <1>0 DEF ServerSays
  <1>2. UNCHANGED <<loopVars, recvVars, keyboard, wire, came, read, outbox, shown>>
    BY DEF ServerSays
  <1>3. /\ said \in Seq(Said) /\ stream \in Seq(Cells(said)) /\ shown \in Seq(Shown(said))
        /\ l \in Nat /\ n \in Nat \ {0} /\ size \in Nat \ {0}
        /\ DOMAIN stream = 1 .. l
    BY <1>0, Numbers, ClientAssumption DEF ClientTypeOK, Said
  <1>4. /\ said' \in Seq(Said)
        /\ DOMAIN said' = DOMAIN said \cup {n} /\ said'[n].size = size
        /\ \A k \in DOMAIN said : said'[k] = said[k] /\ k < n
    <2>1. [type |-> type, size |-> size] \in Said BY DEF Said
    <2> HIDE DEF Said
    <2> QED BY <1>0, <1>1, <1>3, <2>1, AppendShown
  <1>5. stream \in Seq(Cells(said')) /\ shown \in Seq(Shown(said'))
    <2>1. Cells(said) \subseteq Cells(said') /\ Shown(said) \subseteq Shown(said') BY <1>4
    <2> QED BY <1>3, <2>1, SeqGrows
  <1>6. /\ stream' \in Seq(Cells(said')) /\ Len(stream') = l + size
        /\ DOMAIN stream' = 1 .. l + size
        /\ \A i \in 1 .. l : stream'[i] = stream[i]
        /\ \A i \in l + 1 .. l + size : stream'[i].packet = n /\ stream'[i].part = i - l
    <2> DEFINE more == [k \in 1 .. size |-> [packet |-> n, part |-> k]]
    <2>1. more \in Seq(Cells(said')) /\ Len(more) = size
      <3>1. \A k \in 1 .. size : [packet |-> n, part |-> k] \in Cells(said') BY <1>3, <1>4
      <3> HIDE DEF Cells
      <3> QED BY <1>3, <3>1
    <2>2. \A k \in 1 .. size : more[k].packet = n /\ more[k].part = k OBVIOUS
    <2> HIDE DEF more, Cells
    <2>3. /\ stream' \in Seq(Cells(said')) /\ Len(stream') = l + size
          /\ DOMAIN stream' = 1 .. l + size
          /\ \A i \in 1 .. l + size : stream'[i] = IF i <= l THEN stream[i] ELSE more[i - l]
      BY <1>0, <1>1, <1>3, <1>5, <2>1, ConcatProperties DEF more
    <2>4. \A i \in 1 .. l : i \in 1 .. l + size /\ i <= l BY <1>3
    <2>5. \A i \in l + 1 .. l + size : i \in 1 .. l + size /\ ~(i <= l) /\ i - l \in 1 .. size
      BY <1>3
    <2>6. \A i \in 1 .. l : stream'[i] = stream[i] BY <2>3, <2>4
    <2>7. \A i \in l + 1 .. l + size : stream'[i] = more[i - l] BY <2>3, <2>5
    <2>8. \A i \in l + 1 .. l + size : stream'[i].packet = n /\ stream'[i].part = i - l
      BY <2>2, <2>5, <2>7
    <2> QED BY <2>3, <2>6, <2>8
  <1> HIDE DEF Cells, Shown
  <1>7. /\ \A i \in DOMAIN stream : /\ stream[i].packet \in DOMAIN said /\ stream[i].packet < n
                                    /\ stream[i].packet \in Nat
                                    /\ Size(i) \in Nat \ {0} /\ stream[i].part \in Nat \ {0}
        /\ \A k \in DOMAIN shown : shown[k].packet \in DOMAIN said /\ shown[k].packet < n
    <2>1. \A k \in DOMAIN shown : shown[k].packet \in DOMAIN said
      <3>1. \A k \in DOMAIN shown : shown[k] \in Shown(said) BY <1>3, Elements
      <3> QED BY <3>1 DEF Shown
    <2> QED BY <1>4, <2>1, Numbers
  <1>8. /\ \A i \in 1 .. l : Size(i)' = Size(i) /\ (IsHeader(i)' <=> IsHeader(i))
        /\ \A i \in l + 1 .. l + size : Size(i)' = size /\ (IsHeader(i)' <=> i = l + 1)
    <2>1. \A i \in 1 .. l : Size(i)' = Size(i) /\ (IsHeader(i)' <=> IsHeader(i))
      BY <1>3, <1>4, <1>6, <1>7 DEF Size, IsHeader
    <2>2. \A i \in l + 1 .. l + size : Size(i)' = size /\ (IsHeader(i)' <=> i = l + 1)
      BY <1>3, <1>4, <1>6 DEF Size, IsHeader
    <2> QED BY <2>1, <2>2
  <1>9. ClientTypeOK'
    <2>1. came \in 0 .. l + size BY <1>3 DEF ClientTypeOK
    <2>2. torn \subseteq DOMAIN said' BY <1>4 DEF ClientTypeOK
    <2> QED BY <1>2, <1>4, <1>5, <1>6, <2>1, <2>2
            DEF ClientTypeOK, loopVars, recvVars, Said, Cells, Shown
  <1>10. StreamInv'
    <2>1. ASSUME NEW i \in 1 .. l + size, IsHeader(i)'
          PROVE  /\ i + Size(i)' - 1 \in 1 .. l + size
                 /\ \A j \in i .. i + Size(i)' - 1 :
                       stream'[j].packet = stream'[i].packet /\ stream'[j].part = j - i + 1
      <3>1. CASE i \in 1 .. l
        <4>1. IsHeader(i) /\ Size(i)' = Size(i) BY <1>8, <2>1, <3>1
        <4>2. /\ i + Size(i) - 1 \in 1 .. l
              /\ \A j \in i .. i + Size(i) - 1 :
                    stream[j].packet = stream[i].packet /\ stream[j].part = j - i + 1
          BY <1>3, <3>1, <4>1 DEF StreamInv
        <4>3. \A j \in i .. i + Size(i) - 1 : j \in 1 .. l BY <1>3, <1>7, <3>1, <4>2
        <4> QED BY <1>3, <1>6, <3>1, <4>1, <4>2, <4>3
      <3>2. CASE i \in l + 1 .. l + size
        <4>1. i = l + 1 /\ Size(i)' = size BY <1>8, <2>1, <3>2
        <4> QED BY <1>3, <1>6, <4>1
      <3> QED BY <1>3, <3>1, <3>2
    <2>2. AtHeader(l + 1)'
      <3>1. l + 1 \in l + 1 .. l + size BY <1>3
      <3> QED BY <1>8, <3>1 DEF AtHeader
    <2>3. AtHeader(1)'
      <3>1. CASE l = 0 BY <2>2, <3>1
      <3>2. CASE l # 0
        <4>1. 1 \in 1 .. l BY <1>3, <3>2
        <4>2. IsHeader(1) BY <1>3, <3>2 DEF StreamInv, AtHeader
        <4> QED BY <1>8, <4>1, <4>2 DEF AtHeader
      <3> QED BY <3>1, <3>2
    <2>4. ASSUME NEW i \in 1 .. l + size, stream'[i].part = Size(i)' PROVE AtHeader(i + 1)'
      <3>1. CASE i \in 1 .. l
        <4>1. stream[i].part = Size(i) BY <1>6, <1>8, <2>4, <3>1
        <4>2. AtHeader(i + 1) BY <1>3, <3>1, <4>1 DEF StreamInv
        <4>3. CASE i = l BY <2>2, <4>3
        <4>4. CASE i # l
          <5>1. i + 1 \in 1 .. l BY <1>3, <3>1, <4>4
          <5>2. IsHeader(i + 1) BY <1>3, <4>2, <5>1 DEF AtHeader
          <5> QED BY <1>8, <5>1, <5>2 DEF AtHeader
        <4> QED BY <4>3, <4>4
      <3>2. CASE i \in l + 1 .. l + size
        <4>1. i - l = size BY <1>6, <1>8, <2>4, <3>2
        <4>2. i + 1 = Len(stream') + 1 BY <1>3, <1>6, <3>2, <4>1
        <4> QED BY <4>2 DEF AtHeader
      <3> QED BY <1>3, <3>1, <3>2
    <2>5. ASSUME NEW i \in 1 .. l + size, NEW j \in 1 .. l + size, i < j
          PROVE  /\ stream'[i].packet <= stream'[j].packet
                 /\ IsHeader(j)' => stream'[i].packet < stream'[j].packet
      <3>1. CASE j \in 1 .. l
        <4>1. i \in 1 .. l BY <1>3, <2>5, <3>1
        <4>2. /\ stream[i].packet <= stream[j].packet
              /\ IsHeader(j) => stream[i].packet < stream[j].packet
          BY <1>3, <2>5, <3>1, <4>1 DEF StreamInv
        <4> QED BY <1>6, <1>8, <3>1, <4>1, <4>2
      <3>2. CASE j \in l + 1 .. l + size /\ i \in 1 .. l
        <4>1. stream[i].packet < n /\ stream[i].packet \in Nat BY <1>3, <1>7, <3>2
        <4>2. stream'[i] = stream[i] /\ stream'[j].packet = n BY <1>6, <3>2
        <4> QED BY <1>3, <4>1, <4>2
      <3>3. CASE j \in l + 1 .. l + size /\ i \in l + 1 .. l + size
        <4>1. stream'[i].packet = n /\ stream'[j].packet = n BY <1>6, <3>3
        <4>2. ~IsHeader(j)' BY <1>3, <1>8, <2>5, <3>3
        <4> QED BY <1>3, <4>1, <4>2
      <3> QED BY <1>3, <3>1, <3>2, <3>3
    <2>6. DOMAIN stream' = 1 .. l + size BY <1>6
    <2> QED BY <2>1, <2>3, <2>4, <2>5, <2>6 DEF StreamInv
  <1>11. /\ begun' = begun /\ phase' = phase /\ taken' = taken /\ torn' = torn
         /\ crowded' = crowded /\ shown' = shown /\ wire' = wire
    BY <1>2 DEF loopVars, recvVars
  <1>12. phase = "rest" =>
            /\ begun \in 1 .. l /\ stream'[begun] = stream[begun]
            /\ IsHeader(begun)' = IsHeader(begun) /\ Size(begun)' = Size(begun)
    <2> SUFFICES ASSUME phase = "rest"
                 PROVE  /\ begun \in 1 .. l /\ stream'[begun] = stream[begun]
                        /\ IsHeader(begun)' = IsHeader(begun) /\ Size(begun)' = Size(begun)
      OBVIOUS
    <2>1. begun \in 1 .. l
      <3>1. begun # 0 BY DEF ClientTypeOK
      <3>2. /\ begun \in Nat /\ taken \in Nat /\ came \in Nat
            /\ begun <= taken /\ taken <= came /\ came <= Len(stream)
        BY Numbers
      <3> QED BY <1>0, <3>1, <3>2
    <2>2. stream'[begun] = stream[begun] BY <1>6, <2>1
    <2>3. stream[begun].packet \in DOMAIN said BY <1>3, <1>7, <2>1
    <2>4. said'[stream[begun].packet] = said[stream[begun].packet] BY <1>4, <2>3
    <2> QED BY <1>11, <2>1, <2>2, <2>4 DEF IsHeader, Size
  <1>13. Ordered'
    <2>1. \A k \in DOMAIN shown, i \in DOMAIN stream' :
             taken < i /\ IsHeader(i)' => shown[k].packet < stream'[i].packet
      <3> SUFFICES ASSUME NEW k \in DOMAIN shown, NEW i \in DOMAIN stream',
                          taken < i, IsHeader(i)'
                   PROVE  shown[k].packet < stream'[i].packet
        OBVIOUS
      <3>1. CASE i \in 1 .. l BY <1>3, <1>6, <1>8, <3>1 DEF Ordered
      <3>2. CASE i \in l + 1 .. l + size BY <1>6, <1>7, <3>2
      <3> QED BY <1>3, <1>6, <3>1, <3>2
    <2> QED BY <1>11, <1>12, <2>1 DEF Ordered, IsHeader
  <1>14. RestInv' BY <1>11, <1>12 DEF RestInv, IsHeader, Size
  <1>15. OrderInv'
    <2>1. CASE Disorder BY <1>4, <1>11, <2>1 DEF OrderInv, Disorder, TooLong
    <2>2. CASE ~Disorder
      <3>1. AtHeader(taken + 1) => AtHeader(taken + 1)'
        <4>1. taken \in 0 .. l
          <5>1. taken \in Nat /\ came \in Nat /\ taken <= came /\ came <= Len(stream)
            BY Numbers
          <5> QED BY <1>0, <5>1
        <4>2. CASE taken = l
          <5>1. l + 1 \in l + 1 .. l + size BY <1>3
          <5> QED BY <1>8, <1>11, <4>2, <5>1 DEF AtHeader, IsHeader
        <4>3. CASE taken # l
          <5>1. taken + 1 \in 1 .. l /\ taken \in Nat BY <1>3, <4>1, <4>3
          <5>2. taken + 1 # l + 1 BY <1>3, <4>3, <5>1
          <5>3. AtHeader(taken + 1) => IsHeader(taken + 1) BY <1>0, <5>2 DEF AtHeader
          <5>4. stream'[taken + 1] = stream[taken + 1] BY <1>6, <5>1
          <5> QED BY <1>11, <5>3, <5>4 DEF AtHeader, IsHeader
        <4> QED BY <4>2, <4>3
      <3> QED BY <1>11, <1>12, <2>2, <3>1 DEF OrderInv, Broken, IsHeader
    <2> QED BY <2>1, <2>2
  <1>16. ShownOnceInOrder' /\ OnlyLossesAreIncomplete'
    BY <1>4, <1>7, <1>11 DEF ShownOnceInOrder, OnlyLossesAreIncomplete, Broken, TooLong
  <1> QED BY <1>9, <1>10, <1>13, <1>14, <1>15, <1>16

LEMMA NetworkKeeps ==
    ASSUME ClientInv, Deliver \/ ServerFault
    PROVE  ClientInv'
  <1> USE DEF ClientInv, loopVars, recvVars
  <1>1. /\ UNCHANGED <<loopVars, recvVars, keyboard, said, stream, read, outbox, shown>>
        /\ wire' \in {wire, "closed", "reset"} /\ (wire = "reset" => wire' = "reset")
    BY DEF Deliver, ServerFault, ClientTypeOK
  <1>2. came' \in Nat /\ came <= came' /\ came' <= Len(stream)
    BY Numbers DEF Deliver, ServerFault
  <1>3. ClientTypeOK'
    <2>1. came' \in 0 .. Len(stream) /\ taken \in 0 .. came' BY <1>2, Numbers
    <2> QED BY <1>1, <2>1 DEF ClientTypeOK
  <1>4. StreamInv' BY <1>1, StreamStays
  <1>5. Ordered' /\ RestInv' BY <1>1 DEF Ordered, RestInv, IsHeader, Size
  <1>6. OrderInv' BY <1>1 DEF OrderInv, Disorder, TooLong, AtHeader, IsHeader, Broken
  <1>7. ShownOnceInOrder' /\ OnlyLossesAreIncomplete'
    BY <1>1 DEF ShownOnceInOrder, OnlyLossesAreIncomplete, Broken, TooLong
  <1> QED BY <1>3, <1>4, <1>5, <1>6, <1>7

-----------------------------------------------------------------------------
LEMMA ClientStarts == ASSUME Init PROVE ClientInv
  <1>1. wire \in {"unconnected", "open", "closed", "reset"}
    BY ClientAssumption DEF Init
  <1>2. ClientTypeOK
    <2>1. Len(stream) = 0 BY DEF Init
    <2>2. /\ <<>> \in Seq(Char) /\ <<>> \in Seq(Key)
          /\ <<>> \in Seq([type : {0, 1}, size : Sizes])
          /\ \A S : <<>> \in Seq([packet : S, part : Nat \ {0}])
          /\ <<>> \in Seq([type : {1, 2}, text : Seq(Char)])
          /\ \A S : <<>> \in Seq([packet : S, complete : BOOLEAN])
      BY NothingInSeq
    <2>3. /\ said \in Seq([type : {0, 1}, size : Sizes])
          /\ stream \in Seq([packet : DOMAIN said, part : Nat \ {0}])
          /\ shown \in Seq([packet : DOMAIN said, complete : BOOLEAN])
      BY <2>2 DEF Init
    <2>4. came \in 0 .. Len(stream) /\ taken \in 0 .. came /\ begun \in 0 .. taken
      BY <2>1 DEF Init
    <2>5. torn \subseteq DOMAIN said /\ crowded \in BOOLEAN BY DEF Init
    <2>6. /\ userInputBuffer \in Seq(Char) /\ keyboard \in Seq(Key) /\ read \in Seq(Key)
          /\ outbox \in Seq([type : {1, 2}, text : Seq(Char)])
          /\ phase = "input" /\ begun = 0
      BY <2>2 DEF Init
    <2> QED BY <1>1, <2>3, <2>4, <2>5, <2>6 DEF ClientTypeOK
  <1>3. StreamInv BY DEF Init, StreamInv, AtHeader
  <1> QED BY <1>2, <1>3 DEF Init, ClientInv, Ordered, RestInv, OrderInv, AtHeader,
                            ShownOnceInOrder, OnlyLossesAreIncomplete

LEMMA ClientGoesOn == ASSUME ClientInv, [Next]_vars PROVE ClientInv'
  <1>1. CASE UNCHANGED vars
    <2> USE DEF ClientInv, vars, loopVars, netVars, recvVars
    <2>1. ClientTypeOK' BY <1>1 DEF ClientTypeOK
    <2>2. StreamInv' BY <1>1, StreamStays
    <2>3. Ordered' /\ RestInv' BY <1>1 DEF Ordered, RestInv, IsHeader, Size
    <2>4. OrderInv' BY <1>1 DEF OrderInv, Disorder, TooLong, AtHeader, IsHeader, Broken
    <2>5. ShownOnceInOrder' /\ OnlyLossesAreIncomplete'
      BY <1>1 DEF ShownOnceInOrder, OnlyLossesAreIncomplete, Broken, TooLong
    <2> QED BY <2>1, <2>2, <2>3, <2>4, <2>5
  <1>2. CASE Thread
    BY <1>2, TypingKeeps, ReceiveKeeps, ReceiveRestKeeps, WaitingKeeps DEF Thread
  <1>3. CASE Press \/ ServerSays \/ Deliver \/ ServerFault
    BY <1>3, PressKeeps, ServerSaysKeeps, NetworkKeeps
  <1> QED BY <1>1, <1>2, <1>3 DEF Next, Stopped

LEMMA ClientIsInductive == Spec => []ClientInv
  <1>1. Init => ClientInv BY ClientStarts
  <1>2. ClientInv /\ [Next]_vars => ClientInv' BY ClientGoesOn
  <1> QED BY <1>1, <1>2, PTL DEF Spec

(* The state of the client's thread and of its connection is well typed. *)
THEOREM ClientIsTyped == Spec => []ClientTypeOK
    BY ClientIsInductive, PTL DEF ClientInv

(* For packets of any size, however they are delivered, and however the    *)
(* connection breaks: a text is shown at most once, and none after one     *)
(* that the server sent later.                                             *)
THEOREM TextsComeOnceInOrder == Spec => []ShownOnceInOrder
    BY ClientIsInductive, PTL DEF ClientInv

(* For packets of any size, however they are delivered: a text that two    *)
(* buffers hold is shown in part only when the connection breaks or its    *)
(* delivery in parts made a recv() find less than there is room for.       *)
THEOREM OnlyLossesCutTexts == Spec => []OnlyLossesAreIncomplete
    BY ClientIsInductive, PTL DEF ClientInv

(* The rest of a packet whose header was read has been sent, so that only  *)
(* a header read from text makes the thread wait for nothing; and nothing  *)
(* but a packet too long, in parts or with another leads to such a header. *)
THEOREM TheThreadStopsInDisorderOnly == Spec => []OnlyDisorderStops
  <1>1. ASSUME ClientInv PROVE OnlyDisorderStops
    <2> USE <1>1 DEF ClientInv
    <2> SUFFICES ASSUME ~Disorder, Stuck \/ (phase = "crashed" /\ ~Broken) PROVE FALSE
      BY DEF OnlyDisorderStops, Disorder
    <2>1. Stuck BY DEF OrderInv
    <2>2. phase = "rest" /\ IsHeader(begun) /\ taken = Len(stream) BY <2>1 DEF OrderInv, Stuck
    <2>3. taken = begun + BufSize - 1 /\ BufSize < Size(begun)
      BY <2>2 DEF RestInv, Disorder
    <2>4. begun \in DOMAIN stream BY <2>2, Numbers DEF ClientTypeOK
    <2>5. begun + Size(begun) - 1 <= Len(stream) BY <2>2, <2>4, Numbers DEF StreamInv
    <2> QED BY <2>2, <2>3, <2>4, <2>5, Numbers
  <1> QED BY <1>1, ClientIsInductive, PTL

-----------------------------------------------------------------------------
(* The line editor. *)

Line == [type : {1, 2}, text : Seq(Char)]

Edit == [line : Seq(Char), lines : Seq(Line)]

(* A key keeps the type of what is being edited. *)
LEMMA TypedType ==
  ASSUME NEW edit \in Edit, NEW key \in Key
  PROVE  Typed(edit, key) \in Edit
<1>1. edit.line \in Seq(Char) /\ edit.lines \in Seq(Line)
  BY DEF Edit
<1>2. CASE key \in Char
  <2>1. Append(edit.line, key) \in Seq(Char)
    BY <1>1, <1>2
  <2>2. Typed(edit, key) = [edit EXCEPT !.line = Append(edit.line, key)]
    BY <1>2, ClientAssumption DEF Typed
  <2> QED BY <2>1, <2>2 DEF Edit
<1>3. CASE key \notin Char /\ key = "backspace" /\ edit.line # <<>>
  <2>1. Front(edit.line) \in Seq(Char)
    BY <1>1, <1>3 DEF Front
  <2>2. Typed(edit, key) = [edit EXCEPT !.line = Front(edit.line)]
    BY <1>3 DEF Typed
  <2> QED BY <2>1, <2>2 DEF Edit
<1>4. CASE key \notin Char /\ key = "enter" /\ edit.line # <<>>
  <2>1. Outgoing(edit.line) \in Line
    BY <1>1 DEF Outgoing, Line
  <2>2. Append(edit.lines, Outgoing(edit.line)) \in Seq(Line)
    BY <1>1, <2>1
  <2>3. Typed(edit, key) = [line |-> <<>>, lines |-> Append(edit.lines, Outgoing(edit.line))]
    BY <1>4 DEF Typed
  <2>4. << >> \in Seq(Char)
    OBVIOUS
  <2> QED BY <2>2, <2>3, <2>4 DEF Edit
<1>5. CASE ~(key \in Char \/ (key \in {"backspace", "enter"} /\ edit.line # <<>>))
  <2>1. Typed(edit, key) = edit
    BY <1>5 DEF Typed
  <2> QED BY <2>1
<1> QED BY <1>2, <1>3, <1>4, <1>5

(* Edited is computed key by key: the values of the fold for the first k   *)
(* keys, for every k.                                                      *)
LEMMA EditedStepwise ==
  ASSUME NEW q \in Seq(Key)
  PROVE  \E it : /\ Edited(q) = it[1 .. Len(q)]
                 /\ it[{}] = NothingTyped
                 /\ \A k \in 1 .. Len(q) : it[1 .. k] = Typed(it[1 .. (k - 1)], q[k])
<1> DEFINE n == Len(q)
           Value(it, s) == IF s = {} THEN NothingTyped ELSE Typed(it[s \ {Max(s)}], q[Max(s)])
           Iter(it) == it = [s \in SUBSET (DOMAIN q) |-> Value(it, s)]
           step == [i \in 1 .. n |-> [edit \in Edit |-> Typed(edit, q[i])]]
<1>1. n \in Nat /\ DOMAIN q = 1 .. n /\ \A i \in 1 .. n : q[i] \in Key
  OBVIOUS
<1>2. NothingTyped \in Edit
  <2>1. << >> \in Seq(Char) /\ << >> \in Seq(Line)
    OBVIOUS
  <2> QED BY <2>1 DEF NothingTyped, Edit
<1>3. step \in [1 .. n -> [Edit -> Edit]]
  BY <1>1, TypedType
<1> HIDE DEF step, n
<1>4. PICK g \in [SUBSET (1 .. n) -> Edit] : IsFold(g, n, NothingTyped, step)
  BY <1>1, <1>2, <1>3, FoldExists
<1>5. ASSUME NEW s \in SUBSET (1 .. n) PROVE g[s] = Value(g, s)
  <2>1. CASE s = {}
    BY <1>4, <2>1 DEF IsFold
  <2>2. CASE s # {}
    <3>1. Max(s) \in 1 .. n
      BY <1>1, <2>2, MaxOfInterval
    <3>2. g[s \ {Max(s)}] \in Edit
      BY <1>4
    <3>3. step[Max(s)][g[s \ {Max(s)}]] = Typed(g[s \ {Max(s)}], q[Max(s)])
      BY <3>1, <3>2 DEF step
    <3> QED BY <1>4, <2>2, <3>3 DEF IsFold
  <2> QED BY <2>1, <2>2
<1>6. Iter(g)
  <2> HIDE DEF Value
  <2>1. g = [s \in SUBSET (1 .. n) |-> g[s]]
    BY <1>4
  <2> QED BY <2>1, <1>1, <1>5
<1> DEFINE it == CHOOSE i : Iter(i)
<1>7. Edited(q) = it[DOMAIN q]
  BY DEF Edited, FoldLeft, MapThenFoldSet
<1>8. Iter(it)
  <2> HIDE DEF Iter
  <2> QED BY <1>6
<1> HIDE DEF it
<1>9. it[{}] = NothingTyped
  BY <1>8
<1>10. ASSUME NEW k \in 1 .. n PROVE it[1 .. k] = Typed(it[1 .. (k - 1)], q[k])
  <2>1. k \in Nat /\ 1 .. k \in SUBSET (1 .. n) /\ k \in 1 .. k /\ (1 .. k) \ {k} = 1 .. (k - 1)
    BY <1>1
  <2>2. Max(1 .. k) = k
    BY <2>1, MaxUpTo
  <2>3. it[1 .. k] = Value(it, 1 .. k)
    <3> HIDE DEF Value
    <3> QED BY <1>1, <1>8, <2>1
  <2> QED BY <2>1, <2>2, <2>3
<1> QED BY <1>1, <1>7, <1>9, <1>10 DEF n

(* One key more is one step more.  The two folds are over vectors of their *)
(* own; they agree on every prefix of the shorter one, by induction.       *)
LEMMA EditedGrows ==
  ASSUME NEW q \in Seq(Key), NEW key \in Key
  PROVE  Edited(Append(q, key)) = Typed(Edited(q), key)
<1> DEFINE r == Append(q, key)
           n == Len(q)
<1>1. /\ r \in Seq(Key) /\ n \in Nat /\ Len(r) = n + 1
      /\ \A i \in 1 .. n : r[i] = q[i]
      /\ r[n + 1] = key
  BY AppendProperties
<1> HIDE DEF r, n
<1>2. PICK f : /\ Edited(q) = f[1 .. n]
               /\ f[{}] = NothingTyped
               /\ \A k \in 1 .. n : f[1 .. k] = Typed(f[1 .. (k - 1)], q[k])
  BY EditedStepwise DEF n
<1>3. PICK g : /\ Edited(r) = g[1 .. (n + 1)]
               /\ g[{}] = NothingTyped
               /\ \A k \in 1 .. (n + 1) : g[1 .. k] = Typed(g[1 .. (k - 1)], r[k])
  BY <1>1, EditedStepwise
<1>4. ASSUME NEW k \in 1 .. n, f[1 .. (k - 1)] = g[1 .. (k - 1)] PROVE f[1 .. k] = g[1 .. k]
  <2>1. k \in 1 .. (n + 1) /\ r[k] = q[k]
    BY <1>1
  <2>2. f[1 .. k] = Typed(f[1 .. (k - 1)], q[k])
    BY <1>2
  <2>3. g[1 .. k] = Typed(g[1 .. (k - 1)], r[k])
    BY <1>3, <2>1
  <2> QED BY <1>4, <2>1, <2>2, <2>3
<1>5. f[1 .. n] = g[1 .. n]
  <2>1. n \in Nat
    BY <1>1
  <2>2. f[{}] = g[{}]
    BY <1>2, <1>3
  <2>3. \A k \in 1 .. n : f[1 .. (k - 1)] = g[1 .. (k - 1)] => f[1 .. k] = g[1 .. k]
    BY <1>4
  <2> QED BY <2>1, <2>2, <2>3, SameSteps
<1>6. n + 1 \in 1 .. (n + 1) /\ (n + 1) - 1 = n
  BY <1>1
<1>7. g[1 .. (n + 1)] = Typed(g[1 .. n], key)
  BY <1>3, <1>6, <1>1
<1> QED BY <1>2, <1>3, <1>5, <1>7 DEF r

LEMMA NothingTypedYet == Edited(<<>>) = NothingTyped
<1>1. << >> \in Seq(Key) /\ Len(<< >>) = 0 /\ 1 .. 0 = {}
  OBVIOUS
<1>2. PICK it : Edited(<< >>) = it[1 .. Len(<< >>)] /\ it[{}] = NothingTyped
  BY <1>1, EditedStepwise
<1> QED BY <1>1, <1>2

(* Prefixes. *)
LEMMA PrefixOfItself ==
  ASSUME NEW S, NEW s \in Seq(S)
  PROVE  IsPrefix(s, s)
BY DEF IsPrefix

LEMMA PrefixOfLonger ==
  ASSUME NEW S, NEW s \in Seq(S), NEW t \in Seq(S), NEW x \in S, IsPrefix(s, t)
  PROVE  IsPrefix(s, Append(t, x))
<1> DEFINE u == Append(t, x)
<1>1. /\ u \in Seq(S) /\ Len(u) = Len(t) + 1 /\ \A i \in 1 .. Len(t) : u[i] = t[i]
      /\ Len(s) \in Nat /\ Len(t) \in Nat /\ Len(s) <= Len(t)
  BY AppendProperties DEF IsPrefix
<1> HIDE DEF u
<1>2. SubSeq(u, 1, Len(s)) = SubSeq(t, 1, Len(s))
  BY <1>1
<1> QED BY <1>1, <1>2 DEF IsPrefix, u

-----------------------------------------------------------------------------
(* The lines.  That the lines typed have their types is no property of its *)
(* own, but what lets a line be compared with the one that is sent.        *)
LinesInv == ClientTypeOK /\ Edited(read) \in Edit /\ LinesArriveAsTyped

(* What the loop does with a key is what the line editor does. *)
LEMMA KeyIsEdited ==
  ASSUME LinesInv, NEW key, ReadKey(key), ClientTypeOK'
  PROVE  /\ Edited(read') = Typed(Edited(read), key) /\ Edited(read') \in Edit
         /\ key \in Key /\ Edited(read).line = userInputBuffer
         /\ Edited(read).lines \in Seq(Line) /\ outbox \in Seq(Line)
         /\ IsPrefix(outbox, Edited(read).lines)
         /\ wire = "open" => outbox = Edited(read).lines
         /\ wire' = wire /\ phase = "input"
         /\ \A k \in DOMAIN outbox : FirstToken(outbox[k].text) # LeaveWord
<1>1. /\ key \in Key /\ read \in Seq(Key) /\ read' = Append(read, key)
      /\ phase = "input" /\ wire' = wire
  BY HeadTail DEF LinesInv, ClientTypeOK, ReadKey, netVars
<1>2. Edited(read') = Typed(Edited(read), key)
  BY <1>1, EditedGrows
<1>3. Edited(read) \in Edit
  BY DEF LinesInv
<1>4. Edited(read') \in Edit
  BY <1>1, <1>2, <1>3, TypedType
<1>5. Edited(read).lines \in Seq(Line)
  BY <1>3 DEF Edit
<1>6. outbox \in Seq(Line)
  BY DEF LinesInv, ClientTypeOK, Line
<1>7. /\ Edited(read).line = userInputBuffer /\ IsPrefix(outbox, Edited(read).lines)
      /\ wire = "open" => outbox = Edited(read).lines
      /\ \A k \in DOMAIN outbox : FirstToken(outbox[k].text) # LeaveWord
  BY <1>1 DEF LinesInv, LinesArriveAsTyped
<1> QED BY <1>1, <1>2, <1>4, <1>5, <1>6, <1>7

(* A key that completes no line. *)
LEMMA LineIsBegun ==
  ASSUME LinesInv, NEW key, ReadKey(key), ClientTypeOK', UNCHANGED outbox, phase' = "select",
         Edited(read').line = userInputBuffer', Edited(read').lines = Edited(read).lines
  PROVE  LinesInv'
BY KeyIsEdited DEF LinesInv, LinesArriveAsTyped

LEMMA TypingKeepsLines ==
  ASSUME LinesInv, ClientTypeOK', TypeChar \/ Backspace \/ IgnoreKey
  PROVE  LinesInv'
<1> DEFINE edit == Edited(read)
<1>0. userInputBuffer = edit.line \/ phase = "left"
  BY DEF LinesInv, LinesArriveAsTyped
<1>1. edit \in Edit /\ edit.line \in Seq(Char)
  BY DEF LinesInv, Edit
<1>2. CASE TypeChar
  <2>1. PICK c \in Char : /\ ReadKey(c)
                          /\ userInputBuffer' = Append(userInputBuffer, c)
                          /\ phase' = "select" /\ UNCHANGED outbox
    BY <1>2 DEF TypeChar
  <2>2. Edited(read') = Typed(edit, c) /\ edit.line = userInputBuffer
    BY <2>1, KeyIsEdited
  <2> HIDE DEF edit
  <2>3. Typed(edit, c) = [edit EXCEPT !.line = Append(edit.line, c)]
    BY ClientAssumption DEF Typed
  <2>4. Edited(read').line = userInputBuffer' /\ Edited(read').lines = edit.lines
    BY <1>1, <2>1, <2>2, <2>3 DEF Edit
  <2> QED BY <2>1, <2>4, LineIsBegun DEF edit
<1>3. CASE Backspace
  <2>1. Edited(read') = Typed(edit, "backspace") /\ edit.line = userInputBuffer
    BY <1>3, KeyIsEdited DEF Backspace
  <2> HIDE DEF edit
  <2>2. "backspace" \notin Char
    BY ClientAssumption
  <2>3. Typed(edit, "backspace") = [edit EXCEPT !.line = Front(edit.line)]
    BY <1>3, <2>1, <2>2 DEF Typed, Backspace
  <2>4. Edited(read').line = userInputBuffer' /\ Edited(read').lines = edit.lines
    BY <1>1, <1>3, <2>1, <2>3 DEF Edit, Backspace
  <2> QED BY <1>3, <2>4, LineIsBegun DEF Backspace, edit
<1>4. CASE IgnoreKey
  <2>1. PICK key : /\ ReadKey(key)
                   /\ key = "other" \/ (userInputBuffer = <<>> /\ key \in {"backspace", "enter"})
    BY <1>4 DEF IgnoreKey
  <2>2. Edited(read') = Typed(edit, key) /\ edit.line = userInputBuffer
    BY <2>1, KeyIsEdited
  <2> HIDE DEF edit
  <2>3. key \notin Char
    BY <2>1, ClientAssumption
  <2>4. Typed(edit, key) = edit
    BY <2>1, <2>2, <2>3 DEF Typed
  <2>5. phase' = "select" /\ UNCHANGED <<userInputBuffer, outbox>>
    BY <1>4 DEF IgnoreKey
  <2> QED BY <2>1, <2>2, <2>4, <2>5, LineIsBegun DEF edit
<1> QED BY <1>2, <1>3, <1>4

LEMMA EnteringKeepsLines ==
  ASSUME LinesInv, ClientTypeOK', SendLine \/ Leave
  PROVE  LinesInv'
<1> DEFINE edit == Edited(read)
           new == Outgoing(userInputBuffer)
<1>1. /\ ReadKey("enter") /\ userInputBuffer # <<>>
  BY DEF SendLine, Leave
<1>2. /\ Edited(read') = Typed(edit, "enter") /\ Edited(read') \in Edit
      /\ edit.line = userInputBuffer /\ edit.lines \in Seq(Line) /\ outbox \in Seq(Line)
      /\ IsPrefix(outbox, edit.lines)
      /\ wire = "open" => outbox = edit.lines
      /\ wire' = wire
      /\ \A k \in DOMAIN outbox : FirstToken(outbox[k].text) # LeaveWord
  BY <1>1, KeyIsEdited
<1> HIDE DEF edit
<1>3. "enter" \notin Char
  BY ClientAssumption
<1> DEFINE next == Edited(read')
<1>4. next.line = <<>> /\ next.lines = Append(edit.lines, new) /\ next \in Edit
  <2>1. next = [line |-> <<>>, lines |-> Append(edit.lines, new)]
    BY <1>1, <1>2, <1>3 DEF Typed
  <2> QED BY <1>2, <2>1
<1> SUFFICES /\ IsPrefix(outbox', next.lines)
             /\ wire' = "open" /\ phase' # "left" => outbox' = next.lines
             /\ phase' # "left" => userInputBuffer' = <<>>
             /\ \A k \in DOMAIN outbox' : FirstToken(outbox'[k].text) # LeaveWord
  <2>1. Edited(read') = next
    OBVIOUS
  <2> HIDE DEF next
  <2> QED BY <1>4, <2>1 DEF LinesInv, LinesArriveAsTyped
<1> HIDE DEF next
<1>5. new \in Line /\ new.text = userInputBuffer
  BY DEF Outgoing, Line, LinesInv, ClientTypeOK
<1> HIDE DEF new
<1>6. IsPrefix(outbox, Append(edit.lines, new)) /\ Append(edit.lines, new) \in Seq(Line)
  BY <1>2, <1>5, PrefixOfLonger
<1>7. CASE Leave
  BY <1>2, <1>4, <1>6, <1>7 DEF Leave
<1>8. CASE SendLine /\ wire # "open"
  BY <1>2, <1>4, <1>6, <1>8 DEF SendLine
<1>9. CASE SendLine /\ wire = "open"
  <2>1. outbox' = Append(edit.lines, new) /\ outbox = edit.lines /\ outbox' = Append(outbox, new)
    BY <1>2, <1>9 DEF SendLine, new
  <2>2. IsPrefix(outbox', Append(edit.lines, new))
    BY <1>6, <2>1, PrefixOfItself
  <2>3. \A k \in DOMAIN outbox' : FirstToken(outbox'[k].text) # LeaveWord
    <3>1. /\ DOMAIN outbox' = DOMAIN outbox \cup {Len(outbox) + 1}
          /\ outbox'[Len(outbox) + 1] = new
          /\ \A k \in DOMAIN outbox : outbox'[k] = outbox[k]
      BY <1>2, <1>5, <2>1, AppendShown
    <3> QED BY <1>2, <1>5, <1>9, <3>1 DEF SendLine
  <2> QED BY <1>2, <1>4, <1>9, <2>1, <2>2, <2>3 DEF SendLine
<1> QED BY <1>7, <1>8, <1>9

(* Nothing else touches the lines, and a connection never opens again. *)
LEMMA OthersKeepLines ==
  ASSUME LinesInv, ClientTypeOK',
         UNCHANGED <<userInputBuffer, read, outbox>>, wire' = "open" => wire = "open",
         phase = "left" => phase' = "left"
  PROVE  LinesInv'
BY DEF LinesInv, LinesArriveAsTyped

LEMMA LinesGoOn == ASSUME LinesInv, ClientTypeOK', [Next]_vars PROVE LinesInv'
<1>1. CASE TypeChar \/ Backspace \/ IgnoreKey
  BY <1>1, TypingKeepsLines
<1>2. CASE SendLine \/ Leave
  BY <1>2, EnteringKeepsLines
<1>3. CASE NoKey \/ SelectTimeout \/ Receive \/ ReceiveRest \/ ReceiveEnd \/ ReceiveError
  BY <1>3, OthersKeepLines
     DEF NoKey, SelectTimeout, Receive, ReceiveRest, ReceiveEnd, ReceiveError, KeyboardUnchanged, netVars
<1>4. CASE Press \/ ServerSays \/ Deliver \/ ServerFault
  BY <1>4, OthersKeepLines DEF Press, ServerSays, Deliver, ServerFault, loopVars, netVars
<1>5. CASE UNCHANGED vars
  BY <1>5, OthersKeepLines DEF vars, loopVars, netVars
<1> QED BY <1>1, <1>2, <1>3, <1>4, <1>5 DEF Next, Thread, Stopped

LEMMA LinesStart == ASSUME Init PROVE LinesInv
<1>1. ClientTypeOK
  BY ClientStarts DEF ClientInv
<1>2. /\ Edited(read) = NothingTyped /\ outbox = <<>> /\ userInputBuffer = <<>>
  BY NothingTypedYet DEF Init
<1>3. << >> \in Seq(Char) /\ << >> \in Seq(Line)
  OBVIOUS
<1>4. NothingTyped \in Edit /\ NothingTyped.line = <<>> /\ NothingTyped.lines = <<>>
  BY <1>3 DEF NothingTyped, Edit
<1>5. IsPrefix(<<>>, <<>>)
  BY <1>3, PrefixOfItself
<1> QED BY <1>1, <1>2, <1>4, <1>5 DEF LinesInv, LinesArriveAsTyped

(* However the keys and the texts of the others come between each other,   *)
(* and however long the user types: the server gets every line as the keys *)
(* say while the connection is open, a prefix of them when it is not, and  *)
(* no line that says to leave.                                             *)
THEOREM LinesComeAsTyped == Spec => []LinesArriveAsTyped
<1>1. Init => LinesInv
  BY LinesStart
<1>2. LinesInv /\ ClientTypeOK' /\ [Next]_vars => LinesInv'
  BY LinesGoOn
<1>3. LinesInv => LinesArriveAsTyped
  BY DEF LinesInv
<1> QED BY <1>1, <1>2, <1>3, ClientIsTyped, PTL DEF Spec
=============================================================================
