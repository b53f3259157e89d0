---------------------------- MODULE PacketQueue ----------------------------
(***************************************************************************)
(* What the programs of NET1 rely on when they receive: packets are        *)
(* handled whole and in the order they were sent, and a recv() that finds  *)
(* several of them handles the first and loses the others.  This is how    *)
(* ChatServer, AuthServer and Client see a connection; PacketFraming, the  *)
(* bytes below it, implements it as long as the bytes come orderly.        *)
(***************************************************************************)
EXTENDS Naturals, Sequences

CONSTANTS
    Message,
    MaxCoalesce   \* how many packets one recv() may take

VARIABLES
    sent,      \* history: the packets sent
    handled,   \* history: the packets handled
    gone,      \* how many of those sent have been read
    orderly    \* whether the bytes have come orderly so far

Send ==
    /\ \E m \in Message : sent' = Append(sent, m)
    /\ UNCHANGED <<handled, gone>>

Handle ==
    /\ \E k \in 1 .. MaxCoalesce : gone' = gone + k /\ gone' <= Len(sent)
    /\ handled' = Append(handled, sent[gone + 1])
    /\ UNCHANGED sent

QueueInit == sent = <<>> /\ handled = <<>> /\ gone = 0 /\ orderly = TRUE

(* Nothing is promised of a stream that is no longer orderly. *)
QueueNext == ~orderly' \/ Send \/ Handle

QueueSpec == QueueInit /\ [][QueueNext]_<<sent, handled, gone, orderly>>
=============================================================================
