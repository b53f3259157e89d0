------------------------ MODULE PacketFramingClaims ------------------------
(***************************************************************************)
(* What a comment of the receivers says and their code does not keep.  The *)
(* property here is refuted by TLC, with the numbers of the code: the      *)
(* fifth welcome mat of welcomemats.txt has 859 characters and makes a     *)
(* greeting of 1028 bytes, four more than two recv() calls take.           *)
(***************************************************************************)
EXTENDS PacketFraming

(* The greeting ends with four newlines; what comes before is of no matter. *)
Greeting ==
    [type |-> 1, text |-> [k \in 1 .. 1018 |-> IF k > 1014 THEN 10 ELSE 46]]

Greetings == {Greeting}

(* "We must receive the entire packet before we can handle the message"    *)
(* (main_server_select.cpp, line 353, and its two copies): what is handled *)
(* is what was sent.                                                       *)
HandledIsEntire == \A k \in DOMAIN handled : handled[k] \in ToSet(sent)
=============================================================================
