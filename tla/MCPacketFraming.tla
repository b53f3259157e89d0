-------------------------- MODULE MCPacketFraming --------------------------
(* PacketFraming for TLC, with texts of one repeated byte.                 *)
EXTENDS PacketFraming

Text(type, length) == [type |-> type, text |-> [k \in 1 .. length |-> 97]]

(* With a buffer of 24: two of the first fit together, the second fills    *)
(* it, the third is longer, the fourth fills what both recv() calls take,  *)
(* the last is too long.                                                   *)
Texts == {Text(1, 1), Text(2, 14), Text(1, 20), Text(1, 38), Text(2, 39)}
=============================================================================
