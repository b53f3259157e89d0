------------------------- MODULE MCSessionRegistry -------------------------
(* SessionRegistry for TLC: three sockets and two rooms let a vector have  *)
(* a first, a middle and a last member, and a user two rooms.              *)
EXTENDS SessionRegistry

Symmetry == Permutations(Room)
=============================================================================
