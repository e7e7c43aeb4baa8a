---------------------------- MODULE MCNameLookup ----------------------------
(***************************************************************************)
(* Instances of NameLookup for TLC: two clients.                           *)
(***************************************************************************)
EXTENDS NameLookup

CONSTANTS c1, c2, r1, r2

\* Each client asks for one name.
OneAndOne == [c \in Clients |-> IF c = c1 THEN <<r1>> ELSE <<r2>>]
=============================================================================
