----------------------------- MODULE MCResolver -----------------------------
(***************************************************************************)
(* Instances of Resolver for TLC.                                          *)
(***************************************************************************)
EXTENDS Resolver

CONSTANTS r1, r2, r3, r4
=============================================================================
