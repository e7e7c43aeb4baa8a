-------------------------- MODULE MCNumberSummation --------------------------
(***************************************************************************)
(* Instances of NumberSummation for TLC.                                   *)
(***************************************************************************)
EXTENDS NumberSummation

CONSTANTS clientC, clientCXX

\* Two pairs of numbers.  Their sums differ from each other, so that a sum of
\* another client or of an earlier request is seen, and from the initial results.
TwoPairs == {<<1, 2>>, <<3, 4>>}
=============================================================================
