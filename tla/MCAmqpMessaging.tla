-------------------------- MODULE MCAmqpMessaging --------------------------
(***************************************************************************)
(* An instance of AmqpMessaging for TLC.                                   *)
(***************************************************************************)
EXTENDS AmqpMessaging

Letters(n) == [c \in 1..n |-> 65 + (c % 26)]

\* A text that ends in the number of the message.
Numbered == [n \in 1..Count |-> Letters(12) \o <<48 + n>>]

\* No byte, part of a row, a full row, rows that repeat, a row that only begins
\* like the one before it, and rows of NULs.
BodiesUsed ==
  {<<>>, Letters(1), Letters(16), Letters(33), Letters(16) \o Letters(16) \o Letters(1),
   Letters(16) \o Letters(1) \o Letters(16), [c \in 1..33 |-> 0]}
=============================================================================
