---------------------------- MODULE MCMbimClient ----------------------------
(***************************************************************************)
(* An instance of MbimClient for TLC with the limits of the code.          *)
(***************************************************************************)
EXTENDS MbimClient

\* Numbers of an even and an odd number of digits, with and without plus, as
\* long as possible, too long, empty and malformed.
Numbers == {<<Plus, 7, 9, 0, 1, 2, 3, 4, 5, 6, 7, 8>>, <<1, 2>>, <<5>>, <<>>, <<Plus>>,
            <<9, 8, 7, 6, 5, 4, 3, 2, 1, 0, 1, 2>>,
            <<9, 8, 7, 6, 5, 4, 3, 2, 1, 0, 1, 2, 3>>, <<1, Other, 3>>}

\* Short texts, texts around the length where the packing comes round, and the
\* longest one and one more.
Short == UNION {[1..k -> {1, 65, 127}] : k \in 0..2}
Texts == Short \cup {[c \in 1..k |-> 1 + ((37 * c) % 127)] : k \in {7, 8, 9, 16, 160, 161}}

\* All numbers with one text, one number with all texts, and a service centre,
\* which AsciiToPDU() supports although main() names none.
MessagesUsed ==
  {[smsc |-> NULL, dest |-> d, text |-> <<72, 105>>] : d \in Numbers}
  \cup {[smsc |-> NULL, dest |-> <<Plus, 7, 9, 0>>, text |-> t] : t \in Texts}
  \cup {[smsc |-> s, dest |-> <<1, 2, 3>>, text |-> <<72>>] : s \in Numbers}
=============================================================================
