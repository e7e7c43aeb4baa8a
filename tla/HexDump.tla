------------------------------ MODULE HexDump ------------------------------
(***************************************************************************)
(* utils::AmqpDump() of examples/rabbitmq/common/utils/utils.cpp: the hex  *)
(* dump that the consumer prints of a message, as lines of an offset and   *)
(* bytes.  A body is a sequence of bytes.                                  *)
(***************************************************************************)
EXTENDS Integers, Sequences, FiniteSets

RowLen == 16

\* The line of dots that stands for rows left out.
Dots == [offset |-> -1, bytes |-> <<>>]

\* Row k of a body, and the number of rows; the last one may be short.
Row(body, k)  == SubSeq(body, RowLen * (k - 1) + 1,
                        IF RowLen * k <= Len(body) THEN RowLen * k ELSE Len(body))
Rows(body)    == (Len(body) + RowLen - 1) \div RowLen

\* What oldchs holds when row k is complete.  memccpy(oldchs, chs, 16, sizeof(int))
\* copies one int of sixteen, so the other columns keep their zeros.
oldchs(body, k) ==
  [c \in 1..RowLen |-> IF k > 1 /\ c = 1 THEN Row(body, k - 1)[1] ELSE 0]

\* Mistake: the comparison looks at the first column only.
RowsEqFirst(a, b) == a[1] = b[1]

RowsEq(a, b) == \A c \in 1..RowLen : a[c] = b[c]

\* A full row is compared when the byte after it arrives: the last row never is.
LeftOut(body, k) == k < Rows(body) /\ RowsEq(oldchs(body, k), Row(body, k))

DumpRow(body, k) == [offset |-> RowLen * (k - 1), bytes |-> Row(body, k)]

\* The rows at which a line is printed: one that is shown, or the first of those
\* left out (showed_dots).  An empty body prints the line of its offset.
Printed(body) ==
  IF body = <<>> THEN {1}
  ELSE {k \in 1..Rows(body) : LeftOut(body, k) => k = 1 \/ ~LeftOut(body, k - 1)}

\* The lines in the order of these rows, and the length at the end, which an empty
\* body does not get.
AmqpDump(body) ==
  [lines |-> [k \in Printed(body) |-> IF LeftOut(body, k) THEN Dots ELSE DumpRow(body, k)],
   total |-> IF body = <<>> THEN {} ELSE {Len(body)}]

-----------------------------------------------------------------------------
\* A body without NULs.
Text(body) == \A c \in DOMAIN body : body[c] # 0

\* What a reader can take from a dump: lines in the order of their offsets and
\* the length, with the bytes of the body where they belong.  A row may be missing
\* only if it repeats the row before it and a line of dots stands in its place,
\* after the rows before it and before those after it.
Readable(dump, body) ==
  LET at(k)      == {j \in DOMAIN dump.lines : dump.lines[j].offset = RowLen * (k - 1)}
      shown      == {j \in DOMAIN dump.lines : dump.lines[j] # Dots}
      repeats(k) == k > 1 /\ Row(body, k) = Row(body, k - 1)
      place(k)   == {j \in DOMAIN dump.lines \ shown :
                       \A l \in shown : (l < j) <=> (dump.lines[l].offset < RowLen * (k - 1))}
  IN /\ \A k \in 1..Rows(body) :
          \/ \E j \in at(k) : at(k) = {j} /\ dump.lines[j].bytes = Row(body, k)
          \/ at(k) = {} /\ repeats(k) /\ place(k) # {}
     /\ \A i, j \in shown : i < j => dump.lines[i].offset < dump.lines[j].offset
     /\ body # <<>> => dump.total = {Len(body)}
=============================================================================
