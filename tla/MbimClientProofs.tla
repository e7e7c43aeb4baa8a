-------------------------- MODULE MbimClientProofs --------------------------
(***************************************************************************)
(* Proofs about MbimClient, for every timeout, number of attempts and      *)
(* message: what the programs do is what modem and Ntpd allow, and what    *)
(* mbim_sms sends reads as what it was asked to send.                      *)
(***************************************************************************)
EXTENDS MbimClient, SequenceTheorems, TLAPS

\* The inductive invariant holds when either program starts.
LEMMA InitIInv == Init => IInv
  BY DEF Init, IInv, TypeOK, StageInv, ClockInv, PassedMeansSynced, OnlyWhenRegistered, Ended

\* Modem, network and Ntpd keep the invariant, whenever they act.
LEMMA WorldKeeps ==
  ASSUME IInv, ModemChanges \/ NtpSync
  PROVE  IInv'
<1> USE DEF IInv, TypeOK, StageInv, ClockInv, PassedMeansSynced, OnlyWhenRegistered, Ended,
            world, time
<1>1. CASE ModemChanges
  BY <1>1 DEF ModemChanges
<1>2. CASE NtpSync
  BY <1>2 DEF NtpSync
<1> QED
  BY <1>1, <1>2

\* Each step of a program keeps the invariant.
LEMMA ProgramKeeps ==
  ASSUME IInv, Program
  PROVE  IInv'
<1> USE DEF IInv, TypeOK, StageInv, ClockInv, PassedMeansSynced, OnlyWhenRegistered, Ended,
            world, time, Abandon, Proceed, Sleep, Results
<1>1. CASE GetCurrentTimeinfo
  BY <1>1 DEF GetCurrentTimeinfo
<1>2. CASE SetInitialTime
  BY <1>2 DEF SetInitialTime
<1>3. CASE WaitForIface
  BY <1>3 DEF WaitForIface
<1>4. CASE Open
  BY <1>4 DEF Open
<1>s. ASSUME Sleep, UNCHANGED <<program, message, sent, world, route, time>>
      PROVE  IInv'
  BY <1>s
<1>5. CASE WaitSimReady
  <2> USE <1>5 DEF WaitSimReady
  <2>1. pc = "sim" /\ UNCHANGED <<program, message, sent, world, route, time>>
    OBVIOUS
  <2>2. CASE Abandon
    BY <2>1, <2>2
  <2>3. CASE Sleep
    BY <2>1, <2>3, <1>s
  <2>4. CASE Proceed("register", {"sim"})
    BY <2>1, <2>4
  <2>5. CASE program = "sms" /\ Proceed("register", {})
    BY <2>1, <2>5
  <2> QED
    BY <2>2, <2>3, <2>4, <2>5
<1>6. CASE WaitRegistered
  <2>1. pc = "register" /\ UNCHANGED <<program, message, sent, world, route, time>>
    BY <1>6 DEF WaitRegistered
  <2>2. CASE Abandon
    BY <2>1, <2>2
  <2>3. CASE Sleep
    BY <2>1, <2>3, <1>s
  <2>4. CASE Proceed(IF program = "sms" THEN "encode" ELSE "connect", {"registered"})
    BY <2>1, <2>4
  <2> QED
    BY <1>6, <2>2, <2>3, <2>4 DEF WaitRegistered
<1>7. CASE Encode
  BY <1>7 DEF Encode
<1>8. CASE Send
  BY <1>8 DEF Send
<1>9. CASE CloseSms
  BY <1>9 DEF CloseSms
<1>10. CASE MbimConnect
  BY <1>10 DEF MbimConnect
<1>11. CASE SetDefaultGateway
  <2>1. CASE route' = "modem" /\ Proceed("update", {})
    BY <1>11, <2>1 DEF SetDefaultGateway
  <2>2. CASE Abandon /\ UNCHANGED route
    BY <1>11, <2>2 DEF SetDefaultGateway
  <2> QED
    BY <1>11, <2>1, <2>2 DEF SetDefaultGateway
<1>12. CASE WaitTimeUpdate
  <2>1. pc = "update" /\ UNCHANGED <<program, message, sent, world, route, time>>
    BY <1>12 DEF WaitTimeUpdate
  <2>2. CASE Sleep
    BY <2>1, <2>2, <1>s
  <2>3. CASE CloseNtpd("failure")
    BY <2>1, <2>3 DEF CloseNtpd
  <2>4. CASE clock = "after" /\ CloseNtpd("success")
    BY <2>1, <2>4 DEF CloseNtpd
  <2> QED
    BY <1>12, <2>2, <2>3, <2>4 DEF WaitTimeUpdate
<1> QED
  BY <1>1, <1>2, <1>3, <1>4, <1>5, <1>6, <1>7, <1>8, <1>9, <1>10, <1>11, <1>12 DEF Program

\* The inductive invariant holds in every state.
THEOREM Invariance == Spec => []IInv
<1>1. IInv /\ [Next]_vars => IInv'
  <2> SUFFICES ASSUME IInv, [Next]_vars PROVE IInv'
    OBVIOUS
  <2>1. CASE UNCHANGED vars
    BY <2>1 DEF vars, world, time, IInv, TypeOK, StageInv, ClockInv, PassedMeansSynced,
                OnlyWhenRegistered, Ended
  <2>2. CASE Next
    BY <2>1, <2>2, WorldKeeps, ProgramKeeps DEF Next
  <2> QED
    BY <2>1, <2>2
<1> QED
  BY InitIInv, <1>1, PTL DEF Spec

\* Type correctness of the two programs.
THEOREM TypeCorrect == Spec => []TypeOK
<1>1. IInv => TypeOK
  BY DEF IInv
<1> QED
  BY Invariance, <1>1, PTL

\* mbim_ntpd reports success only if Ntpd has put the clock right since the
\* program set it back, and the modem's default route is in place.
THEOREM Passed == Spec => []PassedMeansSynced
<1>1. IInv => PassedMeansSynced
  BY DEF IInv
<1> QED
  BY Invariance, <1>1, PTL

\* No message and no route without a registration the modem has reported.
THEOREM Registered == Spec => []OnlyWhenRegistered
<1>1. IInv => OnlyWhenRegistered
  BY DEF IInv
<1> QED
  BY Invariance, <1>1, PTL

-----------------------------------------------------------------------------
(***************************************************************************)
(* The PDU, for every message that AsciiToPDU() does not refuse.           *)
(***************************************************************************)
\* A function on the first numbers is a sequence.
LEMMA SeqOf ==
  ASSUME NEW S, NEW m \in Nat, NEW f \in [1..m -> S]
  PROVE  f \in Seq(S) /\ Len(f) = m
  OBVIOUS

\* The bits of an octet that was put together from bits.
LEMMA BitOfNumber ==
  ASSUME NEW bits \in [0..7 -> {0, 1}]
  PROVE  \A j \in 0..7 : Bit(Number(bits), j) = bits[j]
<1> DEFINE x == Number(bits)
<1>1. /\ bits[0] \in {0, 1} /\ bits[1] \in {0, 1} /\ bits[2] \in {0, 1} /\ bits[3] \in {0, 1}
      /\ bits[4] \in {0, 1} /\ bits[5] \in {0, 1} /\ bits[6] \in {0, 1} /\ bits[7] \in {0, 1}
  OBVIOUS
<1>2. x = bits[0] + 2 * bits[1] + 4 * bits[2] + 8 * bits[3]
                + 16 * bits[4] + 32 * bits[5] + 64 * bits[6] + 128 * bits[7]
  BY DEF Number
<1> HIDE DEF x
<1>3. /\ (x \div 1) % 2 = bits[0] /\ (x \div 2) % 2 = bits[1]
      /\ (x \div 4) % 2 = bits[2] /\ (x \div 8) % 2 = bits[3]
      /\ (x \div 16) % 2 = bits[4] /\ (x \div 32) % 2 = bits[5]
      /\ (x \div 64) % 2 = bits[6] /\ (x \div 128) % 2 = bits[7]
  <2> DEFINE a == bits[0]  b == bits[1]  c == bits[2]  d == bits[3]
             e == bits[4]  f == bits[5]  g == bits[6]  h == bits[7]
  <2>1. /\ a \in {0, 1} /\ b \in {0, 1} /\ c \in {0, 1} /\ d \in {0, 1}
        /\ e \in {0, 1} /\ f \in {0, 1} /\ g \in {0, 1} /\ h \in {0, 1}
        /\ x = a + 2 * b + 4 * c + 8 * d + 16 * e + 32 * f + 64 * g + 128 * h
    BY <1>1, <1>2
  <2> HIDE DEF a, b, c, d, e, f, g, h
  <2>2. /\ x \div 1 = a + 2 * (b + 2 * c + 4 * d + 8 * e + 16 * f + 32 * g + 64 * h)
        /\ x \div 2 = b + 2 * (c + 2 * d + 4 * e + 8 * f + 16 * g + 32 * h)
        /\ x \div 4 = c + 2 * (d + 2 * e + 4 * f + 8 * g + 16 * h)
        /\ x \div 8 = d + 2 * (e + 2 * f + 4 * g + 8 * h)
    BY <2>1
  <2>3. /\ x \div 16 = e + 2 * (f + 2 * g + 4 * h)
        /\ x \div 32 = f + 2 * (g + 2 * h)
        /\ x \div 64 = g + 2 * h
        /\ x \div 128 = h
    BY <2>1
  <2>4. /\ (x \div 1) % 2 = a /\ (x \div 2) % 2 = b
        /\ (x \div 4) % 2 = c /\ (x \div 8) % 2 = d
    BY <2>1, <2>2
  <2>5. /\ (x \div 16) % 2 = e /\ (x \div 32) % 2 = f
        /\ (x \div 64) % 2 = g /\ (x \div 128) % 2 = h
    BY <2>1, <2>3
  <2> QED BY <2>4, <2>5 DEF a, b, c, d, e, f, g, h
<1>4. /\ Pow2[1] = 1 /\ Pow2[2] = 2 /\ Pow2[3] = 4 /\ Pow2[4] = 8 
      /\ Pow2[5] = 16 /\ Pow2[6] = 32 /\ Pow2[7] = 64 /\ Pow2[8] = 128
  BY DEF Pow2
<1>5. \A j \in 0..7 : j \in {0, 1, 2, 3, 4, 5, 6, 7}
  OBVIOUS
<1> QED BY <1>3, <1>4, <1>5 DEF Bit, x

\* Eight bits make a number.
LEMMA NumberType ==
  ASSUME NEW bits \in [0..7 -> {0, 1}]
  PROVE  Number(bits) \in Int
<1>1. /\ bits[0] \in {0, 1} /\ bits[1] \in {0, 1} /\ bits[2] \in {0, 1} /\ bits[3] \in {0, 1}
      /\ bits[4] \in {0, 1} /\ bits[5] \in {0, 1} /\ bits[6] \in {0, 1} /\ bits[7] \in {0, 1}
  OBVIOUS
<1> QED BY <1>1 DEF Number

\* A bit is zero or one.
LEMMA BitType == \A v \in Nat : \A j \in 0..7 : Bit(v, j) \in {0, 1}
<1>1. \A j \in 0..7 : Pow2[j + 1] \in {1, 2, 4, 8, 16, 32, 64, 128}
  BY DEF Pow2
<1>2. \A v \in Nat : \A p \in {1, 2, 4, 8, 16, 32, 64, 128} : (v \div p) % 2 \in {0, 1}
  OBVIOUS
<1> QED BY <1>1, <1>2 DEF Bit

\* A character is the number that its seven bits make.
LEMMA NumberOfBits ==
  ASSUME NEW v \in 0..127
  PROVE  Number([j \in 0..7 |-> IF j = 7 THEN 0 ELSE Bit(v, j)]) = v
<1> DEFINE bits == [j \in 0..7 |-> IF j = 7 THEN 0 ELSE Bit(v, j)]
<1>1. /\ Pow2[1] = 1 /\ Pow2[2] = 2 /\ Pow2[3] = 4 /\ Pow2[4] = 8 
      /\ Pow2[5] = 16 /\ Pow2[6] = 32 /\ Pow2[7] = 64 /\ Pow2[8] = 128
  BY DEF Pow2
<1>2. /\ bits[0] = (v \div 1) % 2 /\ bits[1] = (v \div 2) % 2
      /\ bits[2] = (v \div 4) % 2 /\ bits[3] = (v \div 8) % 2
      /\ bits[4] = (v \div 16) % 2 /\ bits[5] = (v \div 32) % 2
      /\ bits[6] = (v \div 64) % 2 /\ bits[7] = 0
  <2>1. /\ Bit(v, 0) = (v \div 1) % 2 /\ Bit(v, 1) = (v \div 2) % 2
        /\ Bit(v, 2) = (v \div 4) % 2 /\ Bit(v, 3) = (v \div 8) % 2
        /\ Bit(v, 4) = (v \div 16) % 2 /\ Bit(v, 5) = (v \div 32) % 2
        /\ Bit(v, 6) = (v \div 64) % 2
    BY <1>1, 0 + 1 = 1, 1 + 1 = 2, 2 + 1 = 3, 3 + 1 = 4, 4 + 1 = 5, 5 + 1 = 6, 6 + 1 = 7,
       Zenon DEF Bit
  <2>2. \A j \in 0..7 : bits[j] = IF j = 7 THEN 0 ELSE Bit(v, j)
    OBVIOUS
  <2> QED BY <2>1, <2>2
<1> HIDE DEF bits
<1>3. v = ((v \div 1) % 2) + 2 * ((v \div 2) % 2) + 4 * ((v \div 4) % 2) + 8 * ((v \div 8) % 2)
          + 16 * ((v \div 16) % 2) + 32 * ((v \div 32) % 2) + 64 * ((v \div 64) % 2) + 128 * 0
  OBVIOUS
<1> QED BY <1>2, <1>3 DEF Number, bits

\* The bits of a text are bits, beyond its end too.
LEMMA TextBits ==
  ASSUME NEW text \in Seq(Septet)
  PROVE  \A b \in Nat : BitOf(text, b) \in {0, 1}
<1> DEFINE n == Len(text)
<1>1. n \in Nat /\ \A c \in 1..n : text[c] \in 0..127
  BY ElementOfSeq, LenProperties DEF Septet
<1> TAKE b \in Nat
<1>2. CASE b < n * 7
  <2>1. b \div 7 + 1 \in 1..n /\ b % 7 \in 0..7
    BY <1>1, <1>2
  <2> DEFINE c == b \div 7 + 1
  <2> HIDE DEF c
  <2>2. c \in 1..n
    BY <2>1 DEF c
  <2>3. text[c] \in 0..127
    BY <1>1, <2>2
  <2>4. text[c] \in Nat
    <3>1. 0..127 \subseteq Nat
      OBVIOUS
    <3> QED BY <2>3, <3>1, Zenon
  <2> QED BY <1>2, <2>1, <2>4, BitType DEF BitOf, c
<1>3. CASE ~(b < n * 7)
  BY <1>3 DEF BitOf
<1> QED BY <1>2, <1>3

\* Unpacking undoes packing.
LEMMA UnpackPack ==
  ASSUME NEW text \in Seq(Septet)
  PROVE  Septets(PackText(text), Len(text)) = text
<1> DEFINE n == Len(text)
           P == PackText(text)
<1>1. n \in Nat /\ \A c \in 1..n : text[c] \in 0..127
  BY ElementOfSeq, LenProperties DEF Septet
<1>2. \A b \in Nat : BitOf(text, b) \in {0, 1}
  BY TextBits
<1>3. \A k \in 1..TextBytes(text) : \A j \in 0..7 :
        Bit(P[k], j) = BitOf(text, 8 * (k - 1) + j)
  <2> TAKE k \in 1..TextBytes(text)
  <2> DEFINE bits == [j \in 0..7 |-> BitOf(text, 8 * (k - 1) + j)]
  <2>0. k \in Nat \ {0}
    BY DEF TextBytes
  <2>1. \A j \in 0..7 : 8 * (k - 1) + j \in Nat
    BY <2>0
  <2>2. bits \in [0..7 -> {0, 1}]
    BY <1>2, <2>1
  <2>3. P[k] = Number(bits)
    BY DEF PackText
  <2>4. \A j \in 0..7 : bits[j] = BitOf(text, 8 * (k - 1) + j)
    OBVIOUS
  <2> HIDE DEF bits
  <2> QED BY <2>2, <2>3, <2>4, BitOfNumber
<1>4. ASSUME NEW c \in 1..n, NEW j \in 0..6
      PROVE  LET b == 7 * (c - 1) + j
             IN  Bit(P[b \div 8 + 1], b % 8) = Bit(text[c], j)
  <2> DEFINE b == 7 * (c - 1) + j
  <2>1. b \in Nat /\ b < n * 7
    BY <1>1
  <2>2. b \div 7 + 1 = c /\ b % 7 = j
    <3>1. \A x \in Nat, y \in 0..6 : (7 * x + y) \div 7 = x /\ (7 * x + y) % 7 = y
      OBVIOUS
    <3>2. c - 1 \in Nat /\ c = (c - 1) + 1
      BY <1>1
    <3> QED BY <3>1, <3>2
  <2> HIDE DEF b
  <2> DEFINE k == b \div 8 + 1
             r == b % 8
  <2>3. k \in 1..TextBytes(text) /\ r \in 0..7
    BY <1>1, <2>1 DEF TextBytes
  <2>4. 8 * (k - 1) + r = b
    <3>1. b \div 8 \in Nat /\ r \in Nat
      BY <2>1
    <3>2. k - 1 = b \div 8
      BY <3>1
    <3>3. 8 * (b \div 8) + (b % 8) = b
      BY <2>1
    <3> QED BY <3>2, <3>3
  <2> HIDE DEF k, r
  <2>5. Bit(P[k], r) = BitOf(text, b)
    BY <1>3, <2>3, <2>4
  <2>6. BitOf(text, b) = Bit(text[c], j)
    BY <2>1, <2>2 DEF BitOf
  <2> QED BY <2>5, <2>6 DEF b, k, r
<1>5. ASSUME NEW c \in 1..n
      PROVE  Septets(P, n)[c] = text[c]
  <2> DEFINE got  == [j \in 0..7 |-> LET b == 7 * (c - 1) + j
                                     IN  IF j = 7 THEN 0 ELSE Bit(P[b \div 8 + 1], b % 8)]
             want == [j \in 0..7 |-> IF j = 7 THEN 0 ELSE Bit(text[c], j)]
  <2>1. Septets(P, n)[c] = Number(got)
    BY DEF Septets
  <2>2. \A j \in 0..7 : j = 7 \/ j \in 0..6
    OBVIOUS
  <2>3. \A j \in 0..7 : (IF j = 7 THEN 0 ELSE LET b == 7 * (c - 1) + j IN Bit(P[b \div 8 + 1], b % 8))
                        = (IF j = 7 THEN 0 ELSE Bit(text[c], j))
    BY <1>4, <2>2
  <2>4. got = want
    BY <2>3
  <2>5. Number(want) = text[c]
    BY <1>1, NumberOfBits
  <2> QED BY <2>1, <2>4, <2>5
<1>6. Septets(P, n) = [c \in 1..n |-> Septets(P, n)[c]]
  BY DEF Septets
<1>7. text = [c \in 1..n |-> text[c]]
  OBVIOUS
<1> HIDE DEF P
<1>8. [c \in 1..n |-> Septets(P, n)[c]] = [c \in 1..n |-> text[c]]
  BY <1>5
<1> QED BY <1>6, <1>7, <1>8 DEF P

\* A text takes as many octets as its bits need.
LEMMA PackedText ==
  ASSUME NEW text \in Seq(Septet)
  PROVE  PackText(text) \in Seq(Int) /\ Len(PackText(text)) = TextBytes(text)
<1> DEFINE n == Len(text)
           m == TextBytes(text)
           P == PackText(text)
<1>1. n \in Nat
  BY LenProperties
<1>2. m \in Nat
  <2>1. \A x \in Nat : (x * 7 + 7) \div 8 \in Nat
    OBVIOUS
  <2> QED BY <1>1, <2>1, Zenon DEF TextBytes
<1>3. ASSUME NEW k \in 1..m
      PROVE  P[k] \in Int
  <2> DEFINE bits == [j \in 0..7 |-> BitOf(text, 8 * (k - 1) + j)]
  <2>1. \A j \in 0..7 : 8 * (k - 1) + j \in Nat
    <3> HIDE DEF m
    <3> QED BY <1>2
  <2>2. bits \in [0..7 -> {0, 1}]
    BY <2>1, TextBits
  <2>3. P[k] = Number(bits)
    BY DEF PackText
  <2> HIDE DEF bits, P
  <2>4. Number(bits) \in Int
    BY <2>2, NumberType, Zenon
  <2> QED BY <2>3, <2>4
<1>4. P = [k \in 1..m |-> P[k]]
  BY DEF PackText
<1> HIDE DEF P, m
<1>5. P \in [1..m -> Int]
  BY <1>3, <1>4
<1>6. P \in Seq(Int) /\ Len(P) = m
  BY <1>2, <1>5, SeqOf, Zenon
<1> QED BY <1>6, Zenon DEF P, m

\* What follows the first of two parts of a PDU.
LEMMA FromSecond ==
  ASSUME NEW a \in Seq(Int), NEW b \in Seq(Int), NEW k, k = Len(a) + 1
  PROVE  From(a \o b, k) = b
<1>1. /\ Len(a) \in Nat /\ Len(b) \in Nat /\ Len(a \o b) = Len(a) + Len(b)
      /\ \A i \in 1..(Len(a) + Len(b)) :
           (a \o b)[i] = IF i <= Len(a) THEN a[i] ELSE b[i - Len(a)]
  BY ConcatProperties, LenProperties
<1> DEFINE c == a \o b
           s == SubSeq(c, Len(a) + 1, Len(a) + Len(b))
<1>2. ASSUME NEW i \in (Len(a) + 1)..(Len(a) + Len(b))
      PROVE  c[i] \in Int
  <2>1. i - Len(a) \in 1..Len(b) /\ i \in 1..(Len(a) + Len(b)) /\ ~(i <= Len(a))
    BY <1>1
  <2>2. b[i - Len(a)] \in Int
    BY <2>1, ElementOfSeq
  <2> QED BY <1>1, <2>1, <2>2
<1>3. Len(a) + 1 \in Int /\ Len(a) + Len(b) \in Int
  BY <1>1
<1> HIDE DEF c
<1>4. /\ s \in Seq(Int)
      /\ Len(s) = IF Len(a) + 1 <= Len(a) + Len(b) THEN Len(a) + Len(b) - (Len(a) + 1) + 1 ELSE 0
      /\ \A i \in 1..(Len(a) + Len(b) - (Len(a) + 1) + 1) : s[i] = c[Len(a) + 1 + i - 1]
  BY <1>2, <1>3, SubSeqProperties
<1>5. Len(s) = Len(b)
  BY <1>1, <1>4
<1>6. \A i \in 1..Len(b) : s[i] = b[i]
  <2> TAKE i \in 1..Len(b)
  <2>1. i \in 1..(Len(a) + Len(b) - (Len(a) + 1) + 1) /\ Len(a) + 1 + i - 1 = Len(a) + i
    BY <1>1
  <2>2. Len(a) + i \in 1..(Len(a) + Len(b)) /\ ~(Len(a) + i <= Len(a)) /\ (Len(a) + i) - Len(a) = i
    BY <1>1
  <2>3. c[Len(a) + i] = b[i]
    BY <1>1, <2>2 DEF c
  <2> QED BY <1>4, <2>1, <2>3
<1>7. s = b
  BY <1>4, <1>5, <1>6, SeqEqual
<1> QED BY <1>1, <1>7 DEF From, c

\* The octets of a number: their count, and the digits that are read from them.
LEMMA Nibbles ==
  ASSUME NEW data \in Seq(Digit)
  PROVE  /\ NumberToNibbles(data) \in Seq(Int)
         /\ Len(NumberToNibbles(data)) = (Len(data) + 1) \div 2
         /\ \A rest \in Seq(Int) : Digits(NumberToNibbles(data) \o rest, Len(data)) = data
<1> DEFINE n == Len(data)
           m == (n + 1) \div 2
           N == NumberToNibbles(data)
<1>1. n \in Nat /\ \A k \in 1..n : data[k] \in 0..9
  BY ElementOfSeq, LenProperties DEF Digit
<1>2. m \in Nat
  BY <1>1
<1>3. ASSUME NEW k \in 1..m
      PROVE  /\ N[k] \in Int /\ 2 * k - 1 \in 1..n /\ N[k] % 16 = data[2 * k - 1]
             /\ 2 * k <= n => N[k] \div 16 = data[2 * k]
  <2> DEFINE lo == data[2 * k - 1]
             hi == IF 2 * k <= n THEN data[2 * k] ELSE 15
  <2>1. N[k] = lo + 16 * hi
    BY DEF NumberToNibbles
  <2>2. 2 * k - 1 \in 1..n /\ (2 * k <= n => 2 * k \in 1..n)
    BY <1>1
  <2>3. lo \in 0..9 /\ hi \in 0..15
    <3> HIDE DEF m
    <3>1. lo \in 0..9
      BY <1>1, <2>2
    <3>2. CASE 2 * k <= n
      BY <1>1, <2>2, <3>2
    <3>3. CASE ~(2 * k <= n)
      BY <3>1, <3>3
    <3> QED BY <3>1, <3>2, <3>3
  <2>4. 2 * k <= n => hi = data[2 * k]
    OBVIOUS
  <2> HIDE DEF lo, hi, N
  <2>5. N[k] % 16 = lo /\ N[k] \div 16 = hi /\ N[k] \in Int
    <3>1. \A x \in 0..9, y \in 0..15 :
            (x + 16 * y) % 16 = x /\ (x + 16 * y) \div 16 = y /\ x + 16 * y \in Int
      OBVIOUS
    <3> QED BY <2>1, <2>3, <3>1, Zenon
  <2> QED BY <2>2, <2>4, <2>5 DEF lo
<1>4. N = [k \in 1..m |-> N[k]]
  BY DEF NumberToNibbles
<1>5. N \in Seq(Int) /\ Len(N) = m
  <2> HIDE DEF N, m
  <2>1. N \in [1..m -> Int]
    BY <1>3, <1>4
  <2> QED BY <1>2, <2>1, SeqOf, Zenon
<1>6. ASSUME NEW rest \in Seq(Int), NEW k \in 1..n
      PROVE  Digits(N \o rest, n)[k] = data[k]
  <2> DEFINE i == (k + 1) \div 2
             o == (N \o rest)[i]
  <2>1. i \in 1..m /\ (k % 2 = 1 => 2 * i - 1 = k) /\ (k % 2 # 1 => 2 * i = k)
    <3>1. \A x \in Nat : /\ (x % 2 = 1 => 2 * ((x + 1) \div 2) - 1 = x)
                         /\ (x % 2 # 1 => 2 * ((x + 1) \div 2) = x)
      OBVIOUS
    <3>2. \A x, y \in Nat : x \in 1..y => (x + 1) \div 2 \in 1..((y + 1) \div 2)
      OBVIOUS
    <3> QED BY <1>1, <3>1, <3>2
  <2>2. o = N[i]
    <3> HIDE DEF N, i, m
    <3>1. Len(rest) \in Nat
      BY LenProperties
    <3>2. i \in 1..(Len(N) + Len(rest)) /\ i <= Len(N)
      BY <1>2, <1>5, <2>1, <3>1
    <3> QED BY <1>5, <3>2, ConcatProperties
  <2>3. Digits(N \o rest, n)[k] = IF k % 2 = 1 THEN o % 16 ELSE o \div 16
    BY DEF Digits
  <2> HIDE DEF N, i, o, m
  <2>4. /\ o % 16 = data[2 * i - 1]
        /\ 2 * i <= n => o \div 16 = data[2 * i]
    BY <1>3, <2>1, <2>2
  <2>5. CASE k % 2 = 1
    BY <2>1, <2>3, <2>4, <2>5
  <2>6. CASE k % 2 # 1
    <3>1. 2 * i = k /\ k <= n
      BY <1>1, <2>1, <2>6
    <3>2. 2 * i <= n
      BY <3>1
    <3>3. o \div 16 = data[k]
      BY <2>4, <3>1, <3>2
    <3> QED BY <2>3, <2>6, <3>3
  <2> QED BY <2>5, <2>6
<1>7. data = [k \in 1..n |-> data[k]]
  BY <1>1, LenProperties
<1>8. ASSUME NEW rest \in Seq(Int)
      PROVE  Digits(N \o rest, n) = data
  <2>1. Digits(N \o rest, n) = [k \in 1..n |-> Digits(N \o rest, n)[k]]
    BY DEF Digits
  <2> HIDE DEF N
  <2>2. [k \in 1..n |-> Digits(N \o rest, n)[k]] = [k \in 1..n |-> data[k]]
    BY <1>6
  <2> QED BY <1>7, <2>1, <2>2
<1> HIDE DEF N
<1> QED BY <1>5, <1>8 DEF N

\* Concatenation under a name of its own: its properties are cited, not expanded.
Cat(a, b) == a \o b

\* Two parts of a PDU, one after the other.
LEMMA Joined ==
  ASSUME NEW a \in Seq(Int), NEW b \in Seq(Int)
  PROVE  /\ Cat(a, b) \in Seq(Int) /\ Len(Cat(a, b)) = Len(a) + Len(b)
  BY DEF Cat

\* What follows the first part,
LEMMA Rest ==
  ASSUME NEW a \in Seq(Int), NEW b \in Seq(Int), NEW k, k = Len(a) + 1
  PROVE  From(Cat(a, b), k) = b
  BY FromSecond DEF Cat

\* the octets of the first part
LEMMA InFirst ==
  ASSUME NEW a \in Seq(Int), NEW b \in Seq(Int), NEW i \in 1..Len(a)
  PROVE  Cat(a, b)[i] = a[i]
  BY DEF Cat

\* and those of the second one.
LEMMA InSecond ==
  ASSUME NEW a \in Seq(Int), NEW b \in Seq(Int), NEW i \in 1..Len(b), NEW k, k = Len(a) + i
  PROVE  Cat(a, b)[k] = b[i]
  BY DEF Cat

\* Parts may be grouped in either way.
LEMMA Regrouped ==
  ASSUME NEW a \in Seq(Int), NEW b \in Seq(Int), NEW c \in Seq(Int)
  PROVE  Cat(Cat(a, b), c) = Cat(a, Cat(b, c))
  BY ConcatAssociative DEF Cat

\* Flags and reference of a message, then the head of its destination.
LEMMA Pair ==
  ASSUME NEW F \in Seq(Int), NEW H \in Seq(Int), Len(F) = 2, Len(H) = 2
  PROVE  /\ Len(Cat(F, H)) = 4 /\ Cat(F, H)[1] = F[1]
         /\ Cat(F, H)[3] = H[1] /\ Cat(F, H)[4] = H[2]
<1>1. 1 \in 1..Len(F) /\ 1 \in 1..Len(H) /\ 2 \in 1..Len(H) /\ 3 = Len(F) + 1 /\ 4 = Len(F) + 2
  OBVIOUS
<1>2. Cat(F, H)[1] = F[1]
  BY <1>1, InFirst, Zenon
<1>3. Cat(F, H)[3] = H[1]
  BY <1>1, InSecond, Zenon
<1>4. Cat(F, H)[4] = H[2]
  BY <1>1, InSecond, Zenon
<1>5. Len(Cat(F, H)) = Len(F) + Len(H)
  BY Joined, Zenon
<1> QED BY <1>2, <1>3, <1>4, <1>5

\* PID and DCS, then the number of characters.
LEMMA Triple ==
  ASSUME NEW C \in Seq(Int), NEW U \in Seq(Int), Len(C) = 2, Len(U) = 1
  PROVE  Len(Cat(C, U)) = 3 /\ Cat(C, U)[2] = C[2] /\ Cat(C, U)[3] = U[1]
<1>1. 2 \in 1..Len(C) /\ 1 \in 1..Len(U) /\ 3 = Len(C) + 1
  OBVIOUS
<1>2. Cat(C, U)[2] = C[2]
  BY <1>1, InFirst, Zenon
<1>3. Cat(C, U)[3] = U[1]
  BY <1>1, InSecond, Zenon
<1>4. Len(Cat(C, U)) = Len(C) + Len(U)
  BY Joined, Zenon
<1> QED BY <1>2, <1>3, <1>4

\* The user data and what stands before it.
LEMMA Tail3 ==
  ASSUME NEW a \in Seq(Int), NEW T \in Seq(Int), Len(a) = 3
  PROVE  /\ Cat(a, T) \in Seq(Int) /\ Len(Cat(a, T)) = 3 + Len(T)
         /\ Cat(a, T)[2] = a[2] /\ Cat(a, T)[3] = a[3]
         /\ From(Cat(a, T), 4) = T /\ From(Cat(a, T), 4 + Len(T)) = <<>>
<1>1. Cat(a, T) \in Seq(Int) /\ Len(Cat(a, T)) = 3 + Len(T) /\ Len(T) \in Nat
  BY Joined, LenProperties
<1>2. 2 \in 1..Len(a) /\ 3 \in 1..Len(a) /\ 4 = Len(a) + 1
  OBVIOUS
<1>3. Cat(a, T)[2] = a[2] /\ Cat(a, T)[3] = a[3] /\ From(Cat(a, T), 4) = T
  BY <1>2, InFirst, Rest, Zenon
<1>4. From(Cat(a, T), 4 + Len(T)) = <<>>
  BY <1>1, SubSeqEmpty DEF From
<1> QED BY <1>1, <1>3, <1>4

\* Four octets, the octets of a number and what follows them.
Header(h, N, tail) ==
  LET tpdu == Cat(h, Cat(N, tail))
  IN  /\ tpdu \in Seq(Int) /\ Len(tpdu) = 4 + (Len(N) + Len(tail))
      /\ tpdu[1] = h[1] /\ tpdu[3] = h[3] /\ tpdu[4] = h[4]
      /\ From(tpdu, 5) = Cat(N, tail) /\ From(tpdu, 5 + Len(N)) = tail

\* They are found where the standard puts them.
LEMMA Head4 ==
  ASSUME NEW h \in Seq(Int), NEW N \in Seq(Int), NEW tail \in Seq(Int), Len(h) = 4
  PROVE  Header(h, N, tail)
<1> DEFINE b == Cat(N, tail)
<1>1. b \in Seq(Int) /\ Len(b) = Len(N) + Len(tail)
  BY Joined
<1>2. Cat(h, b) = Cat(Cat(h, N), tail)
  BY Regrouped
<1>3. From(Cat(h, b), 5 + Len(N)) = tail
  <2>1. Cat(h, N) \in Seq(Int) /\ Len(Cat(h, N)) = Len(h) + Len(N)
    BY Joined, Zenon
  <2>2. Len(N) \in Nat
    BY LenProperties
  <2> HIDE DEF b
  <2> DEFINE c == Cat(h, N)
  <2>3. 5 + Len(N) = Len(c) + 1
    BY <2>1, <2>2
  <2>4. c \in Seq(Int)
    BY <2>1
  <2> HIDE DEF c
  <2>5. From(Cat(c, tail), 5 + Len(N)) = tail
    BY <2>3, <2>4, Rest, Zenon
  <2> QED BY <1>2, <2>5 DEF c
<1> HIDE DEF b
<1>4. Cat(h, b) \in Seq(Int) /\ Len(Cat(h, b)) = Len(h) + Len(b)
  BY <1>1, Joined, Zenon
<1>5. 1 \in 1..Len(h) /\ 3 \in 1..Len(h) /\ 4 \in 1..Len(h) /\ 5 = Len(h) + 1
  OBVIOUS
<1>6. \A i \in 1..Len(h) : Cat(h, b)[i] = h[i]
  BY <1>1, InFirst, Zenon
<1>7. From(Cat(h, b), 5) = b
  BY <1>1, <1>5, Rest, Zenon
<1>8. Len(Cat(h, b)) = 4 + (Len(N) + Len(tail))
  BY <1>1, <1>4
<1> QED BY <1>3, <1>4, <1>5, <1>6, <1>7, <1>8, Zenon DEF b, Header

\* The first octet of the whole.
LEMMA First ==
  ASSUME NEW a \in Seq(Int), NEW b \in Seq(Int), Len(a) > 0
  PROVE  Cat(a, b)[1] = a[1]
  BY DEF Cat

\* The fields in the order of AsciiToPDU() and in the reader's grouping.
Regroups(A, F, H, N, C, U, T) ==
  Cat(Cat(Cat(Cat(Cat(A, F), Cat(H, N)), C), U), T)
    = Cat(A, Cat(Cat(F, H), Cat(N, Cat(Cat(C, U), T))))

\* Both groupings give the same octets.
LEMMA Fields ==
  ASSUME NEW A \in Seq(Int), NEW F \in Seq(Int), NEW H \in Seq(Int), NEW N \in Seq(Int),
         NEW C \in Seq(Int), NEW U \in Seq(Int), NEW T \in Seq(Int)
  PROVE  Regroups(A, F, H, N, C, U, T)
<1> DEFINE tail == Cat(Cat(C, U), T)
           X == Cat(Cat(A, F), Cat(H, N))
<1>1. /\ Cat(U, T) \in Seq(Int) /\ Cat(A, F) \in Seq(Int) /\ Cat(H, N) \in Seq(Int)
      /\ Cat(F, H) \in Seq(Int) /\ Cat(C, U) \in Seq(Int)
  BY Joined
<1>2. tail \in Seq(Int) /\ X \in Seq(Int)
  BY <1>1, Joined
<1>3. Cat(Cat(Cat(X, C), U), T) = Cat(X, tail)
  <2> HIDE DEF X
  <2>0. Cat(X, C) \in Seq(Int)
    BY <1>2, Joined
  <2>1. Cat(Cat(Cat(X, C), U), T) = Cat(Cat(X, C), Cat(U, T))
    BY <2>0, Regrouped
  <2>2. Cat(Cat(X, C), Cat(U, T)) = Cat(X, Cat(C, Cat(U, T)))
    BY <1>1, <1>2, Regrouped
  <2>3. Cat(C, Cat(U, T)) = tail
    BY Regrouped
  <2> QED BY <2>1, <2>2, <2>3
<1> HIDE DEF tail
<1>4. X = Cat(A, Cat(Cat(F, H), N))
  <2>1. X = Cat(A, Cat(F, Cat(H, N)))
    BY <1>1, Regrouped
  <2>2. Cat(F, Cat(H, N)) = Cat(Cat(F, H), N)
    BY Regrouped
  <2> QED BY <2>1, <2>2
<1>5. Cat(Cat(F, H), N) \in Seq(Int)
  BY <1>1, Joined
<1> HIDE DEF X
<1>6. Cat(Cat(A, Cat(Cat(F, H), N)), tail) = Cat(A, Cat(Cat(Cat(F, H), N), tail))
  BY <1>2, <1>5, Regrouped
<1>7. Cat(Cat(Cat(F, H), N), tail) = Cat(Cat(F, H), Cat(N, tail))
  BY <1>1, <1>2, Regrouped
<1>8. Cat(Cat(Cat(X, C), U), T) = Cat(A, Cat(Cat(F, H), Cat(N, tail)))
  BY <1>3, <1>4, <1>6, <1>7
<1> QED BY <1>8 DEF X, tail, Regroups

\* Where a reader finds the parts of an SMS-SUBMIT.
Laid(A, F, H, N, C, U, T) ==
  LET pdu  == Cat(Cat(Cat(Cat(Cat(A, F), Cat(H, N)), C), U), T)
      tail == Cat(Cat(C, U), T)
      tpdu == Cat(Cat(F, H), Cat(N, tail))
  IN  /\ pdu = Cat(A, tpdu) /\ tpdu \in Seq(Int)
      /\ pdu \in Seq(Int) /\ Len(pdu) = Len(A) + (4 + (Len(N) + (3 + Len(T))))
      /\ pdu[1] = A[1] /\ From(pdu, Len(A) + 1) = tpdu
      /\ tpdu[1] = F[1] /\ tpdu[3] = H[1] /\ tpdu[4] = H[2]
      /\ From(tpdu, 5) = Cat(N, tail) /\ From(tpdu, 5 + Len(N)) = tail
      /\ tail \in Seq(Int) /\ tail[2] = C[2] /\ tail[3] = U[1]
      /\ From(tail, 4) = T /\ From(tail, 4 + Len(T)) = <<>>

\* The parts that AsciiToPDU() appends one after the other are laid so.
LEMMA Layout ==
  ASSUME NEW A \in Seq(Int), NEW F \in Seq(Int), NEW H \in Seq(Int), NEW N \in Seq(Int),
         NEW C \in Seq(Int), NEW U \in Seq(Int), NEW T \in Seq(Int),
         Len(A) > 0, Len(F) = 2, Len(H) = 2, Len(C) = 2, Len(U) = 1
  PROVE  Laid(A, F, H, N, C, U, T)
<1> DEFINE cu   == Cat(C, U)
           fh   == Cat(F, H)
           tail == Cat(cu, T)
           tpdu == Cat(fh, Cat(N, tail))
<1>1. cu \in Seq(Int) /\ fh \in Seq(Int)
  BY Joined, Zenon
<1>2. Len(cu) = 3 /\ cu[2] = C[2] /\ cu[3] = U[1]
  BY Triple, Zenon
<1>3. Len(fh) = 4 /\ fh[1] = F[1] /\ fh[3] = H[1] /\ fh[4] = H[2]
  BY Pair, Zenon
<1>4. Cat(Cat(Cat(Cat(Cat(A, F), Cat(H, N)), C), U), T) = Cat(A, tpdu)
  <2>1. Regroups(A, F, H, N, C, U, T)
    BY Fields, Zenon
  <2> QED BY <2>1, Zenon DEF Regroups
<1> HIDE DEF cu, fh
<1>5. /\ tail \in Seq(Int) /\ Len(tail) = 3 + Len(T) /\ tail[2] = cu[2] /\ tail[3] = cu[3]
      /\ From(tail, 4) = T /\ From(tail, 4 + Len(T)) = <<>>
  BY <1>1, <1>2, Tail3, Zenon
<1> HIDE DEF tail
<1>6. /\ tpdu \in Seq(Int) /\ Len(tpdu) = 4 + (Len(N) + Len(tail))
      /\ tpdu[1] = fh[1] /\ tpdu[3] = fh[3] /\ tpdu[4] = fh[4]
      /\ From(tpdu, 5) = Cat(N, tail) /\ From(tpdu, 5 + Len(N)) = tail
  <2>1. Header(fh, N, tail)
    BY <1>1, <1>3, <1>5, Head4, Zenon
  <2> QED BY <2>1, Zenon DEF Header
<1> HIDE DEF tpdu
<1>7. Cat(A, tpdu)[1] = A[1]
  BY <1>6, First, Zenon
<1>8. Cat(A, tpdu) \in Seq(Int) /\ Len(Cat(A, tpdu)) = Len(A) + Len(tpdu)
  BY <1>6, Joined, Zenon
<1>9. From(Cat(A, tpdu), Len(A) + 1) = tpdu
  BY <1>6, Rest, Zenon
<1>10. Len(Cat(A, tpdu)) = Len(A) + (4 + (Len(N) + (3 + Len(T))))
  BY <1>5, <1>6, <1>8, Zenon
<1> QED
  BY <1>2, <1>3, <1>4, <1>5, <1>6, <1>7, <1>8, <1>9, <1>10, Zenon DEF cu, fh, tail, tpdu, Laid

\* A number that fits is not changed by the conversion.
LEMMA Fits == \A x \in 0..255 : U8(x) = x
  BY DEF U8

\* Digits that fit in half as many octets fit in one octet's count.
LEMMA HalfFits ==
  ASSUME NEW n \in Nat, NEW max \in 0..127, ~((n + 1) \div 2 > max)
  PROVE  n \in 0..255 /\ (n + 1) \div 2 \in 0..127
  OBVIOUS

\* A number that is not refused consists of digits, not more than fit.
LEMMA GoodNumber ==
  ASSUME NEW number \in Seq(Int), ~BadNumber(number)
  PROVE  /\ DropPlus(number) \in Seq(Digit) /\ Len(DropPlus(number)) \in 0..255
         /\ NumBytes(number) \in 0..127
<1> DEFINE d == DropPlus(number)
<1>1. d \in Seq(Int)
  BY HeadTailProperties DEF DropPlus
<1>2. Len(d) \in Nat /\ DOMAIN d = 1..Len(d) /\ d = [k \in 1..Len(d) |-> d[k]]
  BY <1>1, LenProperties
<1>3. \A k \in DOMAIN d : d[k] \in Digit
  BY DEF BadNumber
<1>4. ~((Len(d) + 1) \div 2 > NumLenMax)
  BY Zenon DEF BadNumber, NumBytes
<1> HIDE DEF d
<1>5. d \in [1..Len(d) -> Digit]
  BY <1>2, <1>3
<1>6. d \in Seq(Digit)
  BY <1>2, <1>5, SeqOf, Zenon
<1>7. Len(d) \in 0..255 /\ (Len(d) + 1) \div 2 \in 0..127
  <2>1. NumLenMax \in 0..127
    BY PduAssumption
  <2>2. Len(d) \in Nat
    BY <1>2, Zenon
  <2> DEFINE n == Len(d)
  <2>3. n \in Nat /\ ~((n + 1) \div 2 > NumLenMax)
    BY <1>4, <2>2, Zenon
  <2> HIDE DEF n
  <2>4. n \in 0..255 /\ (n + 1) \div 2 \in 0..127
    BY <2>1, <2>3, HalfFits
  <2> QED BY <2>4, Zenon DEF n
<1> QED BY <1>6, <1>7, Zenon DEF d, NumBytes

\* An octet that tells a length, and the type of number after it.
LEMMA Address ==
  ASSUME NEW n \in 0..255
  PROVE  LET h == <<U8(n), PDU_NUM_INTERNATIONAL>>
         IN  h \in Seq(Int) /\ Len(h) = 2 /\ h[1] = n /\ h[2] = PDU_NUM_INTERNATIONAL
<1>1. U8(n) = n
  BY Fits
<1> QED BY <1>1 DEF PDU_NUM_INTERNATIONAL

\* The address of the service centre says how long it is.
LEMMA Sca ==
  ASSUME NEW smsc \in Seq(Int), smsc = NULL \/ ~BadNumber(smsc)
  PROVE  /\ ScaBytes(smsc) \in Seq(Int) /\ Len(ScaBytes(smsc)) = LenAfterSca(smsc)
         /\ LenAfterSca(smsc) \in Nat \ {0} /\ ScaBytes(smsc)[1] + 2 = LenAfterSca(smsc) + 1
<1>1. CASE smsc = NULL
  BY <1>1 DEF ScaBytes, LenAfterSca
<1>2. CASE smsc # NULL
  <2> DEFINE N == NumberToNibbles(DropPlus(smsc))
             m == NumBytes(smsc)
             h == <<U8(1 + m), PDU_NUM_INTERNATIONAL>>
  <2>1. m \in 0..127 /\ DropPlus(smsc) \in Seq(Digit)
    BY <1>2, GoodNumber, Zenon
  <2>2. N \in Seq(Int) /\ Len(N) = m
    BY <2>1, Nibbles, Zenon DEF NumBytes
  <2>3. ScaBytes(smsc) = Cat(h, N) /\ LenAfterSca(smsc) = 2 + m
    BY <1>2, Zenon DEF ScaBytes, LenAfterSca, Cat
  <2>4. 1 + m \in 0..255 /\ 2 + m \in Nat \ {0} /\ (1 + m) + 2 = (2 + m) + 1
    <3>1. \A n \in 0..127 : 1 + n \in 0..255 /\ 2 + n \in Nat \ {0} /\ (1 + n) + 2 = (2 + n) + 1
      OBVIOUS
    <3> QED BY <2>1, <3>1, Zenon
  <2>5. h \in Seq(Int) /\ Len(h) = 2 /\ h[1] = 1 + m
    BY <2>4, Address, Zenon
  <2> HIDE DEF h, N, m
  <2>6. Cat(h, N) \in Seq(Int) /\ Len(Cat(h, N)) = Len(h) + Len(N)
    BY <2>2, <2>5, Joined, Zenon
  <2>7. Cat(h, N)[1] = h[1]
    <3>1. Len(h) > 0
      BY <2>5
    <3> QED BY <2>2, <2>5, <3>1, First, Zenon
  <2> QED BY <2>2, <2>3, <2>4, <2>5, <2>6, <2>7, Zenon
<1> QED BY <1>1, <1>2

\* The filler tells an odd number of digits from an even one.
LEMMA Filler ==
  ASSUME NEW data \in Seq(Digit), NEW rest \in Seq(Int)
  PROVE  ScaDigits(Cat(NumberToNibbles(data), rest), (Len(data) + 1) \div 2) = data
<1> DEFINE n == Len(data)
           m == (n + 1) \div 2
           N == NumberToNibbles(data)
           octets == Cat(N, rest)
<1>1. n \in Nat /\ \A k \in 1..n : data[k] \in 0..9
  BY ElementOfSeq, LenProperties DEF Digit
<1>2. N \in Seq(Int) /\ Len(N) = m /\ Digits(octets, n) = data
  BY Nibbles, Zenon DEF Cat
<1>3. m \in Nat /\ (m > 0 => m \in 1..m /\ 2 * m - 1 \in 1..n)
      /\ (n = 2 * m \/ (m > 0 /\ n = 2 * m - 1))
  BY <1>1
<1>4. ASSUME m > 0
      PROVE  octets[m] \div 16 = (IF n = 2 * m THEN data[n] ELSE 15)
  <2>1. N[m] = data[2 * m - 1] + 16 * (IF 2 * m <= n THEN data[2 * m] ELSE 15)
    BY <1>3, <1>4 DEF NumberToNibbles
  <2>2. octets[m] = N[m]
    <3> HIDE DEF N, m, octets
    <3>1. m \in 1..Len(N)
      BY <1>2, <1>3, <1>4
    <3> QED BY <1>2, <3>1, InFirst, Zenon DEF octets
  <2> DEFINE lo == data[2 * m - 1]
             hi == IF n = 2 * m THEN data[n] ELSE 15
  <2>3. N[m] = lo + 16 * hi
    BY <1>1, <1>3, <1>4, <2>1
  <2>4. lo \in 0..9 /\ hi \in 0..15
    <3> HIDE DEF m
    <3>1. lo \in 0..9
      BY <1>1, <1>3, <1>4
    <3>2. CASE n = 2 * m
      <4>1. n \in 1..n
        BY <1>1, <1>3, <1>4, <3>2
      <4> QED BY <1>1, <3>1, <3>2, <4>1
    <3>3. CASE n # 2 * m
      BY <3>1, <3>3
    <3> QED BY <3>2, <3>3
  <2> HIDE DEF lo, hi, octets, N, m
  <2>5. \A x \in 0..9, y \in 0..15 : (x + 16 * y) \div 16 = y
    OBVIOUS
  <2>6. octets[m] \div 16 = hi
    BY <2>2, <2>3, <2>4, <2>5, Zenon
  <2> QED BY <2>6 DEF hi
<1> HIDE DEF N, octets, m
<1>5. (IF m > 0 /\ octets[m] \div 16 = 15 THEN 2 * m - 1 ELSE 2 * m) = n
  <2>1. CASE m > 0 /\ n = 2 * m
    <3>1. data[n] # 15
      <4>1. n \in 1..n
        BY <1>1, <1>3, <2>1
      <4> QED BY <1>1, <4>1
    <3> HIDE DEF n
    <3> QED BY <1>4, <2>1, <3>1
  <2>2. CASE m > 0 /\ n = 2 * m - 1
    <3>1. n # 2 * m
      BY <1>3, <2>2
    <3> HIDE DEF n
    <3> QED BY <1>4, <2>2, <3>1
  <2>3. CASE ~(m > 0)
    BY <1>3, <2>3
  <2> QED BY <1>3, <2>1, <2>2, <2>3
<1>6. ScaDigits(octets, m)
        = Digits(octets, IF m > 0 /\ octets[m] \div 16 = 15 THEN 2 * m - 1 ELSE 2 * m)
  BY Zenon DEF ScaDigits
<1> QED BY <1>2, <1>5, <1>6, Zenon DEF octets, N, m

\* A reader finds the service centre in the octets that begin a message.
LEMMA ScaRead ==
  ASSUME NEW smsc \in Seq(Int), smsc # NULL, ~BadNumber(smsc), NEW rest \in Seq(Int)
  PROVE  LET pdu == Cat(ScaBytes(smsc), rest)
         IN  pdu[1] # 0 /\ ScaDigits(From(pdu, 3), pdu[1] - 1) = DropPlus(smsc)
<1> DEFINE N == NumberToNibbles(DropPlus(smsc))
           m == NumBytes(smsc)
           h == <<U8(1 + m), PDU_NUM_INTERNATIONAL>>
           pdu == Cat(ScaBytes(smsc), rest)
<1>1. m \in 0..127 /\ DropPlus(smsc) \in Seq(Digit)
  BY GoodNumber, Zenon
<1>2. N \in Seq(Int) /\ m = (Len(DropPlus(smsc)) + 1) \div 2
  BY <1>1, Nibbles, Zenon DEF NumBytes
<1>3. ScaBytes(smsc) = Cat(h, N)
  BY Zenon DEF ScaBytes, Cat
<1>4. 1 + m \in 0..255 /\ 1 + m # 0 /\ (1 + m) - 1 = m
  <2>1. \A n \in 0..127 : 1 + n \in 0..255 /\ 1 + n # 0 /\ (1 + n) - 1 = n
    OBVIOUS
  <2> QED BY <1>1, <2>1, Zenon
<1>5. h \in Seq(Int) /\ Len(h) = 2 /\ h[1] = 1 + m
  BY <1>4, Address, Zenon
<1>6. ScaDigits(Cat(N, rest), m) = DropPlus(smsc)
  BY <1>1, <1>2, Filler, Zenon
<1> HIDE DEF h, N, m
<1>7. pdu = Cat(h, Cat(N, rest)) /\ Cat(N, rest) \in Seq(Int)
  <2>1. Cat(N, rest) \in Seq(Int)
    BY <1>2, Joined, Zenon
  <2>2. Cat(Cat(h, N), rest) = Cat(h, Cat(N, rest))
    BY <1>2, <1>5, Regrouped
  <2> QED BY <1>3, <2>1, <2>2, Zenon
<1>8. pdu[1] = 1 + m
  <2>1. Len(h) > 0
    BY <1>5
  <2> QED BY <1>5, <1>7, <2>1, First, Zenon
<1>9. From(pdu, 3) = Cat(N, rest)
  <2> DEFINE b == Cat(N, rest)
  <2>1. 3 = Len(h) + 1 /\ b \in Seq(Int)
    BY <1>5, <1>7
  <2> HIDE DEF b
  <2>2. From(Cat(h, b), 3) = b
    BY <1>5, <2>1, Rest
  <2> QED BY <1>7, <2>2, Zenon DEF b
<1> QED BY <1>4, <1>6, <1>8, <1>9, Zenon

\* Where Read() looks.
LEMMA Reading ==
  ASSUME NEW pdu, NEW tpdu, NEW tail, NEW number, NEW data, NEW digits, NEW chars,
         From(pdu, pdu[1] + 2) = tpdu, tpdu[3] = digits, From(tpdu, 5) = number,
         From(tpdu, 5 + (digits + 1) \div 2) = tail, tail[3] = chars, From(tail, 4) = data
  PROVE  LET got == Read(pdu) IN
         /\ got.type = tpdu[1] /\ got.toa = tpdu[4] /\ got.dest = Digits(number, digits)
         /\ got.dcs = tail[2] /\ got.text = Septets(data, chars)
         /\ got.rest = From(tail, 3 + (7 * chars + 7) \div 8 + 1)
         /\ got.smsc = (IF pdu[1] = 0 THEN NULL ELSE ScaDigits(From(pdu, 3), pdu[1] - 1))
  BY DEF Read

\* What a network reads in the octets of a message that is not refused.
LEMMA ReadBack ==
  ASSUME NEW smsc \in Seq(Int), NEW dest \in Seq(Int), NEW text \in Seq(Septet),
         ~Refused(smsc, dest, text)
  PROVE  LET pdu == AsciiToPDU(smsc, dest, text)
             got == Read(pdu)
         IN  /\ pdu \in Seq(Int) /\ Len(pdu) = PduLen(smsc, dest, text)
             /\ got.smsc = (IF smsc = NULL THEN NULL ELSE DropPlus(smsc))
             /\ got.dest = DropPlus(dest) /\ got.toa = PDU_NUM_INTERNATIONAL
             /\ got.text = text /\ got.rest = <<>>
             /\ got.type = PDU_FLAGS_MTI_SMS_SUBMIT /\ got.dcs = PDU_DCS_ASCII7
<1> DEFINE A == ScaBytes(smsc)
           F == <<PDU_FLAGS_MTI_SMS_SUBMIT, 0>>
           digits == Len(DropPlus(dest))
           H == <<U8(digits), PDU_NUM_INTERNATIONAL>>
           N == NumberToNibbles(DropPlus(dest))
           C == <<0, PDU_DCS_ASCII7>>
           chars == Len(text)
           U == <<U8(chars)>>
           T == PackText(text)
           pdu == AsciiToPDU(smsc, dest, text)
           tail == Cat(Cat(C, U), T)
           tpdu == Cat(Cat(F, H), Cat(N, tail))
<1>1. /\ smsc = NULL \/ ~BadNumber(smsc)
      /\ ~BadNumber(dest) /\ ~(chars > TextLenMax)
  BY Zenon DEF Refused
<1>2. /\ A \in Seq(Int) /\ Len(A) = LenAfterSca(smsc) /\ A[1] + 2 = LenAfterSca(smsc) + 1
      /\ LenAfterSca(smsc) \in Nat \ {0}
  BY <1>1, Sca, Zenon
<1>3. DropPlus(dest) \in Seq(Digit) /\ digits \in 0..255 /\ NumBytes(dest) \in 0..127
  BY <1>1, GoodNumber, Zenon
<1>4. N \in Seq(Int) /\ Len(N) = NumBytes(dest) /\ NumBytes(dest) = (digits + 1) \div 2
  BY <1>3, Nibbles, Zenon DEF NumBytes
<1>5. chars \in 0..255
  <2>1. chars \in Nat
    BY LenProperties
  <2> HIDE DEF chars
  <2> QED BY <1>1, <2>1, PduAssumption
<1>6. T \in Seq(Int) /\ Len(T) = TextBytes(text)
  BY PackedText, Zenon
<1>7. H \in Seq(Int) /\ Len(H) = 2 /\ H[1] = digits /\ H[2] = PDU_NUM_INTERNATIONAL
  BY <1>3, Address, Zenon
<1>8. /\ F \in Seq(Int) /\ Len(F) = 2 /\ F[1] = PDU_FLAGS_MTI_SMS_SUBMIT
      /\ C \in Seq(Int) /\ Len(C) = 2 /\ C[2] = PDU_DCS_ASCII7
  BY DEF PDU_FLAGS_MTI_SMS_SUBMIT, PDU_DCS_ASCII7
<1>9. U \in Seq(Int) /\ Len(U) = 1 /\ U[1] = chars
  <2>1. U8(chars) = chars
    BY <1>5, Fits, Zenon
  <2> HIDE DEF chars
  <2> QED BY <1>5, <2>1
<1> DEFINE p == Cat(Cat(Cat(Cat(Cat(A, F), Cat(H, N)), C), U), T)
<1>10. pdu = p
  BY Zenon DEF AsciiToPDU, DestBytes, Cat
<1>11. Len(A) > 0
  BY <1>2
<1> HIDE DEF A, F, H, N, C, U, T, pdu, digits, chars
<1>12. /\ p = Cat(A, tpdu) /\ tpdu \in Seq(Int)
       /\ p \in Seq(Int) /\ Len(p) = Len(A) + (4 + (Len(N) + (3 + Len(T))))
       /\ p[1] = A[1] /\ From(p, Len(A) + 1) = tpdu
       /\ tpdu[1] = F[1] /\ tpdu[3] = H[1] /\ tpdu[4] = H[2]
       /\ From(tpdu, 5) = Cat(N, tail) /\ From(tpdu, 5 + Len(N)) = tail
       /\ tail \in Seq(Int) /\ tail[2] = C[2] /\ tail[3] = U[1]
       /\ From(tail, 4) = T /\ From(tail, 4 + Len(T)) = <<>>
  <2>1. Laid(A, F, H, N, C, U, T)
    BY <1>2, <1>4, <1>6, <1>7, <1>8, <1>9, <1>11, Layout, Zenon
  <2> QED BY <2>1, Zenon DEF Laid
<1> HIDE DEF p, tpdu, tail
<1>13. From(pdu, pdu[1] + 2) = tpdu
  BY <1>2, <1>10, <1>12, Zenon
<1>14. From(tpdu, 5 + (digits + 1) \div 2) = tail
  BY <1>4, <1>12, Zenon
<1>15. tpdu[3] = digits /\ tail[3] = chars
  BY <1>7, <1>9, <1>12, Zenon
<1>16. LET got == Read(pdu) IN
       /\ got.type = tpdu[1] /\ got.toa = tpdu[4]
       /\ got.dest = Digits(Cat(N, tail), digits)
       /\ got.dcs = tail[2] /\ got.text = Septets(T, chars)
       /\ got.rest = From(tail, 3 + (7 * chars + 7) \div 8 + 1)
       /\ got.smsc = (IF pdu[1] = 0 THEN NULL ELSE ScaDigits(From(pdu, 3), pdu[1] - 1))
  <2>1. From(tpdu, 5) = Cat(N, tail) /\ From(tail, 4) = T
    BY <1>12, Zenon
  <2> QED BY <2>1, <1>13, <1>14, <1>15, Reading
<1>17. Digits(Cat(N, tail), digits) = DropPlus(dest)
  BY <1>3, <1>12, Nibbles, Zenon DEF N, digits, Cat
<1>18. Septets(T, chars) = text
  BY UnpackPack, Zenon DEF T, chars
<1>19. From(tail, 3 + (7 * chars + 7) \div 8 + 1) = <<>>
  <2>1. Len(T) = (chars * 7 + 7) \div 8
    BY <1>6, Zenon DEF TextBytes, chars
  <2>2. \A n \in 0..255 : 3 + (7 * n + 7) \div 8 + 1 = 4 + (n * 7 + 7) \div 8
    OBVIOUS
  <2> QED BY <1>5, <1>12, <2>1, <2>2, Zenon
<1>20. Len(pdu) = PduLen(smsc, dest, text)
  <2>1. \A x, y, z \in Nat : x + (4 + (y + (3 + z))) = x + 2 + 2 + y + 2 + 1 + z
    OBVIOUS
  <2>2. TextBytes(text) \in Nat
    <3>1. \A n \in 0..255 : (n * 7 + 7) \div 8 \in Nat
      OBVIOUS
    <3> QED BY <1>5, <3>1, Zenon DEF TextBytes, chars
  <2>3. NumBytes(dest) \in Nat
    <3>1. \A n \in 0..127 : n \in Nat
      OBVIOUS
    <3> QED BY <1>3, <3>1, Zenon
  <2>4. LenAfterSca(smsc) \in Nat
    BY <1>2
  <2>5. Len(pdu) = LenAfterSca(smsc) + (4 + (NumBytes(dest) + (3 + TextBytes(text))))
    BY <1>2, <1>4, <1>6, <1>10, <1>12, Zenon
  <2>6. PduLen(smsc, dest, text)
          = LenAfterSca(smsc) + 2 + 2 + NumBytes(dest) + 2 + 1 + TextBytes(text)
    BY Zenon DEF PduLen, LenAfterDest
  <2> QED BY <2>1, <2>2, <2>3, <2>4, <2>5, <2>6, Zenon
<1>21. (IF pdu[1] = 0 THEN NULL ELSE ScaDigits(From(pdu, 3), pdu[1] - 1))
         = (IF smsc = NULL THEN NULL ELSE DropPlus(smsc))
  <2>1. CASE smsc = NULL
    <3>1. A[1] = 0
      BY <2>1 DEF A, ScaBytes
    <3> QED BY <1>10, <1>12, <2>1, <3>1, Zenon
  <2>2. CASE smsc # NULL
    <3>1. Cat(A, tpdu)[1] # 0
          /\ ScaDigits(From(Cat(A, tpdu), 3), Cat(A, tpdu)[1] - 1) = DropPlus(smsc)
      BY <1>1, <1>12, <2>2, ScaRead, Zenon DEF A
    <3> QED BY <1>10, <1>12, <2>2, <3>1, Zenon
  <2> QED BY <2>1, <2>2, Zenon
<1> QED
  BY <1>7, <1>8, <1>10, <1>12, <1>16, <1>17, <1>18, <1>19, <1>20, <1>21, Zenon DEF pdu

\* What the modem is given is what AsciiToPDU() wrote, no octet more or less.
LEMMA HandedIsWritten ==
  ASSUME NEW smsc, NEW dest, NEW text, AsciiToPDU(smsc, dest, text) \in Seq(Int),
         Len(AsciiToPDU(smsc, dest, text)) = PduLen(smsc, dest, text)
  PROVE  Handed(smsc, dest, text) = AsciiToPDU(smsc, dest, text)
<1> DEFINE pdu == AsciiToPDU(smsc, dest, text)
           n   == PduLen(smsc, dest, text)
<1>1. n \in Nat /\ Len(pdu) = n
  BY LenProperties
<1>2. pdu = [k \in 1..n |-> pdu[k]]
  BY <1>1, LenProperties
<1>3. Handed(smsc, dest, text) = [k \in 1..n |-> IF k <= n THEN pdu[k] ELSE 0]
  BY <1>1, Zenon DEF Handed
<1> HIDE DEF pdu, n
<1>4. [k \in 1..n |-> IF k <= n THEN pdu[k] ELSE 0] = [k \in 1..n |-> pdu[k]]
  BY <1>1
<1> QED BY <1>2, <1>3, <1>4, Zenon DEF pdu

\* The parts of a message are sequences.
LEMMA MessageType ==
  ASSUME TypeOK
  PROVE  message.smsc \in Seq(Int) /\ message.dest \in Seq(Int) /\ message.text \in Seq(Septet)
<1>1. /\ message.smsc \in Seq(Digit \cup {Plus, Other}) \cup {NULL}
      /\ message.dest \in Seq(Digit \cup {Plus, Other}) /\ message.text \in Seq(Septet)
  <2>1. CASE message = NoMessage
    BY <2>1 DEF NoMessage
  <2>2. CASE message \in Messages
    BY <2>2, MbimAssumption
  <2> QED BY <2>1, <2>2 DEF TypeOK
<1>2. Digit \cup {Plus, Other} \subseteq Int
  BY DEF Digit, Plus, Other
<1>3. \A s \in Seq(Digit \cup {Plus, Other}) : s \in Seq(Int)
  BY <1>2
<1>4. NULL \in Seq(Int)
  BY DEF NULL
<1> QED BY <1>1, <1>3, <1>4, Zenon

\* Only Encode lets a message pass, and only Send hands one over.
LEMMA StepPdu ==
  ASSUME PduInv, [Next]_vars
  PROVE  PduInv'
<1> DEFINE refused == Refused(message.smsc, message.dest, message.text)
           handed  == Handed(message.smsc, message.dest, message.text)
<1>1. UNCHANGED message => UNCHANGED <<refused, handed>>
  BY Zenon
<1>2. /\ pc = "send" => ~refused
      /\ sent # <<>> => ~refused /\ sent = handed
  BY Zenon DEF PduInv
<1>3. UNCHANGED message
  BY DEF Next, Program, vars, GetCurrentTimeinfo, SetInitialTime, WaitForIface, Open,
         WaitSimReady, WaitRegistered, Encode, Send, CloseSms, MbimConnect,
         SetDefaultGateway, WaitTimeUpdate, ModemChanges, NtpSync
<1> HIDE DEF refused, handed
<1>4. CASE Encode
  <2>1. UNCHANGED sent /\ (pc' = "send" => ~refused)
    BY <1>4 DEF Encode, Abandon, refused
  <2> QED BY <1>1, <1>2, <1>3, <2>1 DEF PduInv, refused, handed
<1>5. CASE Send
  <2>1. pc = "send" /\ pc' = "close" /\ (sent' = handed \/ UNCHANGED sent)
    BY <1>5 DEF Send, handed
  <2> QED BY <1>1, <1>2, <1>3, <2>1 DEF PduInv, refused, handed
<1>6. CASE ~Encode /\ ~Send
  <2>1. UNCHANGED sent
    BY <1>6 DEF Next, Program, vars, GetCurrentTimeinfo, SetInitialTime, WaitForIface, Open,
         WaitSimReady, WaitRegistered, CloseSms, MbimConnect,
         SetDefaultGateway, WaitTimeUpdate, ModemChanges, NtpSync
  <2>2. pc' = "send" => pc = "send"
    BY <1>6 DEF Next, Program, vars, GetCurrentTimeinfo, SetInitialTime, WaitForIface, Open,
         WaitSimReady, WaitRegistered, CloseSms, MbimConnect, Abandon, Proceed, Sleep,
         CloseNtpd, Results, SetDefaultGateway, WaitTimeUpdate, ModemChanges, NtpSync
  <2> QED BY <1>1, <1>2, <1>3, <2>1, <2>2 DEF PduInv, refused, handed
<1> QED BY <1>4, <1>5, <1>6

\* Whatever message, number and service centre: a network that reads what
\* mbim_sms has handed to the modem finds that service centre, that number, the
\* ASCII codes of that text and nothing else, and the PDU fits the buffer.
THEOREM Sent == Spec => []SentAsWritten
<1>1. Init => PduInv
  BY DEF Init, PduInv
<1>2. PduInv /\ [Next]_vars => PduInv'
  BY StepPdu
<1>3. TypeOK /\ PduInv => SentAsWritten
  <2> SUFFICES ASSUME TypeOK, PduInv, sent # <<>> PROVE SentAsWritten
    BY Zenon DEF SentAsWritten
  <2> DEFINE s == message.smsc
             d == message.dest
             t == message.text
             pdu == AsciiToPDU(s, d, t)
  <2>1. s \in Seq(Int) /\ d \in Seq(Int) /\ t \in Seq(Septet)
    BY MessageType, Zenon
  <2>2. ~Refused(s, d, t) /\ sent = Handed(s, d, t)
    BY Zenon DEF PduInv
  <2> HIDE DEF s, d, t
  <2>3. /\ pdu \in Seq(Int) /\ Len(pdu) = PduLen(s, d, t)
        /\ Read(pdu).smsc = (IF s = NULL THEN NULL ELSE DropPlus(s))
        /\ Read(pdu).dest = DropPlus(d) /\ Read(pdu).toa = PDU_NUM_INTERNATIONAL
        /\ Read(pdu).text = t /\ Read(pdu).rest = <<>>
        /\ Read(pdu).type = PDU_FLAGS_MTI_SMS_SUBMIT /\ Read(pdu).dcs = PDU_DCS_ASCII7
    BY <2>1, <2>2, ReadBack, Zenon
  <2>4. sent = pdu
    BY <2>2, <2>3, HandedIsWritten, Zenon
  <2>5. Len(pdu) <= BufLen
    <3>1. ~(PduLen(s, d, t) > BufLen)
      BY <2>2, Zenon DEF Refused
    <3>2. PduLen(s, d, t) \in Nat
      BY <2>3, LenProperties, Zenon
    <3>3. BufLen \in Nat
      BY PduAssumption
    <3>4. \A m, n \in Nat : ~(m > n) => m <= n
      OBVIOUS
    <3> QED BY <2>3, <3>1, <3>2, <3>3, <3>4, Zenon
  <2> HIDE DEF pdu
  <2> QED BY <2>3, <2>4, <2>5, Zenon DEF SentAsWritten, s, d, t
<1> QED
  BY TypeCorrect, <1>1, <1>2, <1>3, PTL DEF Spec
=============================================================================
