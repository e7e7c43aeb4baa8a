------------------------------- MODULE SmsPdu -------------------------------
(***************************************************************************)
(* AsciiToPDU() of examples/cellular/mbim_sms (client/src/main.c): a short *)
(* message as the octets of an SMS-SUBMIT, and as reference the fields     *)
(* that 3GPP TS 23.040 finds in such octets, the text unpacked to septets. *)
(*                                                                         *)
(* Telephone numbers are sequences of digits, of Plus and of Other for any *)
(* other character; texts are sequences of ASCII codes.  Which character a *)
(* phone shows for a septet is left out: the coding scheme 0 the code sets *)
(* means the GSM alphabet of TS 23.038, in which @, $, _, brackets and a   *)
(* few others have codes of their own.                                     *)
(***************************************************************************)
EXTENDS Integers, Sequences

CONSTANTS
  NumLenMax,   \* PDU_NUM_LEN_MAX, in octets
  TextLenMax,  \* PDU_ASCII7_MAX_DATA_LEN, in characters
  BufLen       \* sizeof(pdu) of main()

\* Every length that is put into one octet fits.
ASSUME PduAssumption ==
  NumLenMax \in 0..127 /\ TextLenMax \in 0..255 /\ BufLen \in Nat

Digit == 0..9
Plus  == 10
Other == 11
NULL  == <<12>>    \* no number at all

Septet == 0..127   \* the characters of a text

PDU_LEN_MIN == 9
PDU_NUM_INTERNATIONAL == 145
PDU_FLAGS_MTI_SMS_SUBMIT == 1
PDU_DCS_ASCII7 == 0

-----------------------------------------------------------------------------
U8(n) == n % 256   \* the conversion to uint8_t

\* Bit j of a number, and the number that eight bits make.
Pow2         == <<1, 2, 4, 8, 16, 32, 64, 128>>
Bit(v, j)    == (v \div Pow2[j + 1]) % 2
Number(bits) == bits[0] + 2 * bits[1] + 4 * bits[2] + 8 * bits[3]
                + 16 * bits[4] + 32 * bits[5] + 64 * bits[6] + 128 * bits[7]

DropPlus(number) ==
  IF number # <<>> /\ Head(number) = Plus THEN Tail(number) ELSE number

NumBytes(number) == (Len(DropPlus(number)) + 1) \div 2

\* Mistake: the first digit of a pair goes into the high nibble.
NumberToNibblesSwapped(data) ==
  [k \in 1 .. (Len(data) + 1) \div 2 |->
     (IF 2 * k <= Len(data) THEN data[2 * k] ELSE 15) + 16 * data[2 * k - 1]]

\* Two digits per octet, the first one in the low nibble; 0xf fills up.
NumberToNibbles(data) ==
  [k \in 1 .. (Len(data) + 1) \div 2 |->
     data[2 * k - 1] + 16 * (IF 2 * k <= Len(data) THEN data[2 * k] ELSE 15)]

\* A number that NumberToNibbles() refuses, or too long for an address field.
BadNumber(number) == \/ NumBytes(number) > NumLenMax
                     \/ \E k \in DOMAIN DropPlus(number) : DropPlus(number)[k] \notin Digit

\* The service centre's address; length 0 stands for the default one.
ScaBytes(smsc) ==
  IF smsc = NULL THEN <<0>>
  ELSE <<U8(1 + NumBytes(smsc)), PDU_NUM_INTERNATIONAL>> \o NumberToNibbles(DropPlus(smsc))

DestBytes(dest) ==
  <<U8(Len(DropPlus(dest))), PDU_NUM_INTERNATIONAL>> \o NumberToNibbles(DropPlus(dest))

TextBytes(text) == (Len(text) * 7 + 7) \div 8

\* Bit b of the text's characters, seven bits each, the lowest one first.
BitOf(text, b) == IF b < Len(text) * 7 THEN Bit(text[b \div 7 + 1], b % 7) ELSE 0

\* The loop over the bits: eight of them per octet.
PackText(text) ==
  [k \in 1 .. TextBytes(text) |-> Number([j \in 0..7 |-> BitOf(text, 8 * (k - 1) + j)])]

\* The length that is counted along the way, separately from the octets.
LenAfterSca(smsc) == IF smsc = NULL THEN 1 ELSE 2 + NumBytes(smsc)
LenAfterDest(smsc, dest) == LenAfterSca(smsc) + 2 + 2 + NumBytes(dest)
PduLen(smsc, dest, text) == LenAfterDest(smsc, dest) + 2 + 1 + TextBytes(text)

\* The checks that make AsciiToPDU() return -1.
Refused(smsc, dest, text) ==
  \/ BufLen < PDU_LEN_MIN
  \/ smsc # NULL /\ (BadNumber(smsc) \/ BufLen < LenAfterSca(smsc))
  \/ BadNumber(dest) \/ BufLen < LenAfterDest(smsc, dest)
  \/ PduLen(smsc, dest, text) > BufLen
  \/ Len(text) > TextLenMax

\* The octets it writes otherwise, in this order.
AsciiToPDU(smsc, dest, text) ==
  ScaBytes(smsc)
  \o <<PDU_FLAGS_MTI_SMS_SUBMIT, 0>>         \* flags, message reference
  \o DestBytes(dest)
  \o <<0, PDU_DCS_ASCII7>>                   \* PID, DCS
  \o <<U8(Len(text))>> \o PackText(text)     \* UDL, user data

\* What the modem is given: the first PduLen octets of the zeroed buffer.
Handed(smsc, dest, text) ==
  LET pdu == AsciiToPDU(smsc, dest, text)
  IN  [k \in 1 .. PduLen(smsc, dest, text) |-> IF k <= Len(pdu) THEN pdu[k] ELSE 0]

-----------------------------------------------------------------------------
(***************************************************************************)
(* The reference: what a network reads in an SMS-SUBMIT.                   *)
(***************************************************************************)
Digits(octets, count) ==
  [k \in 1 .. count |-> LET o == octets[(k + 1) \div 2]
                        IN  IF k % 2 = 1 THEN o % 16 ELSE o \div 16]

\* Character c consists of the bits 7c .. 7c + 6 of the octets.
Septets(octets, count) ==
  [c \in 1 .. count |->
     Number([j \in 0..7 |-> LET b == 7 * (c - 1) + j
                            IN  IF j = 7 THEN 0 ELSE Bit(octets[b \div 8 + 1], b % 8)])]

From(pdu, k) == SubSeq(pdu, k, Len(pdu))

\* The digits in n octets of a service centre's address; a high nibble 0xf fills
\* up the last octet.
ScaDigits(octets, n) ==
  Digits(octets, IF n > 0 /\ octets[n] \div 16 = 15 THEN 2 * n - 1 ELSE 2 * n)

\* The fields of a PDU; rest is what follows the last character.
Read(pdu) ==
  LET tpdu   == From(pdu, pdu[1] + 2)
      digits == tpdu[3]
      tail   == From(tpdu, 5 + (digits + 1) \div 2)
      chars  == tail[3]
      used   == 3 + (7 * chars + 7) \div 8
  IN  [smsc  |-> IF pdu[1] = 0 THEN NULL ELSE ScaDigits(From(pdu, 3), pdu[1] - 1),
       type  |-> tpdu[1], toa |-> tpdu[4], dest |-> Digits(From(tpdu, 5), digits),
       dcs   |-> tail[2], text |-> Septets(From(tail, 4), chars),
       rest  |-> From(tail, used + 1)]
=============================================================================
