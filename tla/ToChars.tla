------------------------------ MODULE ToChars ------------------------------
(***************************************************************************)
(* rbc_to_chars_i8 .. i64 and rbc_to_chars_u8 .. u64 (utils/charconv.c     *)
(* 148-252): the digits of a value are put down from the least one and     *)
(* reversed, in a buffer with room for a number of characters.  The least  *)
(* signed value, whose opposite does not exist, is put down as the         *)
(* greatest one and its last digit then incremented.                       *)
(***************************************************************************)
EXTENDS Integers, Sequences

CONSTANTS Signed, Max

Ext == INSTANCE SequencesExt

Min == IF Signed THEN -Max - 1 ELSE 0

\* The digits of a positive number, the least one first.
DigitsUp[n \in Nat] ==
  IF n = 0 THEN << >> ELSE <<n % 10>> \o DigitsUp[n \div 10]

\* Seeded defect: the least value is not told from the one above it.
MagnitudeWithoutMin(v) == DigitsUp[IF v < 0 THEN (IF v = Min THEN Max ELSE -v) ELSE v]

Magnitude(v) ==
  IF v = Min
    THEN LET up == DigitsUp[Max] IN <<up[1] + 1>> \o Tail(up)
    ELSE DigitsUp[IF v < 0 THEN -v ELSE v]

\* The error, the number of characters stored, and the text.
Chars(error, stored, sign, digits) ==
  [error |-> error, stored |-> stored, sign |-> sign, digits |-> digits]

NoDigits == << >>

\* Seeded defect: only the sign is checked against the room.
DigitsFitUnchecked(nb, room, signs) == signs < room

\* signs: the number of characters stored before the digits.
DigitsFit(nb, room, signs) == signs < room /\ signs + nb <= room

InOrder(up) == Ext!Reverse(up)

Put(sign, signs, digits, room) ==
  IF DigitsFit(Len(digits), room, signs)
    THEN Chars("OK", signs + Len(digits), sign, InOrder(digits))
    ELSE Chars("VALUE_TOO_LARGE", signs, sign, NoDigits)

NoRoom == Chars("INVALID_ARGUMENT", 0, "none", NoDigits)
Zero == Chars("OK", 1, "none", <<0>>)

to_chars_signed(v, room) ==
  CASE room <= 0          -> NoRoom
    [] room > 0 /\ v = 0  -> Zero
    [] room > 0 /\ v < 0  -> Put("-", 1, Magnitude(v), room)
    [] room > 0 /\ v > 0  -> Put("none", 0, Magnitude(v), room)

to_chars_unsigned(v, room) ==
  CASE room <= 0          -> NoRoom
    [] room > 0 /\ v = 0  -> Zero
    [] room > 0 /\ v > 0  -> Put("none", 0, DigitsUp[v], room)

to_chars(v, room) ==
  IF Signed THEN to_chars_signed(v, room) ELSE to_chars_unsigned(v, room)

=============================================================================
