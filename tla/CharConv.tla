----------------------------- MODULE CharConv ------------------------------
(***************************************************************************)
(* A value printed by rbc_to_chars and the text read back by               *)
(* rbc_from_chars: FromChars fed with what ToChars stored, or, where there *)
(* was no room for the value, with any text.                               *)
(***************************************************************************)
EXTENDS FromChars, Sequences

CONSTANTS
  ResultMaxLen,  \* RBC_TO_CHARS_RESULT_MAX_LEN: 20, the longest text of 64 bits
  MaxRoom        \* bound: the room of the buffers tried

PowerOfTen[n \in Nat] == IF n = 0 THEN 1 ELSE 10 * PowerOfTen[n - 1]

\* ResultMaxLen is as many as the digits of the numbers of each type, and one
\* more for the sign of those that have one: 2^63 < 10^19, 2^64 - 1 < 10^20.
ASSUME RoomAssumption ==
  /\ ResultMaxLen \in Nat \ {0} /\ MaxRoom \in Nat
  /\ \A t \in Types : IF t.signed THEN t.max + 1 < PowerOfTen[ResultMaxLen - 1]
                                  ELSE t.max < PowerOfTen[ResultMaxLen]

Printer == INSTANCE ToChars

VARIABLES
  printed,   \* the value printed
  room,      \* the room given for it
  chars,     \* what rbc_to_chars made of it
  rest       \* the digits not yet read back

textVars == <<printed, room, chars>>
allVars == <<vars, textVars, rest>>

PrintInit ==
  /\ Init
  /\ \/ room = 0 /\ printed = 0
     \/ room \in 1 .. MaxRoom /\ printed \in Type
  /\ chars = Printer!to_chars(printed, room)
  /\ rest = chars.digits

Reads(n) == rest' = SubSeq(rest, n + 1, Len(rest))

\* A text that was stored whole is read back up to its end.
ReadBack ==
  /\ chars.error = "OK"
  /\ \/ Sign(chars.sign) /\ Reads(0)
     \/ rest # << >> /\ FirstDigit(Head(rest)) /\ Reads(1)
     \/ rest # << >> /\ Digit(Head(rest)) /\ Reads(1)
     \/ rest = << >> /\ EndOfNumber /\ Reads(0)
  /\ UNCHANGED type

\* Without any room the caller reads another text instead.
ReadOther == room = 0 /\ Next /\ UNCHANGED rest

ConvNext == (ReadBack \/ ReadOther) /\ UNCHANGED textVars

ConvSpec == PrintInit /\ [][ConvNext]_allVars

(***************************************************************************)
(* Properties                                                              *)
(***************************************************************************)
\* to_chars stores no character beyond the room it was given, whether the
\* value fits or not, and a buffer of the length charconv.h names takes every
\* value of every type.
RoomRespected ==
  /\ chars.stored <= room
  /\ room >= ResultMaxLen => chars.error = "OK"

\* What was printed is read back as the value it was printed from, the least
\* value of a signed type included.
RoundTrip ==
  phase = "done" /\ chars.error = "OK" => error = "OK" /\ value = printed

=============================================================================
