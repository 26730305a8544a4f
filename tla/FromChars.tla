----------------------------- MODULE FromChars -----------------------------
(***************************************************************************)
(* rbc_from_chars_i8 .. i64 and rbc_from_chars_u8 .. u64 (utils/charconv.c *)
(* 28-146): a text is read one character at a time and its number built    *)
(* in the type it is for, where Max - d and Max \div 10 may be computed    *)
(* and Max + 1 may not.  The caller's text is the sequence of the actions. *)
(* The position returned with the error is left out.                       *)
(***************************************************************************)
EXTENDS Integers

\* The types the functions are made for, i8 .. i64 and u8 .. u64, as records
\* [signed |-> ..., max |-> ...].
CONSTANT Types

\* 2^k - 1 does not end in a 9: what is_min and the check against Max \div 10
\* rely on to accept the least value of a signed type and nothing beyond it.
ASSUME TypeAssumption ==
  /\ Types \subseteq [signed : BOOLEAN, max : Nat]
  /\ \A t \in Types : t.max >= 9 /\ (t.signed => t.max % 10 # 9)

VARIABLES
  type,     \* the type a value of which is read; fixed
  phase,    \* what the next character may be: "start", "first", "more", "done"
  neg,      \* is_negative
  x,        \* x
  isMin,    \* is_min
  value,    \* *value, 0 before the call
  error,    \* result.error
  exact     \* the number written so far, without its sign: no such variable
            \* in the code, only the properties look at it

vars == <<type, phase, neg, x, isMin, value, error, exact>>

Signed == type.signed
Max == type.max
Min == IF Signed THEN -Max - 1 ELSE 0
Type == Min .. Max

Digits == 0 .. 9

Init ==
  /\ type \in Types
  /\ phase = "start"
  /\ neg = FALSE
  /\ x = 0
  /\ isMin = FALSE
  /\ value = 0
  /\ error = "INVALID_ARGUMENT"
  /\ exact = 0

\* White space is over; a sign follows or not.
Sign(s) ==
  /\ phase = "start"
  /\ phase' = IF s = "-" /\ ~Signed THEN "done" ELSE "first"
  /\ neg' = (s = "-" /\ Signed)
  /\ UNCHANGED <<x, isMin, value, error, exact>>

\* The range ends, or goes on with something else, before any digit.
NoNumber ==
  /\ phase \in {"start", "first"}
  /\ phase' = "done"
  /\ UNCHANGED <<neg, x, isMin, value, error, exact>>

FirstDigit(d) ==
  /\ phase = "first"
  /\ phase' = "more"
  /\ x' = d
  /\ exact' = d
  /\ error' = "RESULT_OUT_OF_RANGE"
  /\ UNCHANGED <<neg, isMin, value>>

\* Whatever follows a number of that size makes it too large.
NoRoomForDigit == isMin \/ x > Max \div 10

\* Seeded defect: the least value of a signed type is refused.
DoesNotFitSymmetric(y, d) == y > Max - d

DoesNotFit(y, d) == IF neg THEN -y < Min + d ELSE y > Max - d

Digit(d) ==
  /\ phase = "more"
  /\ exact' = 10 * exact + d
  /\ IF NoRoomForDigit \/ DoesNotFit(10 * x, d)
       THEN phase' = "done" /\ UNCHANGED <<x, isMin>>
       ELSE LET sum == 10 * x + d
            IN  /\ isMin' = (Signed /\ -10 * x = Min + d)
                \* 10 * x + d is Max + 1 when the number is Min: undefined, or
                \* defined by the implementation for i8 and i16
                /\ IF sum <= Max THEN x' = sum ELSE x' \in Type
                /\ UNCHANGED phase
  /\ UNCHANGED <<neg, value, error>>

\* Seeded defect: the least value is negated like any other.
EndOfNumberWithoutMin ==
  /\ phase = "more"
  /\ phase' = "done"
  /\ value' = IF neg THEN -x ELSE x
  /\ error' = "OK"
  /\ UNCHANGED <<neg, x, isMin, exact>>

\* The range ends, or goes on with something else, after the digits.
EndOfNumber ==
  /\ phase = "more"
  /\ phase' = "done"
  /\ value' = IF ~neg THEN x ELSE IF isMin THEN Min ELSE -x
  /\ error' = "OK"
  /\ UNCHANGED <<neg, x, isMin, exact>>

Next ==
  /\ \/ \E s \in {"none", "+", "-"} : Sign(s)
     \/ NoNumber
     \/ \E d \in Digits : FirstDigit(d)
     \/ \E d \in Digits : Digit(d)
     \/ EndOfNumber
  /\ UNCHANGED type

Spec == Init /\ [][Next]_vars

(***************************************************************************)
(* Properties                                                              *)
(***************************************************************************)
\* Everything the code computes with stays a value of the type it reads.
TypeOK ==
  /\ type \in Types
  /\ phase \in {"start", "first", "more", "done"}
  /\ neg \in BOOLEAN /\ isMin \in BOOLEAN
  /\ x \in Type /\ value \in Type
  /\ error \in {"INVALID_ARGUMENT", "RESULT_OUT_OF_RANGE", "OK"}
  /\ exact \in Nat

Written == IF neg THEN -exact ELSE exact

\* A text with digits is converted exactly when the number it writes is a
\* value of the type, and then to that number: the least value of a signed
\* type included, whose opposite the code cannot hold, and no text that goes
\* one beyond either end, nor one that goes on after the least value.
ExactOrRefused ==
  phase = "done" =>
    /\ error = "OK" => value = Written
    /\ error = "RESULT_OUT_OF_RANGE" => Written \notin Type

=============================================================================
