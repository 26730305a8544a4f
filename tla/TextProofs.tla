---------------------------- MODULE TextProofs ------------------------------
(***************************************************************************)
(* Numbers and text, for types of every width: reading a number is exact,  *)
(* the characters a number is printed as are read back as that number, and *)
(* nothing is written outside of the buffer.                               *)
(***************************************************************************)
EXTENDS CharConv, ErrorText, RecursionLemmas, SequenceTheorems

(***************************************************************************)
(* Reading a number, for every Max that does not end in 9, not only for    *)
(* the 8 bits TLC goes through.                                            *)
(***************************************************************************)
\* What is known between two digits: the number fits, x holds it unless it is
\* the least value, and only then is isMin set.
Reading ==
  phase \in {"first", "more"} =>
    /\ neg => Signed
    /\ isMin <=> exact = Max + 1
    /\ isMin => neg
    /\ exact <= Max + 1
    /\ ~isMin => x = exact

Inv ==
  /\ TypeOK
  /\ phase = "start" => ~isMin /\ ~neg /\ x = 0 /\ exact = 0
  /\ Reading
  /\ ExactOrRefused
  /\ phase = "more" => error = "RESULT_OUT_OF_RANGE"
  /\ phase \in {"start", "first"} => error = "INVALID_ARGUMENT"
                                     /\ exact = 0 /\ ~isMin

USE DEF Min, Type, Digits

LEMMA Width ==
  ASSUME type \in Types
  PROVE  /\ Signed \in BOOLEAN
         /\ Max \in Nat /\ Max >= 9
         /\ Signed => Max % 10 # 9
BY TypeAssumption DEF Signed, Max

LEMMA SameType ==
  ASSUME UNCHANGED type
  PROVE  Signed' = Signed /\ Max' = Max
BY DEF Signed, Max

\* A number that the check against Max \div 10 stops is beyond the least
\* value too: 2^k - 1 does not end in a 9.
LEMMA TenfoldBeyond ==
  ASSUME type \in Types, NEW n \in Nat, n > Max \div 10
  PROVE  10 * n > Max /\ (Signed => 10 * n > Max + 1)
<1>1. Max \in Nat /\ (Signed => Max % 10 # 9)
  BY Width
<1>2. Max = 10 * (Max \div 10) + (Max % 10) /\ Max % 10 \in 0 .. 9
      /\ Max \div 10 \in Nat
  BY <1>1
<1>3. n >= Max \div 10 + 1
  BY <1>2
<1> QED
  BY <1>1, <1>2, <1>3

LEMMA InvInit == Init => Inv
<1> SUFFICES ASSUME Init PROVE Inv
  OBVIOUS
<1>1. type \in Types /\ 0 \in Min .. Max /\ 0 \in Nat
  BY Width DEF Init
<1> QED
  BY <1>1 DEF Init, Inv, TypeOK, Reading, ExactOrRefused

\* A digit is refused only when the number with it is beyond the type, and
\* taken only when it is within.
LEMMA DigitKeepsInv ==
  ASSUME Inv, NEW d \in Digits, Digit(d), UNCHANGED type
  PROVE  Inv'
<1> DEFINE refused == NoRoomForDigit \/ DoesNotFit(10 * x, d)
<1>1. /\ type \in Types /\ type' = type
      /\ Max \in Nat /\ Max >= 9 /\ Signed \in BOOLEAN
      /\ Max' = Max /\ Signed' = Signed
      /\ x \in Type /\ exact \in Nat /\ d \in 0 .. 9
      /\ phase = "more" /\ exact' = 10 * exact + d
      /\ neg \in BOOLEAN /\ isMin \in BOOLEAN /\ value \in Type
      /\ neg' = neg /\ value' = value /\ error' = error
      /\ error \in {"INVALID_ARGUMENT", "RESULT_OUT_OF_RANGE", "OK"}
      /\ Reading
  BY Width, SameType DEF Digit, Inv, TypeOK
<1>2. error = "RESULT_OUT_OF_RANGE" /\ exact' \in Nat
  BY <1>1 DEF Inv
<1>3. CASE refused
  <2>1. phase' = "done" /\ x' = x /\ isMin' = isMin
    BY <1>3 DEF Digit
  <2>2. CASE isMin
    BY <1>1, <1>2, <2>1, <2>2
    DEF Inv, TypeOK, Reading, ExactOrRefused, Written
  <2>3. CASE ~isMin /\ x > Max \div 10
    BY <1>1, <1>2, <2>1, <2>3, TenfoldBeyond
    DEF Inv, TypeOK, Reading, ExactOrRefused, Written
  <2>4. CASE ~isMin /\ DoesNotFit(10 * x, d)
    BY <1>1, <1>2, <2>1, <2>4
    DEF Inv, TypeOK, Reading, ExactOrRefused, Written, DoesNotFit
  <2> QED
    BY <1>3, <2>2, <2>3, <2>4 DEF NoRoomForDigit
<1>4. CASE ~refused
  <2>1. /\ phase' = "more" /\ ~isMin /\ x = exact
        /\ isMin' = (Signed /\ -10 * x = Min + d)
        /\ IF 10 * x + d <= Max THEN x' = 10 * x + d ELSE x' \in Type
        /\ ~DoesNotFit(10 * x, d)
    BY <1>1, <1>4 DEF Digit, NoRoomForDigit, Reading
  <2>2. exact' <= Max + 1 /\ (~neg => exact' <= Max)
    BY <1>1, <2>1 DEF DoesNotFit, Reading
  <2>3. isMin' <=> exact' = Max + 1
    BY <1>1, <2>1, <2>2 DEF DoesNotFit, Reading
  <2>4. x' \in Type /\ (~isMin' => x' = exact')
    BY <1>1, <2>1, <2>2, <2>3
  <2> QED
    BY <1>1, <1>2, <2>1, <2>2, <2>3, <2>4
    DEF Inv, TypeOK, Reading, ExactOrRefused
<1> QED
  BY <1>3, <1>4

LEMMA InvNext == Inv /\ [Next]_vars => Inv'
<1> SUFFICES ASSUME Inv, [Next]_vars PROVE Inv'
  OBVIOUS
<1>0. UNCHANGED type /\ type \in Types
  BY DEF Next, vars, Inv, TypeOK
<1> USE <1>0, Width, SameType
<1>1. ASSUME NEW s \in {"none", "+", "-"}, Sign(s) PROVE Inv'
  BY <1>1 DEF Sign, Inv, TypeOK, Reading, ExactOrRefused
<1>2. CASE NoNumber
  BY <1>2 DEF NoNumber, Inv, TypeOK, Reading, ExactOrRefused
<1>3. ASSUME NEW d \in Digits, FirstDigit(d) PROVE Inv'
  BY <1>3 DEF FirstDigit, Inv, TypeOK, Reading, ExactOrRefused
<1>4. ASSUME NEW d \in Digits, Digit(d) PROVE Inv'
  BY <1>0, <1>4, DigitKeepsInv
<1>5. CASE EndOfNumber
  BY <1>5 DEF EndOfNumber, Inv, TypeOK, Reading, ExactOrRefused, Written
<1>6. CASE UNCHANGED vars
  BY <1>6 DEF vars, Inv, TypeOK, Reading, ExactOrRefused, Written
<1> QED
  BY <1>1, <1>2, <1>3, <1>4, <1>5, <1>6 DEF Next

\* Everything from_chars computes fits the type it reads, whatever its width.
THEOREM TypeCorrect == Spec => []TypeOK
<1>1. Inv => TypeOK
  BY DEF Inv
<1> QED
  BY <1>1, InvInit, InvNext, PTL DEF Spec

\* For a type of every width: the text is read as the number it writes, or
\* that number is not one of the type.
THEOREM ReadsExactly == Spec => []ExactOrRefused
<1>1. Inv => ExactOrRefused
  BY DEF Inv
<1> QED
  BY <1>1, InvInit, InvNext, PTL DEF Spec

-----------------------------------------------------------------------------
\* What the two recursive functions are.
TensTurn(ten) == [n \in Nat |-> IF n = 0 THEN 1 ELSE 10 * ten[n - 1]]
UpTurn(up) == [n \in Nat |-> IF n = 0 THEN << >> ELSE <<n % 10>> \o up[n \div 10]]

LEMMA PowersOfTen ==
  /\ PowerOfTen \in [Nat -> Nat]
  /\ PowerOfTen[0] = 1
  /\ \A n \in Nat : PowerOfTen[n + 1] = 10 * PowerOfTen[n]
<1> DEFINE rank == [n \in Nat |-> n]
           prev == [n \in Nat |-> IF n = 0 THEN 0 ELSE n - 1]
           base == [n \in Nat |-> 1]
           step == [nv \in Nat \X Nat |-> 10 * nv[2]]
<1>1. /\ rank \in [Nat -> Nat] /\ prev \in [Nat -> Nat] /\ base \in [Nat -> Nat]
      /\ step \in [Nat \X Nat -> Nat]
      /\ \A n \in Nat : rank[n] > 0 => rank[prev[n]] < rank[n]
  OBVIOUS
<1>2. PICK ten \in [Nat -> Nat] : Recurses(ten, Nat, rank, prev, base, step)
  <2> HIDE DEF rank, prev, base, step
  <2> QED BY <1>1, RecursiveFunction
<1>3. ASSUME NEW n \in Nat PROVE ten[n] = IF n = 0 THEN 1 ELSE 10 * ten[n - 1]
  <2>1. ten[n] = IF rank[n] = 0 THEN base[n] ELSE step[<<n, ten[prev[n]]>>]
    BY <1>2 DEF Recurses
  <2>2. CASE n = 0
    BY <2>1, <2>2
  <2>3. CASE n > 0
    <3>1. n - 1 \in Nat /\ ten[n - 1] \in Nat /\ prev[n] = n - 1
      BY <2>3
    <3>2. step[<<n, ten[n - 1]>>] = 10 * ten[n - 1]
      BY <3>1
    <3> HIDE DEF step, prev
    <3> QED BY <2>1, <2>3, <3>1, <3>2
  <2> QED BY <2>2, <2>3
<1>4. ten = TensTurn(ten)
  BY <1>3 DEF TensTurn
<1>5. PowerOfTen = CHOOSE f : f = TensTurn(f)
  BY DEF PowerOfTen, TensTurn
<1>6. PowerOfTen = TensTurn(PowerOfTen)
  BY <1>4, <1>5
<1> DEFINE T == {n \in Nat : PowerOfTen[n] \in Nat}
<1>7. \A n \in Nat : PowerOfTen[n] = IF n = 0 THEN 1 ELSE 10 * PowerOfTen[n - 1]
  BY <1>6 DEF TensTurn
<1>8. 0 \in T /\ \A n \in Nat : n \in T => n + 1 \in T
  BY <1>7
<1>9. Nat \subseteq T
  <2> HIDE DEF T
  <2> QED BY <1>8, NaturalInduction
<1>10. PowerOfTen \in [Nat -> Nat]
  BY <1>6, <1>9 DEF TensTurn
<1> QED BY <1>7, <1>10

LEMMA DigitsUpUnfolds ==
  \A n \in Nat : Printer!DigitsUp[n] =
    IF n = 0 THEN << >> ELSE <<n % 10>> \o Printer!DigitsUp[n \div 10]
<1> DEFINE rank == [n \in Nat |-> n]
           prev == [n \in Nat |-> n \div 10]
           V == Seq(Digits)
           base == [n \in Nat |-> << >>]
           step == [nv \in Nat \X V |-> <<nv[1] % 10>> \o nv[2]]
<1>1. rank \in [Nat -> Nat] /\ prev \in [Nat -> Nat]
  OBVIOUS
<1>2. base \in [Nat -> V]
  OBVIOUS
<1>3. step \in [Nat \X V -> V]
  <2> SUFFICES ASSUME NEW n \in Nat, NEW s \in V PROVE <<n % 10>> \o s \in V
    OBVIOUS
  <2>1. n % 10 \in Digits
    BY DEF Digits
  <2> QED BY <2>1
<1>4. \A n \in Nat : rank[n] > 0 => rank[prev[n]] < rank[n]
  OBVIOUS
<1>5. PICK up \in [Nat -> V] : Recurses(up, Nat, rank, prev, base, step)
  <2> HIDE DEF rank, prev, base, step, V
  <2> QED BY <1>1, <1>2, <1>3, <1>4, RecursiveFunction
<1>6. ASSUME NEW n \in Nat
      PROVE  up[n] = IF n = 0 THEN << >> ELSE <<n % 10>> \o up[n \div 10]
  <2>1. n \div 10 \in Nat /\ up[n \div 10] \in V
    OBVIOUS
  <2>2. up[n] = IF rank[n] = 0 THEN base[n] ELSE step[<<n, up[prev[n]]>>]
    BY <1>5 DEF Recurses
  <2> HIDE DEF V
  <2> QED BY <2>1, <2>2
<1>7. up = UpTurn(up)
  <2> HIDE DEF V
  <2> QED BY <1>6 DEF UpTurn
<1>8. Printer!DigitsUp = CHOOSE f : f = UpTurn(f)
  BY DEF Printer!DigitsUp, UpTurn
<1>9. Printer!DigitsUp = UpTurn(Printer!DigitsUp)
  BY <1>7, <1>8
<1> QED BY <1>9 DEF UpTurn

\* v[i] is the number that the first i digits write.
Spells(v, digits, n) ==
  /\ v \in [0 .. Len(digits) -> 0 .. n]
  /\ v[0] = 0 /\ v[Len(digits)] = n
  /\ \A i \in 1 .. Len(digits) : v[i] = 10 * v[i - 1] + digits[i]

\* A number is put down completely, in no more digits than there are to the
\* least power of ten above it.
PutDown(n) ==
  /\ Printer!DigitsUp[n] \in Seq(Digits)
  /\ \E v : Spells(v, Printer!InOrder(Printer!DigitsUp[n]), n)
  /\ \A k \in Nat : n < PowerOfTen[k] => Len(Printer!DigitsUp[n]) <= k

LEMMA InOrderFacts ==
  ASSUME NEW up \in Seq(Digits)
  PROVE  /\ Printer!InOrder(up) \in Seq(Digits)
         /\ Len(Printer!InOrder(up)) = Len(up)
         /\ \A i \in 1 .. Len(up) : Printer!InOrder(up)[i] = up[Len(up) - i + 1]
<1>1. Printer!InOrder(up) = [i \in 1 .. Len(up) |-> up[Len(up) - i + 1]]
  BY DEF Printer!InOrder, Printer!Ext!Reverse
<1>2. \A i \in 1 .. Len(up) : up[Len(up) - i + 1] \in Digits
  OBVIOUS
<1> QED BY <1>1, <1>2

LEMMA ZeroPutDown == PutDown(0)
<1>1. Printer!DigitsUp[0] = << >>
  BY DigitsUpUnfolds
<1>2. Len(Printer!InOrder(<< >>)) = 0
  <2>1. << >> \in Seq(Digits) /\ Len(<< >>) = 0
    OBVIOUS
  <2> QED BY <2>1, InOrderFacts
<1>3. Spells([i \in 0 .. 0 |-> 0], Printer!InOrder(<< >>), 0)
  BY <1>2 DEF Spells
<1> QED BY <1>1, <1>3 DEF PutDown

LEMMA MorePutDown ==
  ASSUME NEW n \in Nat, n > 0, PutDown(n \div 10)
  PROVE  PutDown(n)
<1> DEFINE m == n \div 10
           up == Printer!DigitsUp[n]
           less == Printer!DigitsUp[m]
           digits == Printer!InOrder(up)
           fewer == Printer!InOrder(less)
           k == Len(less)
<1>1. /\ m \in Nat /\ n = 10 * m + (n % 10) /\ n % 10 \in Digits /\ m <= n
      /\ up = <<n % 10>> \o less /\ less \in Seq(Digits) /\ k \in Nat
  <2>1. /\ m \in Nat /\ n = 10 * m + (n % 10) /\ n % 10 \in Digits /\ m <= n
    BY DEF Digits
  <2>2. up = <<n % 10>> \o less
    <3>1. Printer!DigitsUp[n] =
            IF n = 0 THEN << >> ELSE <<n % 10>> \o Printer!DigitsUp[n \div 10]
      BY DigitsUpUnfolds
    <3> QED BY <3>1
  <2>3. less \in Seq(Digits)
    BY DEF PutDown
  <2> QED BY <2>1, <2>2, <2>3
<1>2. PICK v : Spells(v, fewer, m)
  BY DEF PutDown
<1> HIDE DEF m, up, less
<1>3. /\ up \in Seq(Digits) /\ Len(up) = k + 1 /\ up[1] = n % 10
      /\ \A i \in 1 .. k : up[i + 1] = less[i]
  BY <1>1
<1>4. /\ Len(digits) = k + 1 /\ Len(fewer) = k /\ digits[k + 1] = n % 10
      /\ \A i \in 1 .. k : digits[i] = fewer[i]
  <2>1. /\ Len(digits) = k + 1 /\ Len(fewer) = k
        /\ \A i \in 1 .. k + 1 : digits[i] = up[k + 1 - i + 1]
        /\ \A i \in 1 .. k : fewer[i] = less[k - i + 1]
    <3>1. /\ Len(digits) = Len(up)
          /\ \A i \in 1 .. Len(up) : digits[i] = up[Len(up) - i + 1]
      BY <1>3, InOrderFacts
    <3>2. /\ Len(fewer) = k
          /\ \A i \in 1 .. k : fewer[i] = less[k - i + 1]
      BY <1>1, InOrderFacts
    <3> HIDE DEF digits, fewer, k
    <3> QED BY <1>3, <3>1, <3>2
  <2> HIDE DEF digits, fewer, k
  <2>2. ASSUME NEW i \in 1 .. k PROVE digits[i] = fewer[i]
    <3>1. /\ k - i + 1 \in 1 .. k /\ k + 1 - i + 1 = (k - i + 1) + 1
          /\ i \in 1 .. k + 1
      BY <1>1
    <3>2. digits[i] = up[k + 1 - i + 1] /\ fewer[i] = less[k - i + 1]
      BY <2>1, <3>1
    <3>3. up[(k - i + 1) + 1] = less[k - i + 1]
      BY <1>3, <3>1
    <3> QED BY <3>1, <3>2, <3>3
  <2>3. digits[k + 1] = up[1]
    BY <1>1, <2>1
  <2> QED BY <1>3, <2>1, <2>2, <2>3
<1> HIDE DEF k, digits, fewer
<1> DEFINE w == [i \in 0 .. k + 1 |-> IF i = k + 1 THEN n ELSE v[i]]
<1>5. /\ v \in [0 .. k -> 0 .. m] /\ v[0] = 0 /\ v[k] = m
      /\ \A i \in 1 .. k : v[i] = 10 * v[i - 1] + fewer[i]
  BY <1>2, <1>4 DEF Spells
<1>6. w \in [0 .. k + 1 -> 0 .. n] /\ w[0] = 0 /\ w[k + 1] = n
  BY <1>1, <1>5
<1>7. ASSUME NEW i \in 1 .. k + 1 PROVE w[i] = 10 * w[i - 1] + digits[i]
  <2>1. CASE i = k + 1
    BY <1>1, <1>4, <1>5, <2>1
  <2>2. CASE i \in 1 .. k
    BY <1>1, <1>4, <1>5, <2>2
  <2> QED BY <1>1, <2>1, <2>2
<1>8. Spells(w, digits, n)
  <2> HIDE DEF w
  <2> QED BY <1>4, <1>6, <1>7 DEF Spells
<1>9. ASSUME NEW j \in Nat, n < PowerOfTen[j] PROVE Len(up) <= j
  <2>1. CASE j = 0
    BY <1>9, <2>1, PowersOfTen
  <2>2. CASE j > 0
    <3>1. /\ j - 1 \in Nat /\ PowerOfTen[j - 1] \in Nat
          /\ PowerOfTen[(j - 1) + 1] = 10 * PowerOfTen[j - 1]
      BY <2>2, PowersOfTen
    <3>2. m < PowerOfTen[j - 1]
      <4> DEFINE p == PowerOfTen[j - 1]
                 r == n % 10
      <4>1. /\ p \in Nat /\ m \in Nat /\ n \in Nat /\ r \in 0 .. 9
            /\ n = 10 * m + r /\ n < 10 * p
        <5>1. (j - 1) + 1 = j
          BY <2>2
        <5> QED BY <1>1, <1>9, <3>1, <5>1 DEF Digits
      <4> HIDE DEF p, r, m
      <4>2. m < p
        BY ONLY <4>1
      <4> QED BY <4>2 DEF p
    <3>3. k <= j - 1
      BY <3>1, <3>2 DEF PutDown, k, less, m
    <3> QED BY <1>1, <1>3, <3>1, <3>3
  <2> QED BY <2>1, <2>2
<1> QED BY <1>3, <1>8, <1>9 DEF PutDown, up, digits

LEMMA EveryNumberPutDown == \A n \in Nat : PutDown(n)
<1> DEFINE T == {n \in Nat : \A m \in 0 .. n : PutDown(m)}
<1>1. 0 \in T
  BY ZeroPutDown
<1>2. ASSUME NEW n \in Nat, n \in T PROVE n + 1 \in T
  <2>1. (n + 1) \div 10 \in 0 .. n
    OBVIOUS
  <2>2. PutDown(n + 1)
    BY <1>2, <2>1, MorePutDown
  <2> QED BY <1>2, <2>2
<1>3. Nat \subseteq T
  <2> HIDE DEF T
  <2> QED BY <1>1, <1>2, NaturalInduction
<1> QED BY <1>3

-----------------------------------------------------------------------------
(***************************************************************************)
(* A value printed and read back.                                          *)
(***************************************************************************)

Size(n) == IF n < 0 THEN -n ELSE n

\* The digits put down for a value are those of its size, the least value of a
\* signed type included, whose opposite the code cannot compute.
LEMMA MagnitudeOfValue ==
  ASSUME type \in Types, NEW n \in Type, Signed
  PROVE  Printer!Magnitude(n) = Printer!DigitsUp[Size(n)]
<1>1. /\ Max \in Nat /\ Max >= 9 /\ Max % 10 # 9
      /\ n \in -Max - 1 .. Max /\ Printer!Min = -Max - 1
  BY Width DEF Type, Min, Printer!Min
<1>2. CASE n = Printer!Min
  <2> DEFINE up == Printer!DigitsUp[Max]
             less == Printer!DigitsUp[Max \div 10]
  <2>1. /\ Max % 10 \in Nat /\ Max \div 10 \in Nat /\ Max # 0 /\ Max + 1 # 0
        /\ (Max + 1) % 10 = (Max % 10) + 1 /\ (Max + 1) \div 10 = Max \div 10
        /\ Max + 1 \in Nat /\ Size(n) = Max + 1
    BY <1>1, <1>2 DEF Size
  <2>2. up = <<Max % 10>> \o less
    <3>1. up = IF Max = 0 THEN << >> ELSE <<Max % 10>> \o Printer!DigitsUp[Max \div 10]
      BY <1>1, DigitsUpUnfolds
    <3> QED BY <2>1, <3>1
  <2>3. Printer!DigitsUp[Max + 1] = <<(Max % 10) + 1>> \o less
    <3>1. Printer!DigitsUp[Max + 1] =
            IF Max + 1 = 0 THEN << >>
            ELSE <<(Max + 1) % 10>> \o Printer!DigitsUp[(Max + 1) \div 10]
      BY <2>1, DigitsUpUnfolds
    <3> QED BY <2>1, <3>1
  <2>4. less \in Seq(Digits)
    BY <2>1, EveryNumberPutDown DEF PutDown
  <2> HIDE DEF up, less
  <2>5. up[1] = Max % 10 /\ Tail(up) = less
    BY <2>1, <2>2, <2>4
  <2>6. Printer!Magnitude(n) = <<up[1] + 1>> \o Tail(up)
    BY <1>2 DEF Printer!Magnitude, up
  <2> QED BY <2>1, <2>3, <2>5, <2>6
<1>3. CASE n # Printer!Min
  BY <1>3 DEF Printer!Magnitude, Size
<1> QED BY <1>2, <1>3

\* What to_chars stores whole: the sign and the digits of the value.
Whole(c, n) ==
  /\ c.sign \in {"-", "none"}
  /\ c.sign = "-" <=> n < 0
  /\ c.digits \in Seq(Digits) /\ Len(c.digits) >= 1
  /\ \E v : Spells(v, c.digits, Size(n))

StoredWhole(c, n, r) ==
  /\ c.stored <= r
  /\ r >= ResultMaxLen => c.error = "OK"
  /\ c.error = "OK" => Whole(c, n)

LEMMA PutStores ==
  ASSUME type \in Types, NEW n \in Type, n # 0, NEW r \in Nat, r > 0,
         NEW sign, NEW signs \in {0, 1},
         sign = IF n < 0 THEN "-" ELSE "none",
         signs = IF n < 0 THEN 1 ELSE 0
  PROVE  StoredWhole(Printer!Put(sign, signs, Printer!DigitsUp[Size(n)], r), n, r)
<1> DEFINE big == Size(n)
           up == Printer!DigitsUp[big]
           digits == Printer!InOrder(up)
           c == Printer!Put(sign, signs, up, r)
<1>1. /\ Max \in Nat /\ Signed \in BOOLEAN /\ big \in Nat /\ big # 0
      /\ big <= Max + 1 /\ (n < 0 => Signed) /\ (~Signed => big <= Max)
  BY Width DEF Type, Min, Size
<1>2. PutDown(big)
  BY <1>1, EveryNumberPutDown
<1>3. /\ up \in Seq(Digits) /\ \E v : Spells(v, digits, big)
      /\ \A k \in Nat : big < PowerOfTen[k] => Len(up) <= k
  BY <1>2 DEF PutDown
<1>4. Len(up) >= 1
  <2>1. up = IF big = 0 THEN << >> ELSE <<big % 10>> \o Printer!DigitsUp[big \div 10]
    BY <1>1, DigitsUpUnfolds
  <2>2. big \div 10 \in Nat /\ big % 10 \in Nat
    BY <1>1
  <2>3. Printer!DigitsUp[big \div 10] \in Seq(Digits)
    BY <2>2, EveryNumberPutDown DEF PutDown
  <2> HIDE DEF up, big
  <2> QED BY <1>1, <2>1, <2>2, <2>3
<1>5. digits \in Seq(Digits) /\ Len(digits) = Len(up)
  BY <1>3, InOrderFacts
<1>6. r >= ResultMaxLen => signs < r /\ signs + Len(up) <= r
  <2> SUFFICES ASSUME r >= ResultMaxLen PROVE signs < r /\ signs + Len(up) <= r
    OBVIOUS
  <2>1. /\ ResultMaxLen \in Nat \ {0}
        /\ IF Signed THEN Max + 1 < PowerOfTen[ResultMaxLen - 1]
                     ELSE Max < PowerOfTen[ResultMaxLen]
    BY RoomAssumption DEF Signed, Max
  <2>2. /\ ResultMaxLen - 1 \in Nat
        /\ PowerOfTen[ResultMaxLen - 1] \in Nat /\ PowerOfTen[ResultMaxLen] \in Nat
    BY <2>1, PowersOfTen
  <2>3. Len(up) \in Nat
    BY <1>3
  <2> HIDE DEF up, big
  <2>4. CASE Signed
    <3>1. big < PowerOfTen[ResultMaxLen - 1]
      BY <1>1, <2>1, <2>2, <2>4
    <3>2. Len(up) <= ResultMaxLen - 1
      BY <1>3, <2>2, <3>1
    <3> QED BY <1>4, <2>1, <2>3, <3>2
  <2>5. CASE ~Signed
    <3>1. big < PowerOfTen[ResultMaxLen]
      BY <1>1, <2>1, <2>2, <2>5
    <3>2. Len(up) <= ResultMaxLen
      BY <1>3, <2>1, <3>1
    <3> QED BY <1>1, <1>4, <2>1, <2>3, <2>5, <3>2
  <2> QED BY <1>1, <2>4, <2>5
<1>7. CASE signs < r /\ signs + Len(up) <= r
  <2>1. c = [error |-> "OK", stored |-> signs + Len(up), sign |-> sign, digits |-> digits]
    BY <1>7 DEF Printer!Put, Printer!DigitsFit, Printer!Chars
  <2> HIDE DEF digits, c, up, big
  <2>2. Whole(c, n)
    BY <1>3, <1>4, <1>5, <2>1 DEF Whole, big
  <2>3. c.error = "OK" /\ c.stored = signs + Len(up)
    BY ONLY <2>1
  <2>4. StoredWhole(c, n, r)
    BY <1>7, <2>2, <2>3 DEF StoredWhole
  <2> QED BY <2>4 DEF c, up, big
<1>8. CASE ~(signs < r /\ signs + Len(up) <= r)
  <2>1. c = [error |-> "VALUE_TOO_LARGE", stored |-> signs, sign |-> sign, digits |-> << >>]
    BY <1>8 DEF Printer!Put, Printer!DigitsFit, Printer!Chars, Printer!NoDigits
  <2> HIDE DEF c, up, big
  <2>2. c.error # "OK" /\ c.stored = signs
    BY ONLY <2>1
  <2>3. signs <= r
    OBVIOUS
  <2>4. StoredWhole(c, n, r)
    BY <1>6, <1>8, <2>2, <2>3 DEF StoredWhole
  <2> QED BY <2>4 DEF c, up, big
<1> QED BY <1>7, <1>8

LEMMA ToCharsStores ==
  ASSUME type \in Types, NEW n \in Type, NEW r \in Nat
  PROVE  StoredWhole(Printer!to_chars(n, r), n, r)
<1>1. Max \in Nat /\ Signed \in BOOLEAN /\ n \in Int /\ (n < 0 => Signed)
  BY Width DEF Type, Min
<1>2. CASE r = 0
  <2>1. Printer!to_chars(n, r) = Printer!NoRoom
    BY <1>1, <1>2 DEF Printer!to_chars, Printer!to_chars_signed, Printer!to_chars_unsigned
  <2> QED BY <1>2, <2>1, RoomAssumption DEF StoredWhole, Printer!NoRoom, Printer!Chars
<1>3. CASE r > 0 /\ n = 0
  <2>1. Printer!to_chars(n, r) = [error |-> "OK", stored |-> 1, sign |-> "none", digits |-> <<0>>]
    BY <1>1, <1>3 DEF Printer!to_chars, Printer!to_chars_signed,
                      Printer!to_chars_unsigned, Printer!Zero, Printer!Chars
  <2>2. Spells([i \in 0 .. 1 |-> 0], <<0>>, 0)
    BY DEF Spells
  <2>3. Whole([error |-> "OK", stored |-> 1, sign |-> "none", digits |-> <<0>>], n)
    BY <1>3, <2>2 DEF Whole, Size, Digits
  <2> QED BY <1>3, <2>1, <2>3 DEF StoredWhole
<1>4. CASE r > 0 /\ n # 0
  <2> DEFINE sign == IF n < 0 THEN "-" ELSE "none"
             signs == IF n < 0 THEN 1 ELSE 0
  <2>1. StoredWhole(Printer!Put(sign, signs, Printer!DigitsUp[Size(n)], r), n, r)
    <3>1. signs \in {0, 1}
      OBVIOUS
    <3> QED BY <1>4, <3>1, PutStores
  <2>2. CASE n < 0
    <3>1. Printer!to_chars(n, r) = Printer!Put("-", 1, Printer!Magnitude(n), r)
      BY <1>1, <1>4, <2>2 DEF Printer!to_chars, Printer!to_chars_signed
    <3>2. Printer!Magnitude(n) = Printer!DigitsUp[Size(n)]
      BY <1>1, <2>2, MagnitudeOfValue
    <3> QED BY <2>1, <2>2, <3>1, <3>2
  <2>3. CASE n > 0 /\ Signed
    <3>1. Printer!to_chars(n, r) = Printer!Put("none", 0, Printer!Magnitude(n), r)
      BY <1>1, <1>4, <2>3 DEF Printer!to_chars, Printer!to_chars_signed
    <3>2. Printer!Magnitude(n) = Printer!DigitsUp[Size(n)]
      BY <1>1, <2>3, MagnitudeOfValue
    <3> QED BY <1>1, <2>1, <2>3, <3>1, <3>2
  <2>4. CASE n > 0 /\ ~Signed
    <3>1. Printer!to_chars(n, r) = Printer!Put("none", 0, Printer!DigitsUp[n], r)
      BY <1>1, <1>4, <2>4 DEF Printer!to_chars, Printer!to_chars_unsigned
    <3>2. Size(n) = n /\ sign = "none" /\ signs = 0
      BY <1>1, <2>4 DEF Size
    <3> QED BY <2>1, <3>1, <3>2
  <2> QED BY <1>1, <1>4, <2>2, <2>3, <2>4
<1> QED BY <1>2, <1>3, <1>4

-----------------------------------------------------------------------------
\* The text does not change while it is read.
Printing ==
  /\ room \in Nat /\ printed \in Type
  /\ StoredWhole(chars, printed, room)
  /\ chars.error = "OK" => room # 0

\* How much of the text was read, and what was made of it.
ReadSoFar(v) ==
  LET nb   == Len(chars.digits)
      left == Len(rest)
  IN  /\ rest \in Seq(Digits) /\ left <= nb
      /\ \A i \in 1 .. left : rest[i] = chars.digits[nb - left + i]
      /\ phase \in {"start", "first"} => left = nb
      /\ phase \in {"first", "more"} => (neg <=> printed < 0)
      /\ phase = "more" => exact = v[nb - left]
      /\ phase = "done" => error = "OK" /\ value = printed

ConvInv ==
  /\ Inv
  /\ Printing
  /\ chars.error = "OK" =>
       \E v : Spells(v, chars.digits, Size(printed)) /\ ReadSoFar(v)

LEMMA PrintedWhole ==
  ASSUME Printing, type \in Types, chars.error = "OK"
  PROVE  Whole(chars, printed)
BY DEF Printing, StoredWhole

LEMMA ConvInitInv == PrintInit => ConvInv
<1> SUFFICES ASSUME PrintInit PROVE ConvInv
  OBVIOUS
<1>1. Inv /\ type \in Types
  BY InvInit DEF PrintInit, Init
<1>2. Printing
  <2>1. 0 \in Type /\ MaxRoom \in Nat
    BY <1>1, Width, RoomAssumption DEF Type, Min
  <2>2. room \in Nat /\ printed \in Type
    BY <2>1 DEF PrintInit
  <2>3. chars = Printer!to_chars(printed, room)
    BY DEF PrintInit
  <2>4. room = 0 => chars.error = "INVALID_ARGUMENT"
    <3> SUFFICES ASSUME room = 0 PROVE chars.error = "INVALID_ARGUMENT"
      OBVIOUS
    <3>1. Signed \in BOOLEAN
      BY <1>1, Width
    <3>2. Printer!to_chars(printed, room) = Printer!NoRoom
      BY <3>1 DEF Printer!to_chars, Printer!to_chars_signed, Printer!to_chars_unsigned
    <3> QED BY <2>3, <3>2 DEF Printer!NoRoom, Printer!Chars
  <2> QED BY <1>1, <2>2, <2>3, <2>4, ToCharsStores DEF Printing
<1>3. ASSUME chars.error = "OK"
      PROVE  \E v : Spells(v, chars.digits, Size(printed)) /\ ReadSoFar(v)
  <2>1. Whole(chars, printed)
    BY <1>1, <1>2, <1>3, PrintedWhole
  <2>2. PICK v : Spells(v, chars.digits, Size(printed))
    BY <2>1 DEF Whole
  <2>3. rest = chars.digits /\ chars.digits \in Seq(Digits) /\ phase = "start"
    BY <2>1 DEF PrintInit, Init, Whole
  <2>4. ReadSoFar(v)
    BY <2>3 DEF ReadSoFar
  <2> QED BY <2>2, <2>4
<1> QED BY <1>1, <1>2, <1>3 DEF ConvInv

\* One more digit of the text is read.
LEMMA OneRead ==
  ASSUME Printing, type \in Types, chars.error = "OK",
         NEW v, Spells(v, chars.digits, Size(printed)), ReadSoFar(v),
         rest # << >>
  PROVE  LET nb   == Len(chars.digits)
             left == Len(rest)
             then == SubSeq(rest, 2, Len(rest))
         IN  /\ Head(rest) \in Digits /\ left >= 1
             /\ then \in Seq(Digits) /\ Len(then) = left - 1
             /\ \A i \in 1 .. left - 1 : then[i] = chars.digits[nb - (left - 1) + i]
             /\ nb - left \in 0 .. nb /\ nb - left + 1 \in 1 .. nb
             /\ v[nb - left + 1] = 10 * v[nb - left] + Head(rest)
             /\ v[nb - left + 1] \in 0 .. Size(printed)
             /\ v[0] = 0
<1> DEFINE nb == Len(chars.digits)
           left == Len(rest)
           then == SubSeq(rest, 2, Len(rest))
<1>1. /\ rest \in Seq(Digits) /\ left <= nb /\ left \in Nat
      /\ \A i \in 1 .. left : rest[i] = chars.digits[nb - left + i]
  BY DEF ReadSoFar
<1>2. chars.digits \in Seq(Digits) /\ nb \in Nat
  BY PrintedWhole DEF Whole
<1>3. /\ left >= 1 /\ Head(rest) = rest[1] /\ rest[1] \in Digits
      /\ then \in Seq(Digits) /\ Len(then) = left - 1
      /\ \A i \in 1 .. left - 1 : then[i] = rest[i + 1]
  <2>1. left >= 1 /\ Head(rest) = rest[1] /\ rest[1] \in Digits
    BY <1>1
  <2>2. then = [i \in 1 .. left - 1 |-> rest[i + 1]]
    BY <1>1, <2>1
  <2>3. \A i \in 1 .. left - 1 : rest[i + 1] \in Digits
    BY <1>1
  <2>4. then \in Seq(Digits) /\ Len(then) = left - 1
    <3>1. left - 1 \in Nat
      BY <1>1, <2>1
    <3> HIDE DEF then, left
    <3> QED BY <2>2, <2>3, <3>1
  <2> HIDE DEF then
  <2> QED BY <2>1, <2>2, <2>4
<1>4. nb - left \in 0 .. nb /\ nb - left + 1 \in 1 .. nb
  BY <1>1, <1>2, <1>3
<1>5. ASSUME NEW i \in 1 .. left - 1
      PROVE  then[i] = chars.digits[nb - (left - 1) + i]
  <2> HIDE DEF nb, left, then
  <2>1. i + 1 \in 1 .. left /\ nb - left + (i + 1) = nb - (left - 1) + i
    BY <1>1, <1>2
  <2> QED BY <1>1, <1>3, <2>1
<1>6. /\ v \in [0 .. nb -> 0 .. Size(printed)] /\ v[0] = 0
      /\ \A i \in 1 .. nb : v[i] = 10 * v[i - 1] + chars.digits[i]
  BY DEF Spells
<1> HIDE DEF nb, left, then
<1>7. v[nb - left + 1] = 10 * v[nb - left] + Head(rest)
  <2>1. (nb - left + 1) - 1 = nb - left /\ 1 \in 1 .. left
    BY <1>1, <1>2, <1>3
  <2>2. v[nb - left + 1] = 10 * v[(nb - left + 1) - 1] + chars.digits[nb - left + 1]
    BY <1>4, <1>6
  <2>3. rest[1] = chars.digits[nb - left + 1]
    BY <1>1, <2>1
  <2> QED BY <1>3, <2>1, <2>2, <2>3
<1>8. v[nb - left + 1] \in 0 .. Size(printed)
  BY <1>4, <1>6
<1> QED BY <1>3, <1>4, <1>5, <1>6, <1>7, <1>8 DEF nb, left, then

LEMMA ReadKept ==
  ASSUME ConvInv, Inv', UNCHANGED <<type, textVars>>, ReadBack, chars.error = "OK",
         NEW v, Spells(v, chars.digits, Size(printed)), ReadSoFar(v)
  PROVE  ReadSoFar(v)'
<1> DEFINE nb == Len(chars.digits)
           left == Len(rest)
<1>1. /\ type \in Types /\ Printing /\ Inv
  BY DEF ConvInv, Inv, TypeOK
<1>2. /\ Max \in Nat /\ Signed \in BOOLEAN /\ printed \in Int
      /\ printed \in Min .. Max /\ (printed < 0 => Signed)
      /\ Max' = Max /\ Signed' = Signed /\ Min' = Min
      /\ Size(printed) = IF printed < 0 THEN -printed ELSE printed
  BY <1>1, Width, SameType DEF Printing, Type, Min, Size
<1>3. Whole(chars, printed)
  BY <1>1, PrintedWhole
<1>4. /\ chars.digits \in Seq(Digits) /\ nb \in Nat /\ nb >= 1
      /\ (chars.sign = "-" <=> printed < 0)
  BY <1>3 DEF Whole
<1>5. /\ rest \in Seq(Digits) /\ left <= nb /\ left \in Nat
      /\ \A i \in 1 .. left : rest[i] = chars.digits[nb - left + i]
      /\ phase \in {"start", "first"} => left = nb
      /\ phase \in {"first", "more"} => (neg <=> printed < 0)
      /\ phase = "more" => exact = v[nb - left]
  BY DEF ReadSoFar
<1>6. chars' = chars /\ printed' = printed
  BY DEF textVars
<1>7. CASE Sign(chars.sign) /\ Reads(0)
  <2>1. rest' = rest
    BY <1>5, <1>7 DEF Reads
  <2>2. /\ phase = "start" /\ phase' = "first" /\ neg' = (printed < 0)
    BY <1>2, <1>4, <1>7 DEF Sign
  <2> QED BY <1>5, <1>6, <2>1, <2>2 DEF ReadSoFar
<1>8. CASE rest # << >> /\ FirstDigit(Head(rest)) /\ Reads(1)
  <2>1. rest' = SubSeq(rest, 2, left)
    BY <1>8 DEF Reads
  <2>2. /\ phase = "first" /\ phase' = "more" /\ exact' = Head(rest) /\ neg' = neg
    BY <1>8 DEF FirstDigit
  <2>3. /\ left >= 1 /\ Head(rest) \in Digits
        /\ rest' \in Seq(Digits) /\ Len(rest') = left - 1
        /\ \A i \in 1 .. left - 1 : rest'[i] = chars.digits[nb - (left - 1) + i]
        /\ v[nb - left + 1] = 10 * v[nb - left] + Head(rest) /\ v[0] = 0
    BY <1>1, <1>8, <2>1, OneRead
  <2>4. exact' = v[nb - (left - 1)]
    <3>1. nb - left = 0 /\ nb - (left - 1) = nb - left + 1
      BY <1>4, <1>5, <2>2
    <3>2. Head(rest) \in Int
      BY <2>3 DEF Digits
    <3> HIDE DEF nb, left
    <3> QED BY <2>2, <2>3, <3>1, <3>2
  <2>5. left - 1 <= nb
    BY <1>4, <1>5
  <2> QED BY <1>5, <1>6, <2>2, <2>3, <2>4, <2>5 DEF ReadSoFar
<1>9. CASE rest # << >> /\ Digit(Head(rest)) /\ Reads(1)
  <2>1. rest' = SubSeq(rest, 2, left)
    BY <1>9 DEF Reads
  <2>2. /\ phase = "more" /\ neg' = neg /\ error' = error
        /\ exact' = 10 * exact + Head(rest)
        /\ phase' = "more" \/ phase' = "done"
    BY <1>9 DEF Digit
  <2>3. /\ left >= 1 /\ Head(rest) \in Digits
        /\ rest' \in Seq(Digits) /\ Len(rest') = left - 1
        /\ \A i \in 1 .. left - 1 : rest'[i] = chars.digits[nb - (left - 1) + i]
        /\ v[nb - left + 1] = 10 * v[nb - left] + Head(rest)
        /\ v[nb - left + 1] \in 0 .. Size(printed)
    BY <1>1, <1>9, <2>1, OneRead
  <2>4. exact' = v[nb - (left - 1)] /\ exact' \in 0 .. Size(printed)
    <3>1. nb - (left - 1) = nb - left + 1
      BY <1>4, <1>5
    <3> HIDE DEF nb, left
    <3> QED BY <1>5, <2>2, <2>3, <3>1
  <2>5. phase' # "done"
    <3> SUFFICES ASSUME phase' = "done" PROVE FALSE
      OBVIOUS
    <3>1. error' = "RESULT_OUT_OF_RANGE"
      BY <1>1, <2>2 DEF Inv
    <3>2. Written' \notin Type'
      BY <3>1 DEF Inv, ExactOrRefused
    <3>3. Written' \in Type'
      <4>1. Written' = IF printed < 0 THEN -exact' ELSE exact'
        BY <1>5, <2>2 DEF Written
      <4>2. Type' = Min .. Max
        BY <1>2 DEF Type
      <4>3. Min <= 0 /\ Min \in Int
        BY <1>2 DEF Min
      <4> HIDE DEF Min
      <4> QED BY <1>2, <2>4, <4>1, <4>2, <4>3
    <3> QED BY <3>2, <3>3
  <2>6. left - 1 <= nb
    BY <1>4, <1>5
  <2> QED BY <1>5, <1>6, <2>2, <2>3, <2>4, <2>5, <2>6 DEF ReadSoFar
<1>10. CASE rest = << >> /\ EndOfNumber /\ Reads(0)
  <2>1. rest' = rest /\ left = 0
    BY <1>5, <1>10 DEF Reads
  <2>2. phase = "more" /\ phase' = "done" /\ error' = "OK"
        /\ neg' = neg /\ exact' = exact
    BY <1>10 DEF EndOfNumber
  <2>3. exact = Size(printed)
    <3>1. nb - left = nb /\ v[nb] = Size(printed)
      BY <1>4, <2>1 DEF Spells
    <3> HIDE DEF nb, left
    <3> QED BY <1>5, <2>2, <3>1
  <2>4. value' = printed
    <3>1. value' = Written'
      BY <2>2 DEF Inv, ExactOrRefused
    <3>2. Written' = IF printed < 0 THEN -exact ELSE exact
      BY <1>5, <2>2 DEF Written
    <3> QED BY <1>2, <2>3, <3>1, <3>2
  <2> QED BY <1>5, <1>6, <2>1, <2>2, <2>4 DEF ReadSoFar
<1> QED BY <1>7, <1>8, <1>9, <1>10 DEF ReadBack

LEMMA ConvNextInv == ConvInv /\ [ConvNext]_allVars => ConvInv'
<1> SUFFICES ASSUME ConvInv, [ConvNext]_allVars PROVE ConvInv'
  OBVIOUS
<1>1. type \in Types /\ type' = type /\ UNCHANGED textVars
  BY DEF ConvInv, Inv, TypeOK, ConvNext, ReadBack, ReadOther, Next, allVars, vars
<1>2. [Next]_vars
  <2>1. CASE ReadBack
    <3>1. chars.error = "OK" /\ Printing
      BY <2>1 DEF ReadBack, ConvInv
    <3>2. Whole(chars, printed)
      BY <1>1, <3>1, PrintedWhole
    <3>3. PICK v : Spells(v, chars.digits, Size(printed)) /\ ReadSoFar(v)
      BY <3>1 DEF ConvInv
    <3>4. rest # << >> => Head(rest) \in Digits
      BY <1>1, <3>1, <3>3, OneRead
    <3>5. chars.sign \in {"none", "+", "-"}
      BY <3>2 DEF Whole
    <3> QED BY <1>1, <2>1, <3>4, <3>5 DEF ReadBack, Next
  <2>2. CASE ReadOther
    BY <2>2 DEF ReadOther
  <2>3. CASE UNCHANGED allVars
    BY <2>3 DEF allVars
  <2> QED BY <2>1, <2>2, <2>3 DEF ConvNext
<1>3. Inv'
  BY <1>2, InvNext DEF ConvInv
<1>4. /\ chars' = chars /\ printed' = printed /\ room' = room
      /\ Type' = Type /\ Signed' = Signed /\ Max' = Max
  BY <1>1, SameType DEF textVars, Type, Min
<1>5. Printing'
  <2>1. StoredWhole(chars, printed, room)'
    BY <1>4 DEF ConvInv, Printing
  <2> QED BY <1>4, <2>1 DEF ConvInv, Printing
<1>6. ASSUME chars.error = "OK"
      PROVE  \E v : (Spells(v, chars.digits, Size(printed)) /\ ReadSoFar(v))'
  <2>1. PICK v : Spells(v, chars.digits, Size(printed)) /\ ReadSoFar(v)
    BY <1>6 DEF ConvInv
  <2>2. Spells(v, chars.digits, Size(printed))'
    BY <1>4, <2>1
  <2>3. CASE ReadBack
    <3>1. ReadSoFar(v)'
      BY <1>1, <1>3, <1>6, <2>1, <2>3, ReadKept
    <3> QED BY <2>2, <3>1
  <2>4. CASE ReadOther
    BY <1>6, <2>4 DEF ReadOther, ConvInv, Printing
  <2>5. CASE UNCHANGED allVars
    <3>1. UNCHANGED <<chars, rest, phase, neg, exact, error, value, printed>>
      BY <2>5 DEF allVars, vars, textVars
    <3>2. ReadSoFar(v)'
      BY <2>1, <3>1 DEF ReadSoFar
    <3> QED BY <2>2, <3>2
  <2> QED BY <2>3, <2>4, <2>5 DEF ConvNext
<1> QED BY <1>3, <1>4, <1>5, <1>6 DEF ConvInv

\* Whatever value is printed into however many characters, to_chars writes none
\* outside of them, writes all of the digits if they fit, and says so if not.
THEOREM BufferRespected == ConvSpec => []RoomRespected
<1>1. ConvInv => RoomRespected
  BY DEF ConvInv, Printing, StoredWhole, RoomRespected, Inv, TypeOK
<1> QED BY <1>1, ConvInitInv, ConvNextInv, PTL DEF ConvSpec

\* For a type of every width, what to_chars prints from_chars reads back as the
\* same value, the least one included.
THEOREM PrintedIsReadBack == ConvSpec => []RoundTrip
<1>1. ConvInv => RoundTrip
  BY DEF ConvInv, ReadSoFar, RoundTrip
<1> QED BY <1>1, ConvInitInv, ConvNextInv, PTL DEF ConvSpec

-----------------------------------------------------------------------------
(***************************************************************************)
(* The text of an error, written into a buffer.                            *)
(***************************************************************************)

MessageInv == sameNumber \in SUBSET Pairs /\ MessageStored

\* The text of a number is that of one of its names, and has a length.
LEMMA TextOfNumber ==
  ASSUME sameNumber \in SUBSET Pairs, NEW n \in Numbers
  PROVE  /\ error_to_string(n) \in n \/ (n = {} /\ error_to_string(n) = "UNDEFINED")
         /\ LengthOf[error_to_string(n)] \in Nat
<1>1. n \subseteq Enumerators
  BY DEF Numbers, Number, Pairs, Enumerators
<1>2. error_to_string(n) \in n \/ (n = {} /\ error_to_string(n) = "UNDEFINED")
  <2>1. CASE n = {}
    BY <2>1 DEF error_to_string
  <2>2. CASE n # {} /\ n \subseteq Cases
    BY <2>2 DEF error_to_string
  <2>3. CASE n # {} /\ ~(n \subseteq Cases)
    BY <2>3 DEF error_to_string
  <2> QED BY <2>1, <2>2, <2>3
<1> QED BY <1>1, <1>2, TextAssumption

LEMMA MessageNextInv == MessageInv /\ [MessageNext]_messageVars => MessageInv'
<1> SUFFICES ASSUME MessageInv, [MessageNext]_messageVars PROVE MessageInv'
  OBVIOUS
<1>1. CASE UNCHANGED messageVars
  BY <1>1 DEF messageVars, MessageInv, MessageStored, Stored, NoRoomForDots
<1>2. ASSUME NEW n \in Numbers, NEW space \in 0 .. MaxBuffer, error_to_string_s(n, space)
      PROVE  MessageInv'
  <2> DEFINE e == error_to_string(n)
             len == LengthOf[e]
  <2>1. /\ e \in n \/ (n = {} /\ e = "UNDEFINED")
        /\ len \in Nat /\ space \in Nat
    BY TextOfNumber, TextAssumption DEF MessageInv
  <2>2. asked' = n /\ size' = space /\ sameNumber' = sameNumber
    BY <1>2 DEF error_to_string_s
  <2>3. \/ space > 0 /\ len < space /\ text' = Text(e, len, FALSE) /\ answer'
        \/ space > 3 /\ ~(len < space) /\ text' = Text(e, space - 4, TRUE) /\ answer'
        \/ (space = 0 \/ (space <= 3 /\ ~(len < space))) /\ answer' = FALSE
    BY <1>2 DEF error_to_string_s, Fits
  <2>4. NoRoomForDots' <=> space <= 3 /\ len >= space
    BY <2>2 DEF NoRoomForDots
  <2> HIDE DEF e, len
  <2>5. CASE space > 0 /\ len < space /\ text' = Text(e, len, FALSE) /\ answer'
    <3>1. text' = [of |-> e, copied |-> len, dots |-> FALSE]
      BY <2>5 DEF Text
    <3>2. text'.of = e /\ text'.copied = len /\ ~text'.dots
      BY ONLY <3>1
    <3>3. len \in Nat /\ space \in Nat /\ len < space
      BY <2>1, <2>5
    <3>4. Stored(text') = len + 1
      BY ONLY <3>1, <3>3 DEF Stored
    <3>5. Stored(text') <= size' /\ text'.copied <= LengthOf[text'.of]
      BY ONLY <2>2, <3>2, <3>3, <3>4 DEF len
    <3>6. text'.dots <=> LengthOf[text'.of] >= size'
      BY ONLY <2>2, <3>2, <3>3 DEF len
    <3>7. text'.of \in asked' \/ (asked' = {} /\ text'.of = "UNDEFINED")
      BY <2>1, <2>2, <3>2
    <3>8. answer' /\ ~NoRoomForDots'
      BY <2>4, <2>5, <3>3
    <3> QED BY <2>2, <3>5, <3>6, <3>7, <3>8 DEF MessageInv, MessageStored
  <2>6. CASE space > 3 /\ ~(len < space) /\ text' = Text(e, space - 4, TRUE) /\ answer'
    <3>1. text' = [of |-> e, copied |-> space - 4, dots |-> TRUE]
      BY <2>6 DEF Text
    <3>2. text'.of = e /\ text'.copied = space - 4 /\ text'.dots
      BY ONLY <3>1
    <3>3. len \in Nat /\ space \in Nat /\ space <= len /\ space > 3
      BY <2>1, <2>6
    <3>4. Stored(text') = space
      BY ONLY <3>1, <3>3 DEF Stored
    <3>5. Stored(text') <= size' /\ text'.copied <= LengthOf[text'.of]
      BY ONLY <2>2, <3>2, <3>3, <3>4 DEF len
    <3>6. text'.dots <=> LengthOf[text'.of] >= size'
      BY ONLY <2>2, <3>2, <3>3 DEF len
    <3>7. text'.of \in asked' \/ (asked' = {} /\ text'.of = "UNDEFINED")
      BY <2>1, <2>2, <3>2
    <3>8. answer' /\ ~NoRoomForDots'
      BY <2>4, <2>6, <3>3
    <3> QED BY <2>2, <3>5, <3>6, <3>7, <3>8 DEF MessageInv, MessageStored
  <2>7. CASE (space = 0 \/ (space <= 3 /\ ~(len < space))) /\ answer' = FALSE
    <3>1. NoRoomForDots'
      BY <2>4, <2>1, <2>7
    <3> QED BY <2>2, <2>7, <3>1 DEF MessageInv, MessageStored
  <2> QED BY <2>3, <2>5, <2>6, <2>7
<1> QED BY <1>1, <1>2 DEF MessageNext

\* However long the texts of the errors are, rbc_error_to_string_s stores the
\* whole text or its beginning and three dots within the buffer and returns true,
\* or returns false, for want of room for the dots and for nothing else.
THEOREM MessagesStored == MessageSpec => []MessageStored
<1>1. MessageInit => MessageInv
  <2>1. MessageInit => NoRoomForDots
    BY TextAssumption DEF MessageInit, NoRoomForDots, error_to_string
  <2> QED BY <2>1 DEF MessageInit, MessageInv, MessageStored
<1>2. MessageInv => MessageStored
  BY DEF MessageInv
<1> QED BY <1>1, <1>2, MessageNextInv, PTL DEF MessageSpec

=============================================================================
