----------------------------- MODULE ErrorText -----------------------------
(***************************************************************************)
(* Error numbers and the texts that describe them (core/error.c): what     *)
(* rbc_error_to_string says of a number, on platforms where two names may  *)
(* stand for one, and how rbc_error_to_string_s puts it into a buffer that *)
(* may be too small and that holds the text of an earlier call.  A text is *)
(* the name of the error it describes; of its characters only their number *)
(* counts.                                                                 *)
(***************************************************************************)
EXTENDS Integers

CONSTANTS
  OtherErrors,  \* the names of enum rbc_error that are not told apart here
  LengthOf,     \* the length of each text
  MaxBuffer     \* bound: the size of the buffers tried

Enumerators ==
  OtherErrors \union
  {"OK", "UNKNOWN", "NOT_IMPLEMENTED",
   "NOT_SUPPORTED", "OPERATION_NOT_SUPPORTED",
   "RESOURCE_UNAVAILABLE_TRY_AGAIN", "OPERATION_WOULD_BLOCK"}

ASSUME TextAssumption ==
  /\ LengthOf \in [Enumerators \union {"UNDEFINED"} -> Nat]
  /\ MaxBuffer \in Nat

VARIABLES
  sameNumber,  \* the pairs of names that are one number; fixed
  asked,       \* the number of the last call
  size,        \* the size given for the buffer
  text,        \* what the buffer holds
  answer       \* what rbc_error_to_string_s returned

messageVars == <<sameNumber, asked, size, text, answer>>

\* ENOTSUP and EOPNOTSUPP, and EAGAIN and EWOULDBLOCK, may be one number.
Pairs ==
  {{"NOT_SUPPORTED", "OPERATION_NOT_SUPPORTED"},
   {"RESOURCE_UNAVAILABLE_TRY_AGAIN", "OPERATION_WOULD_BLOCK"}}

\* A number is the set of its names, none for a number of no name.
Number(e) == {e} \union UNION {p \in sameNumber : e \in p}
Numbers == {Number(e) : e \in Enumerators} \union {{}}

\* The names that have a case in the switch.
Cases ==
  Enumerators \ {"NOT_SUPPORTED", "RESOURCE_UNAVAILABLE_TRY_AGAIN"}

\* The names without a case are asked for before the switch.
error_to_string(n) ==
  IF n = {} THEN "UNDEFINED"
  ELSE IF n \subseteq Cases THEN CHOOSE e \in n : TRUE
  ELSE CHOOSE e \in n : e \notin Cases

\* copied characters of the text of an error, "..." or not, and the null.
Text(of, copied, dots) == [of |-> of, copied |-> copied, dots |-> dots]
Stored(t) == t.copied + (IF t.dots THEN 3 ELSE 0) + 1
Untouched == Text("none", 0, FALSE)

MessageInit ==
  /\ sameNumber \in SUBSET Pairs
  /\ asked = {}
  /\ size = 0
  /\ text = Untouched
  /\ answer = FALSE

\* Seeded defect: no room is left for the null.
FitsWithoutNull(len, n) == len <= n

Fits(len, n) == len < n

error_to_string_s(n, room) ==
  LET e == error_to_string(n)
  IN  /\ asked' = n
      /\ size' = room
      /\ \/ /\ room > 0 /\ Fits(LengthOf[e], room)
            /\ text' = Text(e, LengthOf[e], FALSE)
            /\ answer' = TRUE
         \/ /\ room > 3 /\ ~Fits(LengthOf[e], room)
            /\ text' = Text(e, room - 4, TRUE)
            /\ answer' = TRUE
         \/ /\ room = 0 \/ (room <= 3 /\ ~Fits(LengthOf[e], room))
            /\ answer' = FALSE
            /\ UNCHANGED text
      /\ UNCHANGED sameNumber

MessageNext ==
  \E n \in Numbers, room \in 0 .. MaxBuffer : error_to_string_s(n, room)

MessageSpec == MessageInit /\ [][MessageNext]_messageVars

\* The text is too long for the size given, and "..." is as well.
NoRoomForDots == size <= 3 /\ LengthOf[error_to_string(asked)] >= size

\* After a call the buffer holds, within the size given and with its null, the
\* text of the error asked about, which every name has, whole if there is room
\* for it and with its end cut off for "..." if not: never the text of an
\* earlier call, nor that of another number.  There are two exceptions to what
\* error.h:115-121 promises.  The answer is true for a text that was cut as
\* well; and in a buffer without room for the dots nothing is stored, a null
\* neither, which is when the answer is false, and no other time.
MessageStored ==
  /\ answer =>
       /\ Stored(text) <= size
       /\ text.of \in asked \/ (asked = {} /\ text.of = "UNDEFINED")
       /\ text.dots <=> LengthOf[text.of] >= size
       /\ text.copied <= LengthOf[text.of]
  /\ ~answer <=> NoRoomForDots

=============================================================================
