------------------------------- MODULE MCText -------------------------------
(***************************************************************************)
(* Texts of numbers and of errors.  A behaviour is about one or the other: *)
(* subject, chosen in the beginning, says which, and what the other module *)
(* describes rests.                                                        *)
(***************************************************************************)
EXTENDS CharConv, ErrorText

VARIABLE subject

\* i8 and u8.
Bytes == {[signed |-> TRUE, max |-> 127], [signed |-> FALSE, max |-> 255]}

\* One error without any special treatment, and texts of two to six characters.
Others == {"BUSY"}
Lengths ==
  [e \in Enumerators \union {"UNDEFINED"} |->
     CASE e = "OK" -> 2
       [] e = "NOT_SUPPORTED" -> 5
       [] e \in {"OPERATION_NOT_SUPPORTED", "RESOURCE_UNAVAILABLE_TRY_AGAIN"} -> 6
       [] OTHER -> 4]

TextInit ==
  /\ subject \in {"numbers", "messages"}
  /\ PrintInit /\ MessageInit
  /\ IF subject = "numbers" THEN sameNumber = {}
                            ELSE room = 0 /\ type.signed

TextNext ==
  /\ \/ subject = "numbers" /\ ConvNext /\ UNCHANGED messageVars
     \/ subject = "messages" /\ MessageNext /\ UNCHANGED allVars
  /\ UNCHANGED subject

TextSpec == TextInit /\ [][TextNext]_<<allVars, messageVars, subject>>

=============================================================================
