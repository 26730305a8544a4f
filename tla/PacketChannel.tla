--------------------------- MODULE PacketChannel ---------------------------
(***************************************************************************)
(* What the bytes are for: packets arrive as they were sent and in order.  *)
(***************************************************************************)
EXTENDS Sequences, Integers

CONSTANT Packets

VARIABLES sent, received

channelVars == <<sent, received>>

Init == sent = << >> /\ received = << >>

Send ==
  /\ \E p \in Packets : sent' = Append(sent, p)
  /\ UNCHANGED received

Receive ==
  /\ Len(received) < Len(sent)
  /\ received' = Append(received, sent[Len(received) + 1])
  /\ UNCHANGED sent

Next == Send \/ Receive

Spec == Init /\ [][Next]_channelVars

=============================================================================
