----------------------------- MODULE Dcp2Stream -----------------------------
(***************************************************************************)
(* Two ends of a serial line that speak dcp2.  The library encodes and     *)
(* decodes (module Dcp2); the line and the loop around from_bytes are the  *)
(* client's, modelled from what from_bytes asks of it: bytes arrive in     *)
(* pieces of any size, RBC_DCP2_ERROR_NEED_MORE_DATA means try again when  *)
(* there are more, a decoded packet is consumed up to its end, and any     *)
(* other error stops the receiver.  The line may damage a few bytes.       *)
(***************************************************************************)
EXTENDS Dcp2

CONSTANTS
  Packets,     \* the packets that are sent
  MaxSent,     \* how many packets are sent
  MaxNoise     \* how many bytes the line damages

VARIABLES
  sent,        \* the packets sent
  line,        \* the bytes on the line
  buffer,      \* the bytes that arrived and were not consumed
  received,    \* the packets decoded
  error,       \* the last answer of from_bytes; OK while it is to be asked again
  noise        \* the number of bytes damaged

vars == <<sent, line, buffer, received, error, noise>>

DecodeErrors == {"OK", "NEED_MORE_DATA", "INVALID_HEADER_CRC", "INVALID_PACKET_CRC"}

\* A packet whose fields have the widths of struct rbc_dcp2_packet: its data is
\* counted by a u8.
IsPacket(p) ==
  /\ p \in [dst : 0 .. Addresses - 1, src : 0 .. Addresses - 1,
            cmd : 0 .. Commands - 1, ack : 0 .. Acks - 1, req : {0, 1},
            data : Seq(Bytes)]
  /\ Len(p.data) < Byte

ASSUME StreamAssumption ==
  /\ MaxSent \in Nat /\ MaxNoise \in Nat
  /\ \A p \in Packets : IsPacket(p)

TypeOK ==
  /\ sent \in Seq(Packets) /\ Len(sent) <= MaxSent
  /\ line \in Seq(Bytes)
  /\ buffer \in Seq(Bytes)
  /\ received \in Seq(Packets)
  /\ error \in DecodeErrors
  /\ noise \in 0 .. MaxNoise

Init ==
  /\ sent = << >>
  /\ line = << >>
  /\ buffer = << >>
  /\ received = << >>
  /\ error = "NEED_MORE_DATA"
  /\ noise = 0

Send ==
  /\ Len(sent) < MaxSent
  /\ \E p \in Packets :
       /\ sent' = Append(sent, p)
       /\ line' = line \o to_bytes(p)
  /\ UNCHANGED <<buffer, received, error, noise>>

Damage ==
  /\ noise < MaxNoise
  /\ \E i \in 1 .. Len(line), b \in Bytes :
       /\ b # line[i]
       /\ line' = [line EXCEPT ![i] = b]
  /\ noise' = noise + 1
  /\ UNCHANGED <<sent, buffer, received, error>>

(***************************************************************************)
(* A piece of the line arrives while the receiver waits for more.          *)
(***************************************************************************)
Arrive ==
  /\ error = "NEED_MORE_DATA"
  /\ \E k \in 1 .. Len(line) :
       /\ buffer' = buffer \o SubSeq(line, 1, k)
       /\ line' = SubSeq(line, k + 1, Len(line))
  /\ error' = "OK"
  /\ UNCHANGED <<sent, received, noise>>

(***************************************************************************)
(* One turn of the receiver's loop.                                        *)
(***************************************************************************)
Receive ==
  /\ error = "OK"
  /\ LET result == from_bytes(buffer) IN
       /\ error' = result.error
       /\ buffer' = SubSeq(buffer, result.end + 1, Len(buffer))
       /\ received' = (IF result.error = "OK" THEN Append(received, result.packet)
                       ELSE received)
  /\ UNCHANGED <<sent, line, noise>>

Next == Send \/ Damage \/ Arrive \/ Receive

Spec == Init /\ [][Next]_vars

\* What is on the line arrives, and the receiver's loop runs.
FairSpec == Spec /\ WF_vars(Arrive) /\ WF_vars(Receive)

-----------------------------------------------------------------------------
(***************************************************************************)
(* The receiver sees the packets that were sent, in order and whole, in    *)
(* whatever pieces they arrive, and one damaged byte never turns a packet  *)
(* into another one: the checksums catch it.                               *)
(***************************************************************************)
Channel == INSTANCE PacketChannel
ChannelSpec == Channel!Spec

\* On a line that damages nothing the receiver never sees a checksum error:
\* from_bytes accepts everything to_bytes produces, and waits, rather than
\* fails, for what has not arrived.
IntactAccepted ==
  noise = 0 => error \notin {"INVALID_HEADER_CRC", "INVALID_PACKET_CRC"}

\* On such a line every packet that was sent is decoded in the end.
AllReceived ==
  \A n \in 1 .. MaxSent :
    Len(sent) >= n ~> (Len(received) >= n \/ noise > 0)

=============================================================================
