------------------------------- MODULE MCDcp2 -------------------------------
(***************************************************************************)
(* Instances of Dcp2Stream.  A byte has 16 values.  The packets have no    *)
(* data, one byte and two bytes, every field of them is zero in one and    *)
(* full in another, and their bytes repeat the values of the header.       *)
(***************************************************************************)
EXTENDS Dcp2Stream

ShortPackets == {
  Packet(0, 0, 0, 0, 0, << >>),
  Packet(3, 1, 3, 1, 1, << >>),
  Packet(1, 2, 0, 1, 0, << 15 >>),
  Packet(2, 0, 2, 0, 1, << 9, 0 >>) }

\* The longest data whose packet_size fits in a byte, and the next one that
\* from_bytes can be asked about.
LongestFitting == { Packet(3, 1, 1, 1, 0, [i \in 1 .. Byte - 6 |-> i]),
                    Packet(1, 0, 2, 0, 1, << >>) }

\* What is sent over a line that may damage a byte.
Sent == ShortPackets \union LongestFitting

TooLong == { Packet(3, 1, 1, 1, 0, [i \in 1 .. Byte - 4 |-> i]),
             Packet(1, 0, 2, 0, 1, << >>) }

=============================================================================
