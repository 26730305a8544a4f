-------------------------------- MODULE Dcp2 --------------------------------
(***************************************************************************)
(* The packets of the dcp2 serial protocol (rbc/proto/dcp2/packet.c) and   *)
(* their bytes on the line:                                                *)
(*                                                                         *)
(*     src:dst  req:ack:cmd  len  header_crc  data ...  packet_crc         *)
(*                                                                         *)
(* where packet_crc is there only if len > 0.  A byte is a number below    *)
(* Byte, which is 256 in the code; the fields of the first two bytes       *)
(* shrink with it, so that small instances keep the shape of the real one. *)
(***************************************************************************)
EXTENDS Integers, Sequences, SequencesExt

CONSTANTS
  Byte,        \* the number of values of a u8
  Addresses,   \* the number of values of dst and of src (16)
  Commands,    \* the number of values of cmd (32)
  Acks         \* the number of values of ack (4)

ASSUME ByteAssumption ==
  /\ {Byte, Addresses, Commands, Acks} \subseteq Nat \ {0}
  /\ Byte = Addresses * Addresses
  /\ Byte = Commands * Acks * 2

u8(n) == n % Byte
Bytes == 0 .. Byte - 1

HeaderSize == 4
HeaderSeed == 137    \* 0x89

Packet(dst, src, cmd, ack, req, data) ==
  [dst |-> dst, src |-> src, cmd |-> cmd, ack |-> ack, req |-> req, data |-> data]

(***************************************************************************)
(* header_crc and packet_crc: sums modulo Byte of a prefix.                *)
(***************************************************************************)
SumOf(bytes) == u8(FoldLeft(LAMBDA sum, b : b + sum, 0, bytes))

\* Seeded defect: the command is not covered.
header_crc_two(bytes) == u8(HeaderSeed + bytes[1] + bytes[3])

header_crc(bytes) == u8(HeaderSeed + SumOf(SubSeq(bytes, 1, 3)))

packet_crc(bytes, size) == SumOf(SubSeq(bytes, 1, size))

(***************************************************************************)
(* rbc_dcp2_packet_to_bytes.                                               *)
(***************************************************************************)
\* Seeded defect: the addresses change places.
to_bytes_swapped(p) ==
  LET fields == << p.src + p.dst * Addresses,
                   p.cmd + p.ack * Commands + p.req * Commands * Acks,
                   Len(p.data) >>
      bytes  == Append(fields, header_crc(fields)) \o p.data
  IN  IF p.data = << >> THEN bytes
      ELSE Append(bytes, packet_crc(bytes, Len(bytes)))

to_bytes(p) ==
  LET fields == << p.dst + p.src * Addresses,
                   p.cmd + p.ack * Commands + p.req * Commands * Acks,
                   Len(p.data) >>
      bytes  == Append(fields, header_crc(fields)) \o p.data
  IN  IF p.data = << >> THEN bytes
      ELSE Append(bytes, packet_crc(bytes, Len(bytes)))

(***************************************************************************)
(* rbc_dcp2_packet_from_bytes: the packet at the start of bytes, its size, *)
(* or why there is none.  The size is computed in a u8: where it wraps to  *)
(* 0 (len = Byte - 5) the code reads outside the bytes, and the model has  *)
(* no value.                                                               *)
(***************************************************************************)
Nothing(error) == [error |-> error, packet |-> << >>, end |-> 0]

\* Seeded defect: a packet without data has a checksum too.
packet_size_with_crc(len) == u8(HeaderSize + len + 1)

packet_size(len) == u8(HeaderSize + len + (IF len # 0 THEN 1 ELSE 0))

from_bytes(bytes) ==
  LET len  == bytes[3]
      size == packet_size(len)
      \* evaluated only if the header is complete
      Damaged ==
        len # 0 /\ packet_crc(bytes, size - 1) # bytes[size]
      Parsed ==
        Packet(bytes[1] % Addresses, bytes[1] \div Addresses,
               bytes[2] % Commands, (bytes[2] \div Commands) % Acks,
               bytes[2] \div (Commands * Acks),
               SubSeq(bytes, HeaderSize + 1, HeaderSize + len))
  IN  IF Len(bytes) < HeaderSize        THEN Nothing("NEED_MORE_DATA")
      ELSE IF bytes[4] # header_crc(bytes) THEN Nothing("INVALID_HEADER_CRC")
      ELSE IF Len(bytes) < size         THEN Nothing("NEED_MORE_DATA")
      ELSE IF Damaged                   THEN Nothing("INVALID_PACKET_CRC")
      ELSE [error |-> "OK", packet |-> Parsed, end |-> size]

=============================================================================
