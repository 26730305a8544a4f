SPECIFICATION FairSpec
CONSTANTS
  Byte = 16
  Addresses = 4
  Commands = 4
  Acks = 2
  Packets <- Sent
  MaxSent = 2
  MaxNoise = 1
INVARIANTS
  TypeOK
  IntactAccepted
PROPERTIES
  ChannelSpec
  AllReceived
\* a receiver that saw a checksum error stops
CHECK_DEADLOCK FALSE
