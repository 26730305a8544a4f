SPECIFICATION Spec
CONSTANTS
  Byte = 16
  Addresses = 4
  Commands = 4
  Acks = 2
  Packets <- TooLong
  MaxSent = 1
  MaxNoise = 0
INVARIANTS
  IntactAccepted
CHECK_DEADLOCK FALSE
