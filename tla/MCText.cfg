SPECIFICATION TextSpec
\* a text is read once
CHECK_DEADLOCK FALSE
CONSTANTS
  Types <- Bytes
  ResultMaxLen = 4
  MaxRoom = 5
  OtherErrors <- Others
  LengthOf <- Lengths
  MaxBuffer = 9
INVARIANTS
  TypeOK
  ExactOrRefused
  RoomRespected
  RoundTrip
  MessageStored
