SPECIFICATION FairSpec
CONSTANTS
  Messages <- MCMessages
  ByteBase = 2
  MaxMessages = 3
  MayReset = TRUE
INVARIANTS TypeOK RecvStaysInBuffer
PROPERTIES DeliversMessages DeliversAllMessages
CHECK_DEADLOCK FALSE
