\* Three payloads one way, one the other, in a sequence space of eight.  When
\* every payload is read and acked there is nothing left to do.
CONSTANTS
  SeqSpace = 8
  Isn <- MCIsn
  Window <- MCWindow
  Payloads <- MCPayloads
  ClientPayloads = 3
  ServerPayloads = 1
  MaxFaults = 2
SPECIFICATION Spec
INVARIANTS
  TypeOK
  BuffersSound
PROPERTIES
  ImplementsStream
CHECK_DEADLOCK FALSE
