\* Four bytes, so three at most are queued; puts of up to four are cut short.
SPECIFICATION RingSpec
CONSTANTS
  Size = 4
  Bytes <- TwoBytes
  MaxPut = 4
INVARIANTS RingTypeOK RunsFit
PROPERTY QueueSpec
