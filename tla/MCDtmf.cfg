\* Keys spaced as the decoder's timing makes them, and keys at any time.
SPECIFICATION FairSpec
CONSTANTS
  PinCount = 2
  Usages <- BothUsages
  NoKey = NoKey
  MaxFifo = 2
INVARIANTS
  TypeOK
  ClosedIsQuiet
  HandlerFindsKey
PROPERTIES
  DeliversKeys
  KeyQueued
  CloseReturns
