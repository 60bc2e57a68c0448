\* The client opens the service, talks and closes it; a handler talks too.
SPECIFICATION FairSpec
CONSTANTS
  Talkers = {main, keys}
  Own = {main}
  Script <- MixScript
  Bugfix = TRUE
  MayFail = TRUE
  Garbled = Garbled
  Silence = Silence
  main = main
  keys = keys
  rings = rings
  p1 = p1
  p2 = p2
  p3 = p3
  Phrases = {p1, p2, p3}
INVARIANTS
  TypeOK
  ParserGoneWhenClosed
PROPERTIES
  DeliversTexts
  EveryTextSpoken
  CloseReturns
\* A service that has been closed cannot be opened again: the program ends.
CHECK_DEADLOCK FALSE
