\* piphons-demo says texts from the handlers of two interrupt threads.
SPECIFICATION Spec
CONSTANTS
  Talkers = {rings, keys}
  Own = {}
  Script <- TwoScript
  Bugfix = FALSE
  MayFail = FALSE
  Garbled = Garbled
  Silence = Silence
  main = main
  keys = keys
  rings = rings
  p1 = p1
  p2 = p2
  p3 = p3
  Phrases = {p1, p2, p3}
INVARIANT
  SaysOwnText
\* A service that has been closed cannot be opened again: the program ends.
CHECK_DEADLOCK FALSE
