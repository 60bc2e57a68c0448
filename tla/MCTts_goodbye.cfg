\* tts-demo says a message and closes the service.
SPECIFICATION Spec
CONSTANTS
  Talkers = {main}
  Own = {main}
  Script <- OneScript
  Bugfix = FALSE
  MayFail = FALSE
  Garbled = Garbled
  Silence = Silence
  main = main
  keys = keys
  rings = rings
  p1 = p1
  p2 = p2
  p3 = p3
  Phrases = {p1, p2, p3}
INVARIANT
  AllSpokenAtClose
\* A service that has been closed cannot be opened again: the program ends.
CHECK_DEADLOCK FALSE
