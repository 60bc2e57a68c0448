\* The demonstration programs, each with the calls and keys it may meet.
SPECIFICATION Spec
CONSTANTS
  Programs = {"piphonsDemo", "dtmfDemo", "daaDemo", "ttsDemo"}
  WelcomeLines = 1
  MaxCalls = 2
  MaxPresses = 3
INVARIANTS
  EndsOnlyWhenAsked
  GoodbyeBeforeEnd
  QuietAtReturn
PROPERTY
  ServerEnds
\* A program ends.
CHECK_DEADLOCK FALSE
