\* What the threads must eventually do, for a caller who rings every 5 s and
\* a busy tone with noise; the demos' calls, open and close again and again.
SPECIFICATION FairSpec
CONSTANTS
  OffhookEnabledLevel = FALSE
  HasTonePin = TRUE
  ClockWraps = FALSE
  RingLimits = {2}
  ToneSettings <- DemoTones
  UserHandlers = {}
  RingGaps = {5000}
  PulseGaps <- TwoPulses
  OpenCalls = {}
  HandlerHook = {}
  RingCap = 8
INVARIANTS
  TypeOK
  ClosedIsQuiet
  PulsesBelowLimit
PROPERTIES
  CloseReturns
  CallerAnswered
  BusyToneHangsUp
  KeepsLine
