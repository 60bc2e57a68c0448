\* The demo displays ringingSinceHangup() as the rings since the last call.
SPECIFICATION HSpec
CONSTANTS
  OffhookEnabledLevel = FALSE
  HasTonePin = TRUE
  ClockWraps = FALSE
  RingLimits = {1}
  ToneSettings <- BusyOnly
  UserHandlers = {}
  RingGaps = {5000}
  PulseGaps = {450}
  OpenCalls = {}
  HandlerHook = {}
  RingCap = 8
INVARIANT
  RingsCountedSinceHangup
