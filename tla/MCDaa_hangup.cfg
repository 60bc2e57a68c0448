\* The demos say that the phone is hung up when close() has returned.
SPECIFICATION Spec
CONSTANTS
  OffhookEnabledLevel = FALSE
  HasTonePin = FALSE
  ClockWraps = FALSE
  RingLimits = {1}
  ToneSettings <- NoTones
  UserHandlers = {}
  RingGaps = {5000}
  PulseGaps = {}
  OpenCalls = {}
  HandlerHook = {}
  RingCap = 8
INVARIANT
  CloseLeavesLineOnHook
