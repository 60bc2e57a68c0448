\* A line without a tone pin, built with the second constructor: every call
\* at any time, also from the handlers, and both sides of the two silences.
SPECIFICATION HSpec
CONSTANTS
  OffhookEnabledLevel = TRUE
  HasTonePin = FALSE
  ClockWraps = FALSE
  RingLimits = {2, 5}
  ToneSettings <- NoTones
  UserHandlers = {"offhook"}
  RingGaps <- AllGaps
  PulseGaps = {}
  OpenCalls = {"offhook", "hangup", "setRingingBeforeOffhook", "setHookFlash"}
  HandlerHook = {FALSE}
  RingCap = 8
INVARIANT
  AnswerEarned
