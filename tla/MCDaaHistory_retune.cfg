\* The tone detection is configured at any time, while toneIsr runs.
SPECIFICATION HSpec
CONSTANTS
  OffhookEnabledLevel = FALSE
  HasTonePin = TRUE
  ClockWraps = TRUE
  RingLimits = {}
  ToneSettings <- TwoTones
  UserHandlers = {"hangupTone"}
  RingGaps = {}
  PulseGaps <- AllPulses
  OpenCalls = {"offhook", "hangup", "setHangupToneDetect", "setHandler"}
  HandlerHook = {TRUE}
  RingCap = 8
INVARIANTS
  ToneSnapshotConsistent
  HangupEarned
