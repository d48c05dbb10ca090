CONSTANTS
  W = 8
  TimerBits = 6
  NanosPerTick = 2
  MaxTicks = 8
  Deadlines = {0, 3, 6, 9, 14, 17}
  Profile = "release"
SPECIFICATION Spec
INVARIANT FiresAtDeadline
