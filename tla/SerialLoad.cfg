\* A state saved while clocks are held back, and loaded.
CONSTANTS
  Formats = {"8N1"}
  Speeds = {"fast", "slow"}
  FrameClocks <- MCFrameClocks
  DefaultFormat = "8N1"
  Jumper = "fast"
  Blocks = {2}
  MaxQueue = 0
  Nothing = Nothing
SPECIFICATION Spec
PROPERTY LoadGoesOn
