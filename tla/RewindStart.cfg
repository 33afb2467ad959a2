\* Starting the SF-7000 from any machine, the cursor being anywhere.
CONSTANTS
  FramesPerGroup = 2
  Fps = 1
  KeyBytes = 2
  DeltaBytes = 1
  AssumedBytes = 1
  Seconds = {1}
  Strides = {1}
  MemoryLimits = {20}
  Inputs = {"a"}
  StartFrom = {"rom", "sf7000"}
  MaxTime = 4
  MaxDevice = 1
SPECIFICATION Spec
INVARIANTS StartBoots
CHECK_DEADLOCK FALSE
