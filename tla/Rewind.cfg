\* Every way of stopping, scrubbing, stepping and restarting, a capture per frame.
CONSTANTS
  FramesPerGroup = 2
  Fps = 1
  KeyBytes = 2
  DeltaBytes = 1
  AssumedBytes = 1
  Seconds = {1}
  Strides = {1}
  MemoryLimits = {5, 20}
  Inputs = {"a"}
  StartFrom = {"rom"}
  MaxTime = 5
  MaxDevice = 2
SPECIFICATION Spec
INVARIANTS RingAccounted NoHoles
PROPERTIES SeekLandsOnAge WindowKept ImplementsHistory
CHECK_DEADLOCK FALSE
