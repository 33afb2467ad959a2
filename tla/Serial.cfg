\* Every order of bytes, words, requests and clocks, with a host that sends.
CONSTANTS
  Formats = {"8N1", "8N2"}
  Speeds = {"fast", "slow"}
  FrameClocks <- MCFrameClocks
  DefaultFormat = "8N1"
  Jumper = "fast"
  Blocks = {2}
  MaxQueue = 2
  Nothing = Nothing
SPECIFICATION RunningSpec
INVARIANTS TransmitterNeverStuck LazinessInvisible ReceiverKeepsTime
PROPERTY OneByteAtATime
