\* Every command, under a guest that follows the status register.
CONSTANTS
  LastTrack = 1
  MaxTracks = 2
  StartTrack = 1
  InsertTrack = 1
  Rev = 2
  IdamToDam = 1
  MaxSectors = 2
  SizeOf <- MCSizeOf
  BufferBytes = 2
  MaxTurns = 0
  Recovery = 1
  StepTimeOf <- MCOneRate
  Blocks = {1}
  Bytes = {0, 1}
  Commands = {"READ_DATA", "WRITE_DATA", "FORMAT", "READ_ID", "SEEK", "RECALIBRATE", "SENSE_INT", "SENSE_DEVICE", "SPECIFY", "UNKNOWN"}
  Media <- MCMedia
  Protection = {}
  Drives = {0}
SPECIFICATION DriverSpec
INVARIANTS MsrTruthful BackgroundExclusive FormatOwnsController FoundIdIsOnTrack StaysInBuffer
PROPERTIES CommandsComplete
