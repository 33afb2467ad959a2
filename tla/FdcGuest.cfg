\* Transfers and seeks under any guest, with terminal count, reset, eject, media
\* change and write protection at any point.
CONSTANTS
  LastTrack = 2
  MaxTracks = 2
  StartTrack = 1
  InsertTrack = 2
  Rev = 2
  IdamToDam = 0
  MaxSectors = 1
  SizeOf <- MCSizeOf
  BufferBytes = 2
  MaxTurns = 0
  Recovery = 0
  StepTimeOf <- MCOneRate
  Blocks = {1}
  Bytes = {0, 2}
  Commands = {"READ_DATA", "WRITE_DATA", "SEEK", "RECALIBRATE"}
  Media <- MCMedia
  Protection = {TRUE, FALSE}
SPECIFICATION Spec
INVARIANTS BusyHasCause
PROPERTIES HeadNeverTeleports
