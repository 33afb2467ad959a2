\* The lazy board implements the immediate one under motor, terminal count, resets,
\* insertions and ejects.
CONSTANTS
  LastTrack = 1
  MaxTracks = 5
  StartTrack = 1
  InsertTrack = 1
  Rev = 2
  IdamToDam = 1
  MaxSectors = 1
  SizeOf <- MCSizeOf
  BufferBytes = 1
  MaxTurns = 0
  Recovery = 1
  StepTimeOf <- MCStepTimeOf
  Blocks = {1}
  Bytes = {0}
  Commands = {"READ_ID", "RECALIBRATE"}
  Media <- MCMedia
  Protection = {}
  IndexPulse = 1
  GuestLines = {"MOTOR_OFF", "TC"}
  Ejects = {TRUE}
SPECIFICATION BoardSpec
INVARIANTS IndexPhaseCommon NothingOverdue
PROPERTIES LazinessInvisible
