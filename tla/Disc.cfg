\* Every sequence of imports, deletions, saves and reloads.
CONSTANTS
  ClusterCount = 4
  Sectors = 2
  Slots = 2
  Names = {A, B}
  Blank = Blank
  HostFiles <- MCHostFiles
  Paths = {p}
  Images <- MCImages
  NotAnImage = NotAnImage
SYMMETRY MCNames
SPECIFICATION Spec
PROPERTIES NothingLeaks FilesKept
