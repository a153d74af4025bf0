CONSTANTS
  Jobs <- MCJobs
  Asks <- MCAsks
  MaxSize = 8
  BytesPerLine = 2
  MinWindow = 3
  MaxArtifact = 12
  MaxMembers = 6
  MaxModules = 1
  MaxHits = 2
  TailLines = 2
  MaxFrames = 1
SPECIFICATION Spec
CHECK_DEADLOCK FALSE
INVARIANTS
  TypeOK
  TailIsCurrent
  WithinCeiling
  
  NeedlesInOrder
  SourcesAgree
