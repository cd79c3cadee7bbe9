CONSTANTS
  MaxLength = 16
  ChunkSize = 2
  Threshold = 4
  PartSize = 3
SPECIFICATION FairSpec
INVARIANT TypeOK
INVARIANT ReadsAreTheStream
INVARIANT StoredIsWhole
INVARIANT PartsAreFull
INVARIANT MemoryIsBounded
PROPERTY EveryStepAdvances
PROPERTY UploadEnds
