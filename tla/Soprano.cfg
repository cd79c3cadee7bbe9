CONSTANTS
  Requests = {a, b, c}
  MaxChunks = 2
  Free = Free
SPECIFICATION FairSpec
INVARIANT TypeOK
INVARIANT NoSilentTruncation
INVARIANT OverlapsAreStray
PROPERTY ImplementsFifo
PROPERTY EveryStepAdvances
PROPERTY RequestsEnd
