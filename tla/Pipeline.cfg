CONSTANTS
  Workers = {w1, w2}
  Free = Free
  Api = Api
  MaxReads = 1
  MaxFaults = 3
SPECIFICATION FairSpec
INVARIANT TypeOK
INVARIANT AudioNeverDangles
INVARIANT FailureIsRefunded
INVARIANT SuccessShowsNoError
PROPERTY TerminalIsFinal
PROPERTY SynthesisNotDropped
PROPERTY ImplementsContract
PROPERTY QueuedJobsSettle
