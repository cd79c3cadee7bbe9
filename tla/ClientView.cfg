CONSTANTS
  Workers = {w1, w2}
  Free = Free
  Api = Api
  MaxReads = 1
  MaxFaults = 2
SPECIFICATION ViewFairSpec
INVARIANT ViewTypeOK
INVARIANT GivenAudioStays
INVARIANT WorkUntilReported
INVARIANT CallbackSaysSuccess
PROPERTY ReportedInTheEnd
