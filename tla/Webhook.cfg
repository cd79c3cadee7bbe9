CONSTANTS
  Workers = {w1, w2}
  Free = Free
  Api = Api
  MaxMessages = 2
  MaxReads = 1
  MaxPosts = 3
  MaxFaults = 2
SPECIFICATION FairSpec
INVARIANT TypeOK
INVARIANT AttemptsCovered
INVARIANT NeverDropped
PROPERTY AcceptedInTheEnd
