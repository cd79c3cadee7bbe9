CONSTANTS
  Workers = {w1, w2}
  Free = Free
  Api = Api
  MaxReads = 1
  MaxFaults = 2
SPECIFICATION Spec
INVARIANT SubmittedJobsAreWorkedOn
