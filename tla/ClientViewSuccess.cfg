CONSTANTS
  Workers = {w1}
  Free = Free
  Api = Api
  MaxReads = 1
  MaxFaults = 1
SPECIFICATION ViewSpec
INVARIANT ReportedSuccessIsSuccess
