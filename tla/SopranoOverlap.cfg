CONSTANTS
  Requests = {a, b}
  MaxChunks = 1
  Free = Free
SPECIFICATION Spec
INVARIANT OneInference
