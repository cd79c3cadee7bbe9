CONSTANTS
  alice = alice
  r1 = r1
  r2 = r2
  Users = {alice}
  Requests = {r1, r2}
  UserOf <- MCUserOf
  Lengths = {2, 3}
  InitialQuota = 4
  RefundWorkers = {w1, w2}
  MaxCopies = 2
  Other = Other
  Free = Free
SPECIFICATION Spec
INVARIANT NoOverspend
