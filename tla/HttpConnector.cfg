SPECIFICATION Spec
CONSTANTS
  r1 = r1
  r2 = r2
  r3 = r3
  r4 = r4
  u1 = u1
  t1 = t1
  t2 = t2
  n1 = n1
  n2 = n2
  Requests <- MCRequests
  Users <- MCUsers
  Invites <- MCInvites
  Names <- MCNames
  Workloads <- MCWorkloads
INVARIANTS
  CacheIsHistory
  ResponseHasAnswer
CHECK_DEADLOCK FALSE
