\* The worker with two jobs, one of them retried, failed writes and stopped gateways, under fairness.
CONSTANTS
  a1 = a1
  a2 = a2
  b1 = b1
  A = A
  B = B
  None = None
  Runs = {a1, a2, b1}
  Jobs = {A, B}
  Job <- TwoJobs
  MaxFaults = 2
  MaxStops = 1
SPECIFICATION FairSpec
INVARIANT HostsAreFenced
PROPERTIES StoreIsTrue EventuallyEnded
