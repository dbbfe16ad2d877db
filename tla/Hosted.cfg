\* Two calls of a contact, one with a promised SMS: redelivered webhooks, a stop or crash
\* twice, corrections and requests in doubt, under fairness.
SPECIFICATION FairSpec
CONSTANTS
  c1 = c1  c2 = c2
  None = None
  Calls = {c1, c2}
  SmsCalls = {c1}
  MaxDeliveries = 2
  MaxCrashes = 2
  MaxSends = 2
INVARIANTS AtMostOneSms CorrectionIsSafe
PROPERTIES VerdictIsFinal EventuallySettled
CHECK_DEADLOCK FALSE
