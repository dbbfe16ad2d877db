\* Two messages and a /stop, with repeated webhooks, one fault, a crash or close and its recovery.
CONSTANTS
  m1 = m1
  m2 = m2
  s1 = s1
  c1 = c1
  Chats = {m1, m2}
  Stops = {s1}
  Clears = {c1}
  Scripts <- MCScripts
  MaxDeliveries = 2
  MaxRuns = 3
  MaxFaults = 2
  EarlyWebhooks = FALSE
SPECIFICATION Spec
INVARIANTS RunOnce AnswersAreRecorded ReceiptsAreKept
PROPERTY StoppedStaysStopped
CHECK_DEADLOCK FALSE
