\* An event posted twice and a reaction, two messages, rejections and reports under
\* different keys, lost responses, the end of the window and a stop of the gateway.
CONSTANTS
  w1 = w1  w2 = w2  w3 = w3  w4 = w4  w5 = w5  w6 = w6  w7 = w7
  e1 = e1  e2 = e2  e3 = e3  e4 = e4  e5 = e5  e6 = e6  r1 = r1  r2 = r2
  None = None
  Webhooks = {w1, w2, w3, w4, w5, w6, w7}
  Event <- Posts
  Request <- Requested
  Kind <- SixKinds
  Home = "contact"
  Chats = {"contact", "thread"}
  Traffic <- SixScenes
  MaxAttempts = 3
  MaxWindows = 1
  MaxFaults = 1
SPECIFICATION WebhooksSpec
INVARIANTS HandledOnce BudgetIsShared CountsAreFresh
CHECK_DEADLOCK FALSE
