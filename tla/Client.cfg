\* Two turns and their tools: early and late lines of the app-server, a question, a Stop, a
\* /clear, rejected requests, an app-server that dies or garbles its output, and the client
\* that replaces it; two of these at a time.
CONSTANTS
  Turns = {"t1", "t2"}
  Shell = {}
  Contexts = {"t2"}
  ItemKinds = {"final"}
  MaxItems = 1
  MaxHosts = 2
  MaxStops = 1
  Scenes = {{"ask", "death"}, {"ask", "close"}, {"stop", "error"}, {"tool", "close"}, {"tool", "stop"}}
SPECIFICATION Spec
INVARIANT TurnsAreServed
PROPERTIES StopHitsItsTurns ToolsActForTheirTurn
CHECK_DEADLOCK FALSE
