\* Two consults, repeated requests to hang up, responses of the server's own, and a
\* send that fails.
CONSTANTS
  c1 = c1  c2 = c2  h1 = h1  h2 = h2  h3 = h3  a1 = a1
  ToolCalls = {c1, c2, h1, h2, h3, a1}
  Tool <- SixCalls
  Scenes <- FiveScenes
SPECIFICATION BridgeSpec
INVARIANT AnswersAreHeard
PROPERTY HangupEndsTheCall
CHECK_DEADLOCK FALSE
