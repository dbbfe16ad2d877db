\* Slack: an initialization that is an input of its own, the trigger, delivered live,
\* whose interaction awaits a send before it returns, and a refused message behind them.
SPECIFICATION FairSpec
CONSTANTS
  e1 = e1  e2 = e2  e3 = e3  e4 = e4
  a = a  b = b  s1 = s1  s2 = s2  s3 = s3
  None = None
  Receipts = {e1, e2, e3}
  Activations = {a}
  Sources = {s1, s2, s3}
  Sequence <- OrdinaryLast
  Source <- Messages
  Phase <- MixedPhase
  Activation <- MixedActivation
  Trigger <- MixedTrigger
  Channel = "slack"
  Disallowed = {e1}
  Control = {}
  SlowAnswers = {e3}
  MaxAttempts = 1
  MaxFaults = 2
  MaxCrashes = 1
  MaxDecisions = 1
INVARIANTS InputsAreAccountedFor AtMostOnce
PROPERTY EventuallySettled
