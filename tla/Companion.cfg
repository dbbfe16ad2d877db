\* Two grants of a WhatsApp group: live messages, one of them a slash command, one the
\* answer of a question, race with initializations, supersession and revocation.
SPECIFICATION Spec
CONSTANTS
  e1 = e1  e2 = e2  e3 = e3  e4 = e4
  a = a  b = b  s1 = s1  s2 = s2  s3 = s3
  None = None
  Receipts = {e1, e2, e3, e4}
  Activations = {a, b}
  Sources = {s1, s2, s3}
  Sequence <- Numbers
  Source <- Messages
  Phase <- TwoGrantsPhase
  Activation <- TwoGrantsActivation
  Trigger <- TwoGrantsTrigger
  Channel = "whatsapp"
  Disallowed = {}
  Control = {e2}
  SlowAnswers = {}
  MaxAttempts = 1
  MaxFaults = 1
  MaxCrashes = 1
  MaxDecisions = 0
INVARIANTS TypeOK AnswerHeld SingleFlight RetiredStaysRetired
PROPERTIES OvertakesOnlyLateArrivals KeepsLedger
