\* A task with a follow-up, one fault of any kind (a request or a turn that fails, a
\* repeated webhook, a cancellation, a stop, a crash), and webhooks after the catch-up;
\* or webhooks while the gateway starts, within the bounds of EarlyIsBounded.
SPECIFICATION FairSpec
CONSTANTS
  NumMessages = 2
  MaxFaults = 1
ACTION_CONSTRAINT EarlyIsBounded
INVARIANT MessagesAreServedOnce
PROPERTIES AnswersAreFinal EverythingEnds
CHECK_DEADLOCK FALSE
