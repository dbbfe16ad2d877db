\* An interval job under pauses and catch-up, a one-off or cron job whose schedule is
\* edited: late workers, outages, batches of a long backlog, expressions that run out.
CONSTANTS
  None = None
  Kinds = {"once", "interval", "cron"}
  Period = 1
  CronTimes <- ThreeInstants
  OnceDelay = 2
  Grace = 1
  Batch = 2
  EndTimes <- NoLimit
  RunLimits <- NoLimit
  Modes = {FALSE}
  Menus <- Editing
  MaxRows = 3
  MaxCalls = 2
SPECIFICATION Spec
INVARIANTS RunsAreTrue PausedIsNotReplayed
PROPERTY StartsInWindow
