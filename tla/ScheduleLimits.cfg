\* Catch-up and scheduling switched off and on; end_at, max_runs and decisions of
\* executions, edited around claims, retries and outcomes in doubt.
CONSTANTS
  None = None
  Kinds = {"once", "interval", "cron"}
  Period = 1
  CronTimes <- ThreeInstants
  OnceDelay = 2
  Grace = 0
  Batch = 2
  EndTimes <- EndOrNone
  RunLimits <- RunsOrNone
  Modes = {FALSE, TRUE}
  Menus <- Limiting
  MaxRows = 3
  MaxCalls = 2
SPECIFICATION Spec
INVARIANT LimitsAreKept
PROPERTY KeepsRunLedger
