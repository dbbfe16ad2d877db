------------------------------ MODULE RunLedger ------------------------------
(***************************************************************************)
(* What the scheduler promises of the executions of its jobs, whatever is  *)
(* edited, missed, interrupted or recovered: a run that began never goes   *)
(* back to the queue, an outcome in doubt is resolved only by an operator, *)
(* and a job has one run in the queue, executing or in doubt at a time.    *)
(* ScheduleStore implements it for the rows of the database, Scheduler for *)
(* the worker and the host processes.                                      *)
(***************************************************************************)
EXTENDS Naturals

CONSTANTS Runs, Job      \* the runs, and the job of each

VARIABLE fate

Fates == {"unknown", "missed", "queued", "executing", "doubt", "ended", "closed"}

\* A run becomes known as queued, missed or already ended (a schedule that could
\* not be calculated), or is cancelled by what queued it.  "closed" runs are
\* cancelled, dismissed or retried.
Moves ==
  {<<"unknown", "queued">>, <<"unknown", "missed">>, <<"unknown", "ended">>,
   <<"unknown", "closed">>,
   <<"queued", "missed">>, <<"queued", "closed">>, <<"queued", "executing">>,
   <<"executing", "ended">>, <<"executing", "doubt">>,
   <<"doubt", "closed">>, <<"ended", "closed">>}
Live == {"queued", "executing", "doubt"}

\* The unique index one_live_run.
OneLive(f) == \A r, s \in Runs :
  r # s /\ Job[r] = Job[s] => ~(f[r] \in Live /\ f[s] \in Live)

LedgerInit == fate = [r \in Runs |-> "unknown"]
\* One transaction may move several runs.
LedgerNext ==
  LET old == fate
      new == fate'
  IN /\ new \in [Runs -> Fates]
     /\ \A r \in Runs : new[r] # old[r] => <<old[r], new[r]>> \in Moves
     /\ OneLive(new)
LedgerSpec == LedgerInit /\ [][LedgerNext]_fate
==============================================================================
