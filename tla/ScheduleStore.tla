---------------------------- MODULE ScheduleStore ----------------------------
(***************************************************************************)
(* One saved job of the durable schedule store and the history of its      *)
(* executions (inkbox_codex/schedules.py).  The gateway's worker           *)
(* materializes due occurrences, claims and finishes runs; the CLI and the *)
(* agent's tools edit, pause, delete, catch up and recover from other      *)
(* processes.  Every transaction is BEGIN IMMEDIATE, so an action is one   *)
(* transaction; the operators below compose what a transaction does on a   *)
(* record db of the job, its runs and the settings row.                    *)
(*                                                                         *)
(* Time is counted in ticks; an occurrence is the instant it is due.  A    *)
(* cron expression is the set of its instants: past the last one           *)
(* next_cron fails, as for an expression without an execution in the next  *)
(* eight years or a timezone that was uninstalled.                         *)
(***************************************************************************)
EXTENDS Integers, Sequences, FiniteSets, FiniteSetsExt

CONSTANTS
  None,
  Kinds,        \* schedule kinds used: subset of {"once", "interval", "cron"}
  Period,       \* seconds of an interval schedule
  CronTimes,    \* the instants of the cron expression
  OnceDelay,    \* how far ahead a one-off execution is saved
  Grace,        \* GRACE_SECONDS
  Batch,        \* CRON_BATCH_SIZE
  EndTimes,     \* values of end_at, None for no limit
  RunLimits,    \* values of max_runs, None for no limit
  Modes,        \* values of decision_required
  Menus,        \* of one behaviour: the settings its operators change (fields of
                \* update(), "on"), its schedule kinds, and its bounds on time and on
                \* gateways that stop with a run under way
  MaxRows,      \* bounds of the model
  MaxCalls      \* operator commands

ASSUME ScheduleAssumption ==
  /\ Kinds \subseteq {"once", "interval", "cron"}
  /\ Period \in Nat \ {0} /\ OnceDelay \in Nat \ {0} /\ Grace \in Nat /\ Batch \in Nat \ {0}
  /\ CronTimes \subseteq Nat \ {0} /\ IsFiniteSet(CronTimes)
  /\ EndTimes \subseteq Nat \cup {None} /\ RunLimits \subseteq (Nat \ {0}) \cup {None}
  /\ Modes \subseteq BOOLEAN
  /\ \A m \in Menus :
       /\ m.edits \subseteq {"enabled", "catchUp", "schedule", "prompt", "decisionRequired",
                          "endAt", "maxRuns", "on"}
       /\ m.kinds \subseteq Kinds /\ m.horizon \in Nat /\ m.stops \in Nat
  /\ None \notin Int /\ None \notin {"max_runs", "end_at", "decision"}
  /\ MaxRows \in Nat /\ MaxCalls \in Nat

Statuses == {"pending", "starting", "running", "uncertain", "succeeded", "failed",
             "missed", "cancelled", "retried", "dismissed"}
Live == {"pending", "starting", "running", "uncertain"}
Sources == {"schedule", "auto_catch_up", "catch_up", "manual", "retry", "paused",
            "schedule_error"}
Catchable == {"schedule", "auto_catch_up", "catch_up"}

VARIABLES
  db,        \* job, runs (in order of creation), on and beat of the settings row
  now,       \* the clock
  claimAt,   \* the time a claim() works with between its two transactions
  call,      \* an update() or catch_up() between two of its batches
  menu,      \* what this behaviour varies, chosen initially
  \* history, for the properties only
  licensed,  \* no run ended without "continue" since an operator's resume
  paused,    \* the instants that came while the job was not enabled
  calls, stops

ghost == <<menu, paused, calls, stops>>
vars == <<db, now, claimAt, call, licensed, ghost>>

Time == 0 .. Max({m.horizon : m \in Menus})
Row == [status : Statuses, source : Sources, first : Nat, last : Nat, count : Nat \ {0},
        current : Nat \cup {None}, link : Nat, decision : {None, "continue", "stop"},
        host : BOOLEAN, started : BOOLEAN, due : SUBSET Nat]
Job == [schedule : Kinds, next : Nat \cup {None}, enabled : BOOLEAN, deleted : BOOLEAN,
        catchUp : BOOLEAN, decisionRequired : Modes, endAt : EndTimes,
        maxRuns : RunLimits, runCount : Nat,
        stop : {None, "max_runs", "end_at", "decision"}]
AllEdits ==
  [enabled : BOOLEAN] \cup [catchUp : BOOLEAN] \cup [schedule : Kinds]
  \cup [prompt : {"edited"}] \cup [decisionRequired : Modes]
  \cup [endAt : EndTimes] \cup [maxRuns : RunLimits]
  \cup [enabled : {TRUE}, endAt : EndTimes, maxRuns : RunLimits]
  \cup [enabled : BOOLEAN, schedule : Kinds]
EditsOf == [m \in Menus |-> {c \in AllEdits :
  DOMAIN c \subseteq m.edits /\ ("schedule" \in DOMAIN c => c.schedule \in m.kinds)}]

TypeOK ==
  /\ db.job \in Job
  /\ \A i \in DOMAIN db.runs : db.runs[i] \in Row /\ db.runs[i].link \in 0 .. Len(db.runs)
  /\ db.on \in BOOLEAN /\ db.beat \in Nat \cup {None}
  /\ now \in Time /\ claimAt \in Time \cup {None}
  /\ call = None \/ call.at \in Time
  /\ menu \in Menus
  /\ licensed \in BOOLEAN /\ paused \subseteq Time
  /\ calls \in Nat /\ stops \in Nat
-----------------------------------------------------------------------------
(* Schedules *)

\* next_cron has an answer.
Calculable(t) == \E c \in CronTimes : c > t
NextCron(t) == Min({c \in CronTimes : c > t})

\* validate_schedule: the first occurrence of a schedule saved at t.
Valid(kind, t) == kind = "cron" => Calculable(t)
FirstDue(kind, t) ==
  CASE kind = "once" -> t + OnceDelay
    [] kind = "interval" -> t + Period
    [] kind = "cron" -> NextCron(t)

\* The occurrences collected at once: all that are due, one batch of a cron's.
DueBy(kind, due, horizon) ==
  CASE kind = "once" -> {due}
    [] kind = "interval" -> {d \in due .. horizon : (d - due) % Period = 0}
    [] kind = "cron" ->
         {c \in CronTimes : /\ due <= c /\ c <= horizon
                            /\ Cardinality({b \in CronTimes : due <= b /\ b < c}) < Batch}
NextAfter(kind, last) ==
  CASE kind = "once" -> None
    [] kind = "interval" -> last + Period
    [] kind = "cron" -> NextCron(last)
-----------------------------------------------------------------------------
(* Inside a transaction *)

Pending(d) == {i \in DOMAIN d.runs : d.runs[i].status = "pending"}
LiveRows(d) == {i \in DOMAIN d.runs : d.runs[i].status \in Live}
\* The occurrences that some rows count.
Occurrences(d, rows) == MapThenSumSet(LAMBDA i : d.runs[i].count, rows)
\* _active: the live run of the job, 0 if there is none.
Active(d) == IF LiveRows(d) = {} THEN 0 ELSE CHOOSE i \in LiveRows(d) : TRUE
ActiveIs(d, statuses, sources) ==
  \E i \in LiveRows(d) : d.runs[i].status \in statuses /\ d.runs[i].source \in sources

NewRow(status, source, first, last, count, due) ==
  [status |-> status, source |-> source, first |-> first, last |-> last, count |-> count,
   current |-> IF status = "pending" /\ source = "schedule" THEN last ELSE None,
   link |-> 0, decision |-> None, host |-> FALSE, started |-> FALSE, due |-> due]
\* _insert_run
InsertRun(d, row) == [d EXCEPT !.runs = Append(@, row)]

\* _limit_reason
Limit(job, t) ==
  IF job.maxRuns # None /\ job.runCount >= job.maxRuns THEN "max_runs"
  ELSE IF job.endAt # None /\ t > job.endAt + Grace THEN "end_at"
  ELSE None

\* Cancel queued runs; the misses they would have caught up are free again.
CancelOnly(d, queued) ==                       \* slip: the misses stay linked
  [d EXCEPT !.runs = [i \in DOMAIN @ |->
     IF i \in queued THEN [@[i] EXCEPT !.status = "cancelled"] ELSE @[i]]]
Cancel(d, queued) ==
  [d EXCEPT !.runs = [i \in DOMAIN @ |->
     IF i \in queued THEN [@[i] EXCEPT !.status = "cancelled"]
     ELSE IF @[i].status = "missed" /\ @[i].link \in queued THEN [@[i] EXCEPT !.link = 0]
     ELSE @[i]]]

\* _stop_job
StopJob(d, reason) ==
  [Cancel(d, Pending(d)) EXCEPT !.job.enabled = FALSE, !.job.next = None, !.job.stop = reason]

\* _coalesce: the misses that wait for a catch-up, and the run that takes them
\* (0 for none): a queued one, or a new one.
Misses(d) == {i \in DOMAIN d.runs :
  d.runs[i].status = "missed" /\ d.runs[i].source # "paused" /\ d.runs[i].link = 0}
Target(d) ==
  IF Misses(d) = {} \/ (Active(d) # 0 /\ ~ActiveIs(d, {"pending"}, Catchable)) THEN 0
  ELSE IF Active(d) = 0 THEN Len(d.runs) + 1 ELSE Active(d)
LinkTo(d, missed, run) ==
  [d EXCEPT !.runs = [i \in DOMAIN @ |->
     IF i \in missed THEN [@[i] EXCEPT !.link = run] ELSE @[i]]]
Grown(row, source, first, last, count, due) ==
  [row EXCEPT !.source = IF @ = "catch_up" THEN @ ELSE source,
              !.first = Min({@, first}), !.last = Max({@, last}),
              !.count = @ + count, !.due = @ \cup due]
CoalesceInto(d, source, missed, target) ==
  LET first == Min({d.runs[i].first : i \in missed})
      last == Max({d.runs[i].last : i \in missed})
      count == Occurrences(d, missed)
      due == UNION {d.runs[i].due : i \in missed}
  IN LinkTo(IF target > Len(d.runs)
            THEN InsertRun(d, NewRow("pending", source, first, last, count, due))
            ELSE [d EXCEPT !.runs[target] = Grown(@, source, first, last, count, due)],
            missed, target)
Coalesce(d, source) ==
  IF Target(d) = 0 THEN d ELSE CoalesceInto(d, source, Misses(d), Target(d))

\* A scheduler that beat recently is busy, not unavailable.
Fresh(d, t) == d.beat # None /\ d.beat >= t - Grace

\* A queued occurrence that missed its window while nobody could start it.
NeverAges(d, t) == d                           \* slip: it stays queued
AgeOut(d, t) ==
  IF ActiveIs(d, {"pending"}, {"schedule"}) /\ d.runs[Active(d)].last < t - Grace /\ ~Fresh(d, t)
  THEN [d EXCEPT !.runs[Active(d)].status = "missed"] ELSE d

\* No occurrence is left on or before end_at.
PastEnd(job, due) == due # None /\ job.endAt # None /\ due > job.endAt
CloseWindow(d) == IF PastEnd(d.job, d.job.next) THEN [d EXCEPT !.job.next = None] ELSE d

Horizon(job, t) == IF job.endAt # None /\ job.endAt < t THEN job.endAt ELSE t
Due(job, t) == job.next # None /\ job.next <= Horizon(job, t)
Collected(job, t) == DueBy(job.schedule, job.next, Horizon(job, t))

\* Slip: an occurrence is queued although the job has a live run.
WheneverCaughtUp(d, t, last, next) == (next = None \/ next > t) /\ last >= t - Grace
OnTime(d, t, last, next) ==
  (next = None \/ next > t) /\ last >= t - Grace /\ Active(d) = 0

\* The due occurrences become a missed row and, for the last one if it is on
\* time, a queued run that also takes the misses of a job that catches up.
NextDue(job, all) ==
  LET after == NextAfter(job.schedule, Max(all))
  IN IF PastEnd(job, after) THEN None ELSE after
Recorded(d, missed, next) ==
  [(IF missed = {} THEN d
    ELSE InsertRun(d, NewRow("missed", "schedule", Min(missed), Max(missed),
                             Cardinality(missed), missed)))
     EXCEPT !.job.next = next]
Renewed(row, last) ==
  [row EXCEPT !.last = last, !.current = last, !.count = @ + 1, !.due = @ \cup {last}]
Queued(d, last) ==
  IF ~d.job.catchUp \/ Target(d) = 0
  THEN InsertRun(d, NewRow("pending", "schedule", last, last, 1, {last}))
  ELSE [Coalesce(d, "auto_catch_up") EXCEPT !.runs[Target(d)] = Renewed(@, last)]
CollectAll(d, t, all, next) ==
  IF OnTime(d, t, Max(all), next)
  THEN Queued(Recorded(d, all \ {Max(all)}, next), Max(all))
  ELSE Recorded(d, all, next)
Collect(d, t) ==
  IF Due(d.job, t)
  THEN CollectAll(d, t, Collected(d.job, t), NextDue(d.job, Collected(d.job, t)))
  ELSE d

\* _materialize_job
Uncalculable(d, t) ==
  /\ Limit(d.job, t) # "max_runs" /\ d.job.schedule = "cron"
  /\ Due(d.job, t) /\ ~Calculable(Max(Collected(d.job, t)))
\* What follows the collection: the end of the window, or the catch-up.
WindUp(d, t) ==
  IF Limit(d.job, t) # None /\ d.job.next = None THEN StopJob(d, "end_at")
  ELSE IF d.job.catchUp /\ (d.job.next = None \/ d.job.next > t)
  THEN Coalesce(d, "auto_catch_up")
  ELSE d
MaterializeJob(d, t) ==
  IF Limit(d.job, t) = "max_runs" THEN StopJob(d, "max_runs")
  ELSE WindUp(Collect(CloseWindow(AgeOut(d, t)), t), t)

\* _materialize_safely: a schedule that fails disables its job with a receipt.
Safely(d, t) ==
  IF ~Uncalculable(d, t) THEN MaterializeJob(d, t)
  ELSE [InsertRun(d, NewRow("failed", "schedule_error", d.job.next,
                            Max({d.job.next, t}), 1, {}))
          EXCEPT !.job.enabled = FALSE]
Behind(d, t) == d.job.next # None /\ d.job.next <= t
-----------------------------------------------------------------------------
(* update() *)

Has(c, f) == f \in DOMAIN c
EditsTask(c) == DOMAIN c \cap {"prompt", "schedule", "decisionRequired"} # {}
EditsLimits(c) == DOMAIN c \cap {"endAt", "maxRuns"} # {}
Pauses(c) == Has(c, "enabled") /\ ~c.enabled
Enables(c) == Has(c, "enabled") /\ c.enabled
Merge(job, c) == [f \in DOMAIN job |-> IF f \in DOMAIN c THEN c[f] ELSE job[f]]

ValidEdit(c, t) ==
  /\ Has(c, "schedule") => Valid(c.schedule, t)
  /\ Has(c, "endAt") => IF c.endAt = None THEN TRUE ELSE c.endAt > t

\* Collect up to now before the change takes effect.
Collects(d, c) == d.job.enabled /\ (Pauses(c) \/ EditsTask(c) \/ EditsLimits(c))
UpToDate(d, c, t) == IF Collects(d, c) THEN Safely(d, t) ELSE d
Busy(d, c) ==
  /\ Active(d) # 0 /\ d.runs[Active(d)].status # "pending"
  /\ EditsTask(c) \/ EditsLimits(c)
  /\ d.runs[Active(d)].status # "uncertain" \/ EditsTask(c)

\* Replacing a schedule that just failed keeps the job enabled.
Repaired(d, c, t) ==
  IF Collects(d, c) /\ Uncalculable(d, t) /\ Has(c, "schedule") /\ ~Has(c, "enabled")
  THEN [f \in DOMAIN c \cup {"enabled"} |-> IF f = "enabled" THEN TRUE ELSE c[f]] ELSE c

\* The timing restarts from now when a job resumes or its window is extended; a
\* one-off that came due while it was paused is recorded, not run.
KeepsTiming(m, c) == FALSE                     \* slip: resume where it stopped
ResumesTiming(m, c) ==
  /\ ~Has(c, "schedule")
  /\ \/ Enables(c) /\ ~m.job.enabled
     \/ /\ Has(c, "endAt") /\ m.job.next = None /\ m.job.enabled
        /\ c.endAt = None \/ m.job.endAt = None \/ c.endAt > m.job.endAt
Retimed(m, c, t) ==
  IF Has(c, "schedule") THEN [m EXCEPT !.job.next = FirstDue(c.schedule, t)]
  ELSE IF ~ResumesTiming(m, c) THEN m
  ELSE IF m.job.schedule # "once" THEN [m EXCEPT !.job.next = FirstDue(m.job.schedule, t)]
  ELSE IF Behind(m, t)
  THEN [InsertRun(m, NewRow("missed", "paused", m.job.next, m.job.next, 1, {m.job.next}))
          EXCEPT !.job.next = None]
  ELSE m

\* _restore_current_occurrence: what the cancelled catch-up held beyond misses.
\* (A receipt of an older release, without current_due, is not modelled.)
RestoreCurrent(m, i, t) ==
  LET caught == {k \in DOMAIN m.runs : m.runs[k].status = "missed" /\ m.runs[k].link = i}
      row == m.runs[i]
      left == row.count - Occurrences(m, caught)
      current == row.current
      timely == current >= t - Grace \/ Fresh(m, t)
  IN IF left <= 0 \/ current = None THEN m
     ELSE InsertRun(m, NewRow(IF timely THEN "pending" ELSE "missed", "schedule",
                              current, current, left, {current}))

DropsQueued(m, c) ==
  /\ ActiveIs(m, {"pending"}, Sources)
  /\ \/ Pauses(c) \/ EditsTask(c)
     \/ Has(c, "catchUp") /\ ~c.catchUp /\ m.runs[Active(m)].source = "auto_catch_up"
Dequeued(m, c, t) ==
  IF ~DropsQueued(m, c) THEN m
  ELSE LET i == Active(m)
           kept == IF Pauses(c) \/ EditsTask(c) THEN m
                   ELSE RestoreCurrent(CancelOnly(m, {i}), i, t)
       IN Cancel(kept, {i})

Changed(job, c) == [Merge(job, c) EXCEPT !.stop = IF Enables(c) THEN None ELSE @]
Saved(m, c) == [m EXCEPT !.job = Changed(@, c)]
StopIfSpent(d, t) == IF Limit(d.job, t) = None THEN d ELSE StopJob(d, Limit(d.job, t))
Applied(m, c, t) == StopIfSpent(Saved(Dequeued(Retimed(m, c, t), c, t), c), t)

\* What makes update() refuse, and roll everything back.
Refused(m, c, t) ==
  LET updated == [Merge(m.job, c) EXCEPT !.next = Retimed(m, c, t).job.next]
  IN \/ ResumesTiming(m, c) /\ ~Valid(m.job.schedule, t)
     \/ Enables(c) /\ Limit(updated, t) # None
     \/ /\ Has(c, "schedule") \/ EditsLimits(c) \/ Enables(c)
        /\ updated.enabled /\ PastEnd(updated, updated.next)
-----------------------------------------------------------------------------
Commit(d) == Len(d.runs) <= MaxRows /\ db' = d

Init ==
  /\ menu \in Menus
  /\ \E kind \in menu.kinds, e \in EndTimes, r \in RunLimits, catchUp \in BOOLEAN, mode \in Modes :
       /\ e # None => "endAt" \in menu.edits
       /\ r # None => "maxRuns" \in menu.edits
       /\ mode => "decisionRequired" \in menu.edits
       /\ Valid(kind, 0) /\ ~PastEnd([endAt |-> e], FirstDue(kind, 0))
       /\ db = [job |-> [schedule |-> kind, next |-> FirstDue(kind, 0), enabled |-> TRUE,
                         deleted |-> FALSE, catchUp |-> catchUp, decisionRequired |-> mode,
                         endAt |-> e, maxRuns |-> r, runCount |-> 0, stop |-> None],
                runs |-> <<>>, on |-> TRUE, beat |-> None]
  /\ now = 0 /\ claimAt = None /\ call = None
  /\ licensed = TRUE /\ paused = {}
  /\ calls = 0 /\ stops = 0

Tick ==
  /\ now < menu.horizon /\ now' = now + 1
  /\ paused' = IF db.job.enabled THEN paused ELSE paused \cup {now + 1}
  /\ UNCHANGED <<db, claimAt, call, licensed, menu, calls, stops>>

(* Operators: the CLI and the schedule tools *)

Command == calls < MaxCalls /\ calls' = calls + 1 /\ UNCHANGED <<menu, paused, stops>>

\* d: the job and its runs after this batch.
UpdateWith(d, c, t) ==
  IF Collects(db, c) /\ ~Uncalculable(db, t) /\ Behind(d, t)
  THEN Commit(d) /\ call' = [op |-> "update", at |-> t, changes |-> c] /\ UNCHANGED licensed
  ELSE LET changes == Repaired(db, c, t) IN
       /\ ~Refused(d, changes, t)
       /\ Commit(Applied(d, changes, t))
       /\ licensed' = (licensed \/ Enables(changes) \/ Has(changes, "decisionRequired"))
       /\ call' = None
UpdateStep(c, t) ==
  ~db.job.deleted /\ ~Busy(db, c) /\ UpdateWith(UpToDate(db, c, t), c, t)
Update(c) ==
  /\ Command /\ call = None /\ ValidEdit(c, now)
  /\ UpdateStep(c, now)
  /\ UNCHANGED <<now, claimAt>>

\* catch_up(): all the misses in one queued run, although catch-up is off.
Refuses(d, t) ==
  \/ d.job.deleted \/ ~d.job.enabled \/ Limit(d.job, t) # None
  \/ Active(d) # 0 /\ ~ActiveIs(d, {"pending"}, Catchable)
  \/ Uncalculable(d, t)
CaughtUpBy(d) ==
  IF Target(d) # 0 THEN Target(d)
  ELSE IF ActiveIs(d, Live, {"catch_up", "auto_catch_up"}) THEN Active(d) ELSE 0
CatchUpWith(d, t) ==
  IF Behind(d, t)
  THEN Commit(d) /\ call' = [op |-> "catch_up", at |-> t]
  ELSE LET run == CaughtUpBy(d) IN
       /\ run # 0
       /\ Commit([Coalesce(d, "catch_up") EXCEPT !.runs[run].source = "catch_up"])
       /\ call' = None
CatchUpStep(t) == ~Refuses(db, t) /\ CatchUpWith(MaterializeJob(db, t), t)
CatchUp ==
  /\ Command /\ call = None
  /\ CatchUpStep(now)
  /\ UNCHANGED <<now, claimAt, licensed>>

\* The next batch of a call, or its refusal.
NextBatch ==
  /\ call # None
  /\ \/ IF call.op = "update" THEN UpdateStep(call.changes, call.at)
        ELSE CatchUpStep(call.at) /\ UNCHANGED licensed
     \/ call' = None /\ UNCHANGED <<db, licensed>>
  /\ UNCHANGED <<now, claimAt, ghost>>

Deletable(d) == Active(d) # 0 => d.runs[Active(d)].status = "pending"
Delete ==
  /\ Command /\ ~db.job.deleted /\ Deletable(db)
  /\ db' = [CancelOnly(db, Pending(db)) EXCEPT !.job.deleted = TRUE, !.job.enabled = FALSE]
  /\ UNCHANGED <<now, claimAt, call, licensed>>

Enqueue ==
  /\ Command
  /\ ~db.job.deleted /\ db.job.enabled /\ Limit(db.job, now) = None /\ Active(db) = 0
  /\ Commit(InsertRun(db, NewRow("pending", "manual", now, now, 1, {})))
  /\ UNCHANGED <<now, claimAt, call, licensed>>

\* recover: an explicit, acknowledged decision on an ended run.
Recoverable(i) ==
  /\ ~db.job.deleted /\ db.runs[i].status \in {"uncertain", "failed"} /\ ~db.runs[i].host
Dismiss(i) ==
  /\ Command /\ Recoverable(i)
  /\ db' = [db EXCEPT !.runs[i].status = "dismissed"]
  /\ UNCHANGED <<now, claimAt, call, licensed>>
Retry(i) ==
  /\ Command /\ Recoverable(i) /\ Limit(db.job, now) = None /\ db.job.enabled
  /\ LET r == db.runs[i]
         d == [db EXCEPT !.runs[i].status = "retried", !.runs[i].link = Len(db.runs) + 1]
     IN /\ Active(d) = 0
        /\ Commit(InsertRun(d, NewRow("pending", "retry", r.first, r.last, r.count, r.due)))
  /\ UNCHANGED <<now, claimAt, call, licensed>>

SetEnabled(on) ==
  /\ Command /\ "on" \in menu.edits
  /\ db' = [db EXCEPT !.on = on, !.runs = [i \in DOMAIN @ |->
       IF ~on /\ @[i].status = "pending" /\ @[i].source = "schedule"
       THEN [@[i] EXCEPT !.status = "missed"] ELSE @[i]]]
  /\ UNCHANGED <<now, claimAt, call, licensed>>

(* The gateway's worker *)

Heartbeat ==
  /\ db' = [db EXCEPT !.beat = now]
  /\ UNCHANGED <<now, claimAt, call, licensed, ghost>>

\* materialize(), the first transaction of claim() ...
Materialize ==
  /\ Commit(IF db.on /\ db.job.enabled /\ ~db.job.deleted THEN Safely(db, now) ELSE db)
  /\ claimAt' = now
  /\ UNCHANGED <<now, call, licensed, ghost>>

\* ... and the second, with the same time.
Claimable(d, t) == {i \in Pending(d) :
  /\ d.on /\ d.job.enabled /\ ~d.job.deleted /\ Limit(d.job, t) = None
  /\ d.runs[i].source = "auto_catch_up" => ~Behind(d, t)
  /\ \A k \in DOMAIN d.runs : ~d.runs[k].host}
Claim ==
  /\ claimAt # None /\ claimAt' = None
  /\ IF Claimable(db, claimAt) = {} THEN UNCHANGED db
     ELSE \E i \in Claimable(db, claimAt) :
       LET d == [db EXCEPT !.runs[i].status = "starting", !.runs[i].started = TRUE,
                           !.job.runCount = @ + 1]
       IN db' = IF Limit(d.job, claimAt) = "max_runs" THEN StopJob(d, "max_runs") ELSE d
  /\ UNCHANGED <<now, call, licensed, ghost>>

\* The host process is recorded as it starts, so before its run is "running".
RecordHost(i) ==
  /\ db.runs[i].status = "starting" /\ ~db.runs[i].host
  /\ db' = [db EXCEPT !.runs[i].host = TRUE]
  /\ UNCHANGED <<now, claimAt, call, licensed, ghost>>
ClearHost(i) ==
  /\ db.runs[i].host
  /\ db' = [db EXCEPT !.runs[i].host = FALSE]
  /\ UNCHANGED <<now, claimAt, call, licensed, ghost>>

MarkRunning(i) ==
  /\ db.runs[i].status = "starting" /\ db.runs[i].host
  /\ db' = [db EXCEPT !.runs[i].status = "running"]
  /\ UNCHANGED <<now, claimAt, call, licensed, ghost>>

\* decide: the running execution says whether its job goes on.
Decide(i, decision) ==
  /\ ~db.job.deleted /\ db.job.decisionRequired
  /\ db.runs[i].status = "running" /\ db.runs[i].decision \in {None, decision}
  /\ LET d == [db EXCEPT !.runs[i].decision = decision]
         limit == Limit(db.job, now)
     IN db' = IF decision = "continue" THEN d
              ELSE StopJob(d, IF limit = None THEN "decision" ELSE limit)
  /\ UNCHANGED <<now, claimAt, call, licensed, ghost>>

\* _apply_decision, in the transaction that records the outcome.
Continues(row, status) == status = "succeeded" /\ row.decision = "continue"
ApplyDecision(d, row, status) ==
  LET limit == Limit(d.job, now)
  IN IF ~d.job.decisionRequired \/ (limit = None /\ Continues(row, status)) THEN d
     ELSE StopJob(d, IF limit = None THEN "decision" ELSE limit)
Licenses(row, status) ==
  licensed' = (licensed /\ (db.job.decisionRequired => status = "succeeded" /\ row.decision = "continue"))

\* An execution fails before its prompt is submitted, or ends after that.
Finish(i, status) ==
  /\ \/ db.runs[i].status = "starting" /\ status = "failed"
     \/ db.runs[i].status = "running" /\ status \in {"succeeded", "uncertain"}
  /\ ~db.job.deleted
  /\ db' = ApplyDecision([db EXCEPT !.runs[i].status = status], db.runs[i], status)
  /\ Licenses(db.runs[i], status)
  /\ UNCHANGED <<now, claimAt, call, ghost>>

\* A gateway that starts, or whose worker failed to record an outcome.
Requeued == "pending"                          \* slip: interrupted work runs again
InDoubt == "uncertain"
RecoverInterrupted ==
  \E i \in DOMAIN db.runs :
    /\ db.runs[i].status \in {"starting", "running"}
    /\ ~db.job.deleted
    /\ db' = ApplyDecision([db EXCEPT !.runs[i].status = InDoubt], db.runs[i], InDoubt)
    /\ Licenses(db.runs[i], InDoubt)
    /\ claimAt' = None
    /\ stops < menu.stops /\ stops' = stops + 1
    /\ UNCHANGED <<now, call, menu, paused, calls>>
-----------------------------------------------------------------------------
Operators ==
  \/ \E c \in EditsOf[menu] : Update(c)
  \/ CatchUp \/ NextBatch \/ Delete \/ Enqueue
  \/ \E i \in DOMAIN db.runs : Dismiss(i) \/ Retry(i)
  \/ \E on \in BOOLEAN : SetEnabled(on)
Worker ==
  \/ Heartbeat \/ Materialize \/ Claim \/ RecoverInterrupted
  \/ \E i \in DOMAIN db.runs :
       \/ RecordHost(i) \/ ClearHost(i) \/ MarkRunning(i)
       \/ \E decision \in {"continue", "stop"} : Decide(i, decision)
       \/ \E status \in {"succeeded", "failed", "uncertain"} : Finish(i, status)
Next == Tick \/ Operators \/ Worker
Spec == Init /\ [][Next]_vars
-----------------------------------------------------------------------------
(* Properties *)

\* A job never has two live runs: the unique index one_live_run would refuse the
\* row, roll the transaction back and fail every later tick of the worker.
OneLiveRun == Cardinality(LiveRows(db)) <= 1

\* The history is accurate: the count and the first and last due time of a run
\* are those of the occurrences it stands for, through coalescing, restoring the
\* current occurrence, retries and repeated batches.
RowsAreAccurate == \A i \in DOMAIN db.runs : LET r == db.runs[i] IN
  IF r.due = {} THEN r.source \in {"manual", "retry", "schedule_error"}
  ELSE r.count = Cardinality(r.due) /\ r.first = Min(r.due) /\ r.last = Max(r.due)

\* An occurrence starts once: a second execution stands for it only after an
\* operator acknowledged the retry of the first.
StartedOnce == \A i, k \in DOMAIN db.runs :
  /\ i < k /\ db.runs[i].started /\ db.runs[k].started
  /\ db.runs[i].due \cap db.runs[k].due # {}
  => db.runs[i].status = "retried"

\* What a run row says is true: it is the job's only live run, stands for the occurrences
\* it counts, and for none that was started before.
RunsAreTrue == OneLiveRun /\ RowsAreAccurate /\ StartedOnce

\* A missed occurrence stays available for a catch-up until one that includes it
\* is started: no pause, edit, limit or changed setting strands it with a run
\* that was cancelled.
MissedStaysCatchable == \A i \in DOMAIN db.runs :
  db.runs[i].status = "missed" /\ db.runs[i].link # 0 /\ ~db.job.deleted
    => db.runs[db.runs[i].link].status # "cancelled"

\* Occurrences that came while the job was paused or stopped are never replayed.
PausedIsNotReplayed == \A i \in DOMAIN db.runs :
  db.runs[i].started => db.runs[i].due \cap paused = {}

\* A job that spent its executions is stopped, whatever the order of edits,
\* claims and retries; while it is enabled it may start another.
EnabledHasBudget ==
  /\ db.job.enabled /\ db.job.maxRuns # None => db.job.runCount < db.job.maxRuns
  /\ db.job.runCount = Cardinality({i \in DOMAIN db.runs : db.runs[i].started})

\* A job that requires decisions is enabled only while each of its executions
\* ended successfully with "continue", or an operator has resumed it since.
DecisionGates == db.job.enabled /\ db.job.decisionRequired => licensed

\* However limits, decisions, catch-up and scheduling are edited around claims and
\* outcomes, an enabled job may really start, and what it missed may be caught up.
LimitsAreKept == MissedStaysCatchable /\ EnabledHasBudget /\ DecisionGates

\* A scheduled occurrence starts within its grace, or while the worker has been
\* online (busy with another job); after an outage it is a miss.
Starts(i) == db.runs[i].status = "pending" /\ db'.runs[i].status = "starting"
StartsInWindow == [][\A i \in DOMAIN db.runs :
  Starts(i) /\ db.runs[i].source = "schedule" =>
    db.runs[i].last >= claimAt - Grace \/ Fresh(db, claimAt)]_vars

\* The promise of RunLedger, for the rows of the job.
Fate == [s \in Statuses |->
  CASE s = "missed" -> "missed"
    [] s = "pending" -> "queued"
    [] s \in {"starting", "running"} -> "executing"
    [] s = "uncertain" -> "doubt"
    [] s \in {"succeeded", "failed"} -> "ended"
    [] s \in {"cancelled", "dismissed", "retried"} -> "closed"]
Ledger == INSTANCE RunLedger
  WITH Runs <- 1 .. MaxRows, Job <- [i \in 1 .. MaxRows |-> None],
       fate <- [i \in 1 .. MaxRows |->
                  IF i \in DOMAIN db.runs THEN Fate[db.runs[i].status] ELSE "unknown"]
KeepsRunLedger == Ledger!LedgerSpec
=============================================================================
