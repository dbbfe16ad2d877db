------------------------------ MODULE Scheduler ------------------------------
(***************************************************************************)
(* The gateway's scheduler (inkbox_codex/scheduler.py): the worker that    *)
(* claims one run at a time, executes it in a Codex host process of its    *)
(* own, and stops ("fences") the processes that an execution or an earlier *)
(* gateway left behind.  The gateway may stop at any point, processes      *)
(* survive it, a process may resist being stopped, and any write to the    *)
(* store may fail.                                                         *)
(*                                                                         *)
(* The store is reduced to what the worker shares with it: the status of   *)
(* each run and whether a host process is recorded for it.  ScheduleStore  *)
(* models the rest.                                                        *)
(***************************************************************************)
EXTENDS Naturals, FiniteSets

CONSTANTS
  Runs, Jobs, None,
  Job,                    \* the job of a run
  MaxFaults, MaxStops     \* failed writes and stopped gateways: bounds of the model

ASSUME RunsAssumption ==
  /\ Job \in [Runs -> Jobs] /\ None \notin Runs
  /\ MaxFaults \in Nat /\ MaxStops \in Nat

Live == {"pending", "starting", "running", "uncertain"}
Statuses == Live \cup {"absent", "succeeded", "failed", "cancelled", "retried", "dismissed"}

VARIABLES
  \* the store
  status,      \* runs.status, "absent" before the run exists
  host,        \* the runs with a recorded host_pid
  \* the operating system: survives the gateway
  procs,       \* the runs whose host process group is alive
  \* the gateway
  gateway,     \* "down", "starting" (start() holds the lock), "up" or "closing"
  active,      \* the run of the _execute task, None without a task
  stage,       \* the await at which _execute stands, or how it ended
  outcome,     \* the outcome _execute will record
  stopped,     \* its process is known to be gone
  unrecorded,  \* _unrecorded_hosts: processes whose ownership could not be saved
  fencing,     \* the loop is inside _fence_orphans
  orphans,     \* the recorded hosts it has still to stop
  \* history
  submitted,   \* the runs whose prompt was submitted
  faults, stops

store == <<status, host>>
execution == <<active, stage, outcome, stopped>>
bounds == <<faults, stops>>
vars == <<store, procs, gateway, execution, unrecorded, fencing, orphans, submitted, bounds>>

TypeOK ==
  /\ status \in [Runs -> Statuses]
  /\ host \subseteq Runs /\ procs \subseteq Runs /\ unrecorded \subseteq Runs
  /\ gateway \in {"down", "starting", "up", "closing"}
  /\ active \in Runs \cup {None}
  /\ stage \in {"none", "spawn", "record", "connect", "turn", "cleanup", "save",
               "finish", "clear", "done", "raised"}
  /\ stopped \in BOOLEAN
  /\ outcome \in {None, "succeeded", "failed", "uncertain"}
  /\ fencing \in BOOLEAN /\ orphans \subseteq Runs
  /\ submitted \subseteq Runs /\ faults \in Nat /\ stops \in Nat

Init ==
  /\ status = [r \in Runs |-> "absent"] /\ host = {} /\ procs = {}
  /\ gateway = "down" /\ active = None /\ stage = "none" /\ outcome = None /\ stopped = FALSE
  /\ unrecorded = {} /\ fencing = FALSE /\ orphans = {}
  /\ submitted = {} /\ faults = 0 /\ stops = 0
-----------------------------------------------------------------------------
(* The store, as operators and materialization use it (see ScheduleStore) *)

LiveRuns(j) == {r \in Runs : Job[r] = j /\ status[r] \in Live}

\* A run is due, or queued by hand.
Due(r) ==
  /\ status[r] = "absent" /\ LiveRuns(Job[r]) = {}
  /\ status' = [status EXCEPT ![r] = "pending"]
  /\ UNCHANGED <<host, procs, gateway, execution, unrecorded, fencing, orphans, submitted, bounds>>

\* A pause, an edit or a limit.
CancelQueued(r) ==
  /\ status[r] = "pending"
  /\ status' = [status EXCEPT ![r] = "cancelled"]
  /\ UNCHANGED <<host, procs, gateway, execution, unrecorded, fencing, orphans, submitted, bounds>>

Recoverable(r) == status[r] \in {"uncertain", "failed"} /\ r \notin host
Dismiss(r) ==
  /\ Recoverable(r)
  /\ status' = [status EXCEPT ![r] = "dismissed"]
  /\ UNCHANGED <<host, procs, gateway, execution, unrecorded, fencing, orphans, submitted, bounds>>
\* Run n retries run r.
Retry(r, n) ==
  /\ Recoverable(r) /\ status[n] = "absent" /\ Job[n] = Job[r]
  /\ LiveRuns(Job[r]) \subseteq {r}
  /\ status' = [status EXCEPT ![r] = "retried", ![n] = "pending"]
  /\ UNCHANGED <<host, procs, gateway, execution, unrecorded, fencing, orphans, submitted, bounds>>

\* recover_interrupted
Requeued == [r \in Runs |->                    \* slip: interrupted work runs again
  IF status[r] \in {"starting", "running"} THEN "pending" ELSE status[r]]
RunningOnly == [r \in Runs |->                 \* slip: it may not have started
  IF status[r] = "running" THEN "uncertain" ELSE status[r]]
Interrupted == [r \in Runs |->
  IF status[r] \in {"starting", "running"} THEN "uncertain" ELSE status[r]]

\* A write that fails raises; the bound counts them.
Fault == faults < MaxFaults /\ faults' = faults + 1
-----------------------------------------------------------------------------
(* _execute: one run in a host process of its own *)

CleanUp(o) == stage' = "cleanup" /\ outcome' = o

\* The process is created, or cannot be.
Spawn ==
  /\ gateway # "down" /\ stage = "spawn"
  /\ \/ /\ procs' = procs \cup {active}
        /\ stage' = "record" /\ UNCHANGED outcome
     \/ CleanUp("failed") /\ UNCHANGED procs
  /\ UNCHANGED <<store, gateway, active, stopped, unrecorded, fencing, orphans, submitted, bounds>>

Unowned == CleanUp("failed")

\* process_started: ownership is saved before the handshake, or remembered.
Record ==
  /\ gateway # "down" /\ stage = "record"
  /\ \/ /\ host' = host \cup {active}
        /\ stage' = "connect"
        /\ UNCHANGED <<outcome, unrecorded, faults>>
     \/ /\ Fault
        /\ unrecorded' = unrecorded \cup {active}
        /\ Unowned
        /\ UNCHANGED host
  /\ UNCHANGED <<status, procs, gateway, active, stopped, fencing, orphans, submitted, stops>>

\* connect() and mark_running(): then the prompt is submitted.  A handshake or
\* a write that fails ends the execution before that.
Connect ==
  /\ gateway # "down" /\ stage = "connect"
  /\ \/ /\ active \in procs
        /\ status' = [status EXCEPT ![active] = "running"]
        /\ submitted' = submitted \cup {active}
        /\ stage' = "turn"
        /\ UNCHANGED outcome
     \/ CleanUp("failed") /\ UNCHANGED <<status, submitted>>
  /\ UNCHANGED <<host, procs, gateway, active, stopped, unrecorded, fencing, orphans, bounds>>

\* The turn ends, fails or times out.
TurnOutcomes == {"succeeded", "uncertain"}
TurnEnds ==
  /\ gateway # "down" /\ stage = "turn"
  /\ \E o \in TurnOutcomes : CleanUp(o)
  /\ UNCHANGED <<store, procs, gateway, active, stopped, unrecorded, fencing, orphans, submitted, bounds>>

\* What a stop of process r leaves, when it is confirmed and when it is not.
StopsProcess(r, confirmed) ==
  procs' \in IF confirmed THEN {procs \ {r}} ELSE {procs, procs \ {r}}

\* The host is disconnected; a confirmed stop forgets an unsaved ownership.
Disconnect ==
  /\ gateway # "down" /\ stage = "cleanup"
  /\ \E confirmed \in BOOLEAN :
       /\ StopsProcess(active, confirmed)
       /\ stopped' = confirmed
       /\ unrecorded' = IF confirmed THEN unrecorded \ {active} ELSE unrecorded
  /\ stage' = IF active \in unrecorded' THEN "save" ELSE "finish"
  /\ UNCHANGED <<store, gateway, active, outcome, fencing, orphans, submitted, bounds>>

LeavesOpen == "done"

\* Ownership that could not be saved is tried again.  While it is not, the run is
\* left "starting": nothing else of its job can be claimed.
Save ==
  /\ gateway # "down" /\ stage = "save"
  /\ \/ /\ host' = host \cup {active}
        /\ unrecorded' = unrecorded \ {active}
        /\ stage' = "finish" /\ UNCHANGED faults
     \/ Fault /\ stage' = LeavesOpen /\ UNCHANGED <<host, unrecorded>>
  /\ UNCHANGED <<status, procs, gateway, active, outcome, stopped, fencing, orphans,
                 submitted, stops>>

Finish ==
  /\ gateway # "down" /\ stage = "finish"
  /\ \/ /\ status' = [status EXCEPT ![active] = outcome]
        /\ stage' = IF stopped THEN "clear" ELSE "done"
        /\ UNCHANGED faults
     \/ Fault /\ stage' = "raised" /\ UNCHANGED status
  /\ UNCHANGED <<host, procs, gateway, active, outcome, stopped, unrecorded, fencing,
                 orphans, submitted, stops>>

Clear ==
  /\ gateway # "down" /\ stage = "clear"
  /\ \/ host' = host \ {active} /\ stage' = "done" /\ UNCHANGED faults
     \/ Fault /\ stage' = "raised" /\ UNCHANGED host
  /\ UNCHANGED <<status, procs, gateway, active, outcome, stopped, unrecorded, fencing,
                 orphans, submitted, stops>>
-----------------------------------------------------------------------------
(* tick() and _fence_orphans *)

NoTask == active' = None /\ stage' = "none" /\ outcome' = None /\ stopped' = FALSE

\* An execution that raised left its run open: it is in doubt.  The task is
\* forgotten even if that cannot be recorded.
Reap ==
  /\ gateway = "up" /\ ~fencing /\ stage = "raised"
  /\ \/ status' = Interrupted /\ UNCHANGED faults
     \/ Fault /\ UNCHANGED status
  /\ NoTask
  /\ UNCHANGED <<host, procs, gateway, unrecorded, fencing, orphans, submitted, stops>>

\* Without a task, the worker first stops what is left of earlier ones.
TickFences ==
  /\ gateway = "up" /\ ~fencing /\ stage \in {"none", "done"}
  /\ fencing' = TRUE /\ orphans' = host
  /\ NoTask
  /\ UNCHANGED <<store, procs, gateway, unrecorded, submitted, bounds>>

\* An exception leaves _fence_orphans: the tick is over, a start or a close failed.
GivesUp ==
  /\ fencing' = FALSE /\ orphans' = {}
  /\ gateway' = IF gateway = "up" THEN "up" ELSE "down"

\* A gateway that closes takes its memory with it.
Forgets == unrecorded' = IF gateway = "closing" THEN {} ELSE unrecorded

\* A process whose ownership is not saved: stopped or saved, then its run failed.
FenceUnrecorded(r) ==
  /\ fencing /\ r \in unrecorded
  /\ \E confirmed \in BOOLEAN :
       /\ StopsProcess(r, confirmed)
       /\ \/ Fault /\ GivesUp /\ Forgets /\ UNCHANGED store
          \/ /\ host' = IF confirmed THEN host \ {r} ELSE host \cup {r}
             /\ \/ Fault /\ GivesUp /\ Forgets /\ UNCHANGED status
                \/ /\ status' = [status EXCEPT ![r] = "failed"]
                   /\ unrecorded' = unrecorded \ {r}
                   /\ orphans' = host'
                   /\ UNCHANGED <<faults, gateway, fencing>>
  /\ UNCHANGED <<execution, submitted, stops>>

\* A recorded process: cleared once it is known to be gone.
FenceOrphan(r) ==
  /\ fencing /\ unrecorded = {} /\ r \in orphans
  /\ \E confirmed \in BOOLEAN :
       /\ StopsProcess(r, confirmed)
       /\ \/ /\ confirmed
             /\ Fault /\ GivesUp /\ UNCHANGED host
          \/ /\ host' = IF confirmed THEN host \ {r} ELSE host
             /\ orphans' = orphans \ {r}
             /\ UNCHANGED <<faults, gateway, fencing>>
  /\ UNCHANGED <<status, execution, unrecorded, submitted, stops>>

\* claim(): the queued run of a job that has no recorded process.  None may be
\* claimable; start() claims nothing, close() is over.
PendingRuns(r) == status[r] = "pending"        \* slip: recorded hosts are ignored
Claimable(r) == status[r] = "pending" /\ \A s \in host : Job[s] # Job[r]
Fenced ==
  /\ fencing /\ unrecorded = {} /\ orphans = {}
  /\ fencing' = FALSE
  /\ CASE gateway = "starting" ->
            gateway' = "up" /\ UNCHANGED <<status, execution>>
       [] gateway = "closing" ->
            gateway' = "down" /\ UNCHANGED <<status, execution>>
       [] OTHER ->
            /\ \/ \E r \in Runs : /\ Claimable(r)
                                  /\ status' = [status EXCEPT ![r] = "starting"]
                                  /\ active' = r /\ stage' = "spawn"
                                  /\ UNCHANGED <<outcome, stopped>>
               \/ /\ \A r \in Runs : ~Claimable(r)
                  /\ UNCHANGED <<status, execution>>
            /\ UNCHANGED gateway
  /\ UNCHANGED <<host, procs, unrecorded, orphans, submitted, bounds>>
-----------------------------------------------------------------------------
(* The life of the gateway and of the processes *)

\* start(): one worker holds the lock.  What an earlier one left open is in doubt.
Start ==
  /\ gateway = "down"
  /\ status' = Interrupted
  /\ gateway' = "starting" /\ fencing' = TRUE /\ orphans' = host
  /\ UNCHANGED <<host, procs, execution, unrecorded, submitted, bounds>>

Stop == stops < MaxStops /\ stops' = stops + 1

\* The gateway is killed, or the machine restarts.
Crash ==
  /\ gateway # "down" /\ Stop
  /\ gateway' = "down" /\ NoTask
  /\ unrecorded' = {} /\ fencing' = FALSE /\ orphans' = {}
  /\ procs' \in {procs, {}}
  /\ UNCHANGED <<store, submitted, faults>>

\* close(): the loop is cancelled, then the execution, at the await where it
\* stands: work that was submitted is in doubt.  A second cancellation, during
\* the clean-up, ends the execution there.
Close ==
  /\ gateway = "up" /\ Stop
  /\ stage \in {"none", "done", "raised", "spawn", "record", "connect", "turn", "cleanup"}
  /\ gateway' = "closing" /\ fencing' = FALSE /\ orphans' = {}
  /\ CASE stage \in {"spawn", "connect"} -> CleanUp("failed") /\ UNCHANGED <<active, stopped, procs>>
       [] stage = "record" -> CleanUp("failed") /\ procs' = procs \ {active}
                              /\ UNCHANGED <<active, stopped>>
       [] stage = "turn" -> CleanUp("uncertain") /\ UNCHANGED <<active, stopped, procs>>
       [] OTHER -> NoTask /\ UNCHANGED procs
  /\ UNCHANGED <<store, unrecorded, submitted, faults>>
\* The task has ended: unsaved processes are stopped, the lock is released.
Closed ==
  /\ gateway = "closing" /\ ~fencing /\ stage \in {"none", "done", "raised"}
  /\ NoTask
  /\ IF unrecorded = {} THEN gateway' = "down" /\ UNCHANGED <<fencing, orphans>>
     ELSE fencing' = TRUE /\ orphans' = host /\ UNCHANGED gateway
  /\ UNCHANGED <<store, procs, unrecorded, submitted, bounds>>

\* A host process ends by itself.
Exits(r) ==
  /\ r \in procs /\ procs' = procs \ {r}
  /\ UNCHANGED <<store, gateway, execution, unrecorded, fencing, orphans, submitted, bounds>>
-----------------------------------------------------------------------------
Operators == \E r \in Runs :
  Due(r) \/ CancelQueued(r) \/ Dismiss(r) \/ \E n \in Runs : Retry(r, n)
Execute == Spawn \/ Record \/ Connect \/ TurnEnds \/ Disconnect \/ Save \/ Finish \/ Clear
Loop ==
  \/ Reap \/ TickFences \/ Fenced \/ Closed
  \/ \E r \in Runs : FenceUnrecorded(r) \/ FenceOrphan(r)
Next == Operators \/ Execute \/ Loop \/ Start \/ Crash \/ Close \/ \E r \in Runs : Exits(r)

Spec == Init /\ [][Next]_vars
\* The event loop runs ready tasks; a turn and every stop have timeouts; the
\* service manager restarts the gateway.
FairSpec == Spec /\ WF_vars(Execute) /\ WF_vars(Loop) /\ WF_vars(Start)
-----------------------------------------------------------------------------
(* Properties *)

\* A job never has two host processes that were given work: an execution that
\* survives its gateway or its clean-up excludes the next one of its job.
OneWorkingHost == \A r, s \in procs \cap submitted : Job[r] = Job[s] => r = s

\* A process that was given work is always known to the store while it lives, so
\* whoever starts next can stop it before anything of its job runs.
HostsAreRecorded == procs \cap submitted \subseteq host

\* Host processes are fenced by job, across gateways, because they are recorded.
HostsAreFenced == OneWorkingHost /\ HostsAreRecorded

\* "failed" means that the prompt was not submitted, "succeeded" that it was:
\* through failed writes, cancellation and restarts no outcome is claimed that
\* the execution did not have.
OutcomesAreTrue == \A r \in Runs :
  /\ status[r] = "failed" => r \notin submitted
  /\ status[r] = "succeeded" => r \in submitted
  /\ status[r] = "pending" => r \notin submitted

\* A process whose ownership could not be saved keeps its run "starting", so the
\* write that fails it is accepted when it is tried again.
UnrecordedBlocksItsJob == \A r \in unrecorded : status[r] = "starting"

\* Every execution that began ends, succeeds or is in doubt, and frees its job: failed
\* writes are made good by a later tick or start, unless they exhaust MaxFaults, since
\* two in a row leave a run "running" until the gateway is restarted.
EventuallyEnded == \A r \in Runs :
  status[r] = "starting" ~> status[r] \notin {"starting", "running"} \/ faults = MaxFaults

Fate(s) ==
  CASE s = "absent" -> "unknown"
    [] s = "pending" -> "queued"
    [] s \in {"starting", "running"} -> "executing"
    [] s = "uncertain" -> "doubt"
    [] s \in {"succeeded", "failed"} -> "ended"
    [] s \in {"cancelled", "dismissed", "retried"} -> "closed"
Ledger == INSTANCE RunLedger WITH fate <- [r \in Runs |-> Fate(status[r])]

\* The store tells the truth about an execution, also after failed writes: its outcomes are
\* true, a process it does not know keeps its run open, and it implements RunLedger: a run
\* that began never returns to the queue, and only an operator resolves one in doubt.
StoreIsTrue == []OutcomesAreTrue /\ []UnrecordedBlocksItsJob /\ Ledger!LedgerSpec
==============================================================================
