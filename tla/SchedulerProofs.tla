--------------------------- MODULE SchedulerProofs ---------------------------
(***************************************************************************)
(* What the scheduler's worker keeps true of host processes, outcomes and  *)
(* runs: for any number of jobs and runs, failed writes, stopped gateways  *)
(* and processes that resist being stopped.                                *)
(***************************************************************************)
EXTENDS Scheduler, TLAPS

Begun == {"starting", "running"}
\* _execute before the prompt is submitted.
Preparing == {"spawn", "record", "connect"}
\* _execute once the turn is over or will not happen.
Ending == {"cleanup", "save", "finish"}

\* There is a task or a fence, not both, and only in a gateway that started.
StageInv ==
  /\ IF stage = "none" THEN active = None ELSE active \in Runs
  /\ fencing => stage = "none"
  /\ gateway \in {"down", "starting"} => stage = "none" /\ unrecorded = {}
  /\ gateway = "down" => ~fencing

\* A run that is being prepared has not begun its work, and no other process of its
\* job is left that could be at work.
PreparingInv == stage \in Preparing =>
  /\ status[active] = "starting" /\ active \notin submitted
  /\ \A s \in host : Job[s] = Job[active] => s = active
  /\ stage = "connect" => active \in host

\* What _execute is about to record is true.
EndingInv ==
  /\ stage = "turn" => status[active] = "running" /\ active \in submitted
  /\ stage \in Ending => /\ outcome \in {"succeeded", "failed", "uncertain"}
                         /\ status[active] \in Begun
                         /\ outcome = "failed" => active \notin submitted
                         /\ outcome = "succeeded" => active \in submitted
  /\ stage \in {"save", "finish", "clear"} /\ stopped => active \notin procs
  /\ stage = "clear" => stopped

\* A process whose ownership could not be saved was given no work; while a task runs
\* it can only be that task's.
UnrecordedInv ==
  /\ unrecorded \cap submitted = {}
  /\ stage # "none" => unrecorded \subseteq {active}
  /\ stage \notin {"none", "cleanup", "save", "done"} => unrecorded = {}

\* The unique index one_live_run, and: work is given to runs that were queued.
RunsInv ==
  /\ \A r, s \in Runs : status[r] \in Live /\ status[s] \in Live /\ Job[r] = Job[s] => r = s
  /\ \A r \in Runs : status[r] = "absent" => r \notin submitted

IInv ==
  /\ TypeOK /\ StageInv /\ PreparingInv /\ EndingInv
  /\ UnrecordedInv /\ UnrecordedBlocksItsJob
  /\ RunsInv /\ OutcomesAreTrue
  /\ OneWorkingHost /\ HostsAreRecorded
-----------------------------------------------------------------------------
USE RunsAssumption DEF Begun, Preparing, Ending, Live, Statuses

\* What the operators and materialization do to the rows.
LEMMA DueStep == ASSUME IInv, NEW r \in Runs, Due(r) PROVE IInv'
<1> USE DEF Due, LiveRuns, store, execution, bounds
<1>1. TypeOK' /\ StageInv'
  BY DEF IInv, TypeOK, StageInv
<1>2. PreparingInv' /\ EndingInv' /\ UnrecordedInv' /\ UnrecordedBlocksItsJob'
  BY DEF IInv, PreparingInv, EndingInv, UnrecordedInv, UnrecordedBlocksItsJob
<1>3. RunsInv' /\ OutcomesAreTrue'
  BY DEF IInv, RunsInv, OutcomesAreTrue
<1>4. OneWorkingHost' /\ HostsAreRecorded'
  BY DEF IInv, OneWorkingHost, HostsAreRecorded
<1> QED  BY <1>1, <1>2, <1>3, <1>4 DEF IInv

LEMMA CancelQueuedStep == ASSUME IInv, NEW r \in Runs, CancelQueued(r) PROVE IInv'
<1> USE DEF CancelQueued, store, execution, bounds
<1>1. TypeOK' /\ StageInv'
  BY DEF IInv, TypeOK, StageInv
<1>2. PreparingInv' /\ EndingInv' /\ UnrecordedInv' /\ UnrecordedBlocksItsJob'
  BY DEF IInv, PreparingInv, EndingInv, UnrecordedInv, UnrecordedBlocksItsJob
<1>3. RunsInv' /\ OutcomesAreTrue'
  BY DEF IInv, RunsInv, OutcomesAreTrue
<1>4. OneWorkingHost' /\ HostsAreRecorded'
  BY DEF IInv, OneWorkingHost, HostsAreRecorded
<1> QED  BY <1>1, <1>2, <1>3, <1>4 DEF IInv

LEMMA DismissStep == ASSUME IInv, NEW r \in Runs, Dismiss(r) PROVE IInv'
<1> USE DEF Dismiss, Recoverable, store, execution, bounds
<1>1. TypeOK' /\ StageInv'
  BY DEF IInv, TypeOK, StageInv
<1>2. PreparingInv' /\ EndingInv' /\ UnrecordedInv' /\ UnrecordedBlocksItsJob'
  BY DEF IInv, PreparingInv, EndingInv, UnrecordedInv, UnrecordedBlocksItsJob
<1>3. RunsInv' /\ OutcomesAreTrue'
  BY DEF IInv, RunsInv, OutcomesAreTrue
<1>4. OneWorkingHost' /\ HostsAreRecorded'
  BY DEF IInv, OneWorkingHost, HostsAreRecorded
<1> QED  BY <1>1, <1>2, <1>3, <1>4 DEF IInv

LEMMA RetryStep == ASSUME IInv, NEW r \in Runs, NEW n \in Runs, Retry(r, n) PROVE IInv'
<1> USE DEF Retry, Recoverable, LiveRuns, store, execution, bounds
<1>1. TypeOK' /\ StageInv'
  BY DEF IInv, TypeOK, StageInv
<1>2. PreparingInv' /\ EndingInv' /\ UnrecordedInv' /\ UnrecordedBlocksItsJob'
  BY DEF IInv, TypeOK, StageInv, PreparingInv, EndingInv, UnrecordedInv, UnrecordedBlocksItsJob
<1>3. RunsInv' /\ OutcomesAreTrue'
  BY DEF IInv, TypeOK, RunsInv, OutcomesAreTrue
<1>4. OneWorkingHost' /\ HostsAreRecorded'
  BY DEF IInv, OneWorkingHost, HostsAreRecorded
<1> QED  BY <1>1, <1>2, <1>3, <1>4 DEF IInv

\* The steps of an execution.
LEMMA SpawnStep == ASSUME IInv, Spawn PROVE IInv'
<1> USE DEF Spawn, CleanUp, store, execution, bounds
<1>1. TypeOK' /\ StageInv'
  BY DEF IInv, TypeOK, StageInv
<1>2. PreparingInv' /\ EndingInv' /\ UnrecordedInv' /\ UnrecordedBlocksItsJob'
  BY DEF IInv, PreparingInv, EndingInv, UnrecordedInv, UnrecordedBlocksItsJob
<1>3. RunsInv' /\ OutcomesAreTrue'
  BY DEF IInv, RunsInv, OutcomesAreTrue
<1>4. OneWorkingHost' /\ HostsAreRecorded'
  BY DEF IInv, PreparingInv, OneWorkingHost, HostsAreRecorded
<1> QED  BY <1>1, <1>2, <1>3, <1>4 DEF IInv

LEMMA RecordStep == ASSUME IInv, Record PROVE IInv'
<1> USE DEF Record, Unowned, CleanUp, Fault, store, execution, bounds
<1>1. TypeOK' /\ StageInv'
  BY DEF IInv, TypeOK, StageInv
<1>2. PreparingInv' /\ EndingInv' /\ UnrecordedInv' /\ UnrecordedBlocksItsJob'
  BY DEF IInv, PreparingInv, EndingInv, UnrecordedInv, UnrecordedBlocksItsJob
<1>3. RunsInv' /\ OutcomesAreTrue'
  BY DEF IInv, RunsInv, OutcomesAreTrue
<1>4. OneWorkingHost' /\ HostsAreRecorded'
  BY DEF IInv, OneWorkingHost, HostsAreRecorded
<1> QED  BY <1>1, <1>2, <1>3, <1>4 DEF IInv

\* The prompt is submitted: the process is recorded, and no other of its job is at work.
LEMMA ConnectStep == ASSUME IInv, Connect PROVE IInv'
<1> USE DEF Connect, CleanUp, store, execution, bounds
<1>1. TypeOK' /\ StageInv'
  BY DEF IInv, TypeOK, StageInv
<1>2. PreparingInv' /\ EndingInv' /\ UnrecordedInv' /\ UnrecordedBlocksItsJob'
  BY DEF IInv, TypeOK, PreparingInv, EndingInv, UnrecordedInv, UnrecordedBlocksItsJob
<1>3. RunsInv' /\ OutcomesAreTrue'
  BY DEF IInv, TypeOK, PreparingInv, RunsInv, OutcomesAreTrue
<1>4. OneWorkingHost' /\ HostsAreRecorded'
  BY DEF IInv, PreparingInv, OneWorkingHost, HostsAreRecorded
<1> QED  BY <1>1, <1>2, <1>3, <1>4 DEF IInv

LEMMA TurnEndsStep == ASSUME IInv, TurnEnds PROVE IInv'
<1> USE DEF TurnEnds, TurnOutcomes, CleanUp, store, execution, bounds
<1>1. TypeOK' /\ StageInv'
  BY DEF IInv, TypeOK, StageInv
<1>2. PreparingInv' /\ EndingInv' /\ UnrecordedInv' /\ UnrecordedBlocksItsJob'
  BY DEF IInv, PreparingInv, EndingInv, UnrecordedInv, UnrecordedBlocksItsJob
<1>3. RunsInv' /\ OutcomesAreTrue'
  BY DEF IInv, RunsInv, OutcomesAreTrue
<1>4. OneWorkingHost' /\ HostsAreRecorded'
  BY DEF IInv, OneWorkingHost, HostsAreRecorded
<1> QED  BY <1>1, <1>2, <1>3, <1>4 DEF IInv

LEMMA DisconnectStep == ASSUME IInv, Disconnect PROVE IInv'
<1> USE DEF Disconnect, StopsProcess, store, execution, bounds
<1>1. TypeOK' /\ StageInv'
  BY DEF IInv, TypeOK, StageInv
<1>2. PreparingInv' /\ EndingInv' /\ UnrecordedInv' /\ UnrecordedBlocksItsJob'
  BY DEF IInv, PreparingInv, EndingInv, UnrecordedInv, UnrecordedBlocksItsJob
<1>3. RunsInv' /\ OutcomesAreTrue'
  BY DEF IInv, RunsInv, OutcomesAreTrue
<1>4. OneWorkingHost' /\ HostsAreRecorded'
  BY DEF IInv, OneWorkingHost, HostsAreRecorded
<1> QED  BY <1>1, <1>2, <1>3, <1>4 DEF IInv

LEMMA SaveStep == ASSUME IInv, Save PROVE IInv'
<1> USE DEF Save, LeavesOpen, Fault, store, execution, bounds
<1>1. TypeOK' /\ StageInv'
  BY DEF IInv, TypeOK, StageInv
<1>2. PreparingInv' /\ EndingInv' /\ UnrecordedInv' /\ UnrecordedBlocksItsJob'
  BY DEF IInv, PreparingInv, EndingInv, UnrecordedInv, UnrecordedBlocksItsJob
<1>3. RunsInv' /\ OutcomesAreTrue'
  BY DEF IInv, RunsInv, OutcomesAreTrue
<1>4. OneWorkingHost' /\ HostsAreRecorded'
  BY DEF IInv, OneWorkingHost, HostsAreRecorded
<1> QED  BY <1>1, <1>2, <1>3, <1>4 DEF IInv

LEMMA FinishStep == ASSUME IInv, Finish PROVE IInv'
<1> USE DEF Finish, Fault, store, execution, bounds
<1>1. TypeOK' /\ StageInv'
  BY DEF IInv, TypeOK, StageInv, EndingInv
<1>2. PreparingInv' /\ EndingInv' /\ UnrecordedInv' /\ UnrecordedBlocksItsJob'
  BY DEF IInv, PreparingInv, EndingInv, UnrecordedInv, UnrecordedBlocksItsJob
<1>3. RunsInv' /\ OutcomesAreTrue'
  BY DEF IInv, TypeOK, EndingInv, RunsInv, OutcomesAreTrue
<1>4. OneWorkingHost' /\ HostsAreRecorded'
  BY DEF IInv, OneWorkingHost, HostsAreRecorded
<1> QED  BY <1>1, <1>2, <1>3, <1>4 DEF IInv

LEMMA ClearStep == ASSUME IInv, Clear PROVE IInv'
<1> USE DEF Clear, Fault, store, execution, bounds
<1>1. TypeOK' /\ StageInv'
  BY DEF IInv, TypeOK, StageInv
<1>2. PreparingInv' /\ EndingInv' /\ UnrecordedInv' /\ UnrecordedBlocksItsJob'
  BY DEF IInv, PreparingInv, EndingInv, UnrecordedInv, UnrecordedBlocksItsJob
<1>3. RunsInv' /\ OutcomesAreTrue'
  BY DEF IInv, RunsInv, OutcomesAreTrue
<1>4. OneWorkingHost' /\ HostsAreRecorded'
  BY DEF IInv, EndingInv, OneWorkingHost, HostsAreRecorded
<1> QED  BY <1>1, <1>2, <1>3, <1>4 DEF IInv

\* The loop and the fence.
LEMMA ReapStep == ASSUME IInv, Reap PROVE IInv'
<1> USE DEF Reap, Interrupted, Fault, NoTask, store, execution, bounds
<1>1. TypeOK' /\ StageInv'
  <2>1. Interrupted \in [Runs -> Statuses]
    BY DEF IInv, TypeOK
  <2>2. faults' \in Nat
    BY DEF IInv, TypeOK
  <2>3. TypeOK'
    BY <2>1, <2>2 DEF IInv, TypeOK, StageInv
  <2>4. StageInv'
    BY DEF IInv, TypeOK, StageInv
  <2> QED  BY <2>3, <2>4
<1>2. PreparingInv' /\ EndingInv' /\ UnrecordedInv' /\ UnrecordedBlocksItsJob'
  BY DEF IInv, PreparingInv, EndingInv, UnrecordedInv, UnrecordedBlocksItsJob
<1>3. RunsInv' /\ OutcomesAreTrue'
  BY DEF IInv, RunsInv, OutcomesAreTrue
<1>4. OneWorkingHost' /\ HostsAreRecorded'
  BY DEF IInv, OneWorkingHost, HostsAreRecorded
<1> QED  BY <1>1, <1>2, <1>3, <1>4 DEF IInv

LEMMA TickFencesStep == ASSUME IInv, TickFences PROVE IInv'
<1> USE DEF TickFences, NoTask, store, execution, bounds
<1>1. TypeOK' /\ StageInv'
  BY DEF IInv, TypeOK, StageInv
<1>2. PreparingInv' /\ EndingInv' /\ UnrecordedInv' /\ UnrecordedBlocksItsJob'
  BY DEF IInv, PreparingInv, EndingInv, UnrecordedInv, UnrecordedBlocksItsJob
<1>3. RunsInv' /\ OutcomesAreTrue'
  BY DEF IInv, RunsInv, OutcomesAreTrue
<1>4. OneWorkingHost' /\ HostsAreRecorded'
  BY DEF IInv, OneWorkingHost, HostsAreRecorded
<1> QED  BY <1>1, <1>2, <1>3, <1>4 DEF IInv

\* The run of an unrecorded process was given no work, so "failed" is true of it.
LEMMA FenceUnrecordedStep == ASSUME IInv, NEW r \in Runs, FenceUnrecorded(r) PROVE IInv'
<1>1. procs' \subseteq procs /\ host \ {r} \subseteq host' /\ host' \subseteq host \cup {r}
  BY DEF FenceUnrecorded, StopsProcess, store
<1>2. /\ status' \in {status, [status EXCEPT ![r] = "failed"]}
      /\ orphans' \in {{}, host'} /\ faults' \in {faults, faults + 1}
      /\ gateway' \in {gateway, "down"} /\ fencing' \in BOOLEAN
      /\ unrecorded' \subseteq unrecorded /\ UNCHANGED <<execution, submitted, stops>>
  BY DEF IInv, TypeOK, FenceUnrecorded, GivesUp, Forgets, Fault, store
<1>3. TypeOK'
  BY <1>1, <1>2 DEF IInv, TypeOK, execution
<1> USE DEF FenceUnrecorded, GivesUp, Forgets, Fault, store, execution, bounds
<1>4. StageInv'
  BY DEF IInv, TypeOK, StageInv
<1>5. PreparingInv' /\ EndingInv' /\ UnrecordedInv' /\ UnrecordedBlocksItsJob'
  BY <1>1 DEF IInv, TypeOK, StageInv, PreparingInv, EndingInv, UnrecordedInv,
              UnrecordedBlocksItsJob
<1>6. RunsInv' /\ OutcomesAreTrue'
  BY DEF IInv, TypeOK, UnrecordedInv, UnrecordedBlocksItsJob, RunsInv, OutcomesAreTrue
<1>7. OneWorkingHost' /\ HostsAreRecorded'
  BY <1>1 DEF IInv, UnrecordedInv, OneWorkingHost, HostsAreRecorded
<1> QED  BY <1>3, <1>4, <1>5, <1>6, <1>7 DEF IInv

LEMMA FenceOrphanStep == ASSUME IInv, NEW r \in Runs, FenceOrphan(r) PROVE IInv'
<1>1. /\ procs' \subseteq procs /\ host' \subseteq host
  BY DEF FenceOrphan, StopsProcess
<1>2. /\ orphans' \subseteq orphans /\ faults' \in {faults, faults + 1}
      /\ gateway' \in {gateway, "down"} /\ fencing' \in BOOLEAN
      /\ UNCHANGED <<status, execution, unrecorded, submitted, stops>>
  BY DEF IInv, TypeOK, FenceOrphan, GivesUp, Fault
<1>3. TypeOK'
  BY <1>1, <1>2 DEF IInv, TypeOK, execution
<1> USE DEF FenceOrphan, GivesUp, Fault, store, execution, bounds
<1>4. StageInv'
  BY DEF IInv, TypeOK, StageInv
<1>5. PreparingInv' /\ EndingInv' /\ UnrecordedInv' /\ UnrecordedBlocksItsJob'
  BY <1>1 DEF IInv, TypeOK, StageInv, PreparingInv, EndingInv, UnrecordedInv,
              UnrecordedBlocksItsJob
<1>6. RunsInv' /\ OutcomesAreTrue'
  BY DEF IInv, TypeOK, RunsInv, OutcomesAreTrue
<1>7. OneWorkingHost' /\ HostsAreRecorded'
  BY DEF IInv, OneWorkingHost, HostsAreRecorded, StopsProcess
<1> QED  BY <1>3, <1>4, <1>5, <1>6, <1>7 DEF IInv

\* Nothing is left of earlier executions, and the claimed run has no recorded process.
LEMMA FencedStep == ASSUME IInv, Fenced PROVE IInv'
<1> USE DEF Fenced, Claimable, store, execution, bounds
<1>1. TypeOK' /\ StageInv'
  BY DEF IInv, TypeOK, StageInv
<1>2. PreparingInv' /\ EndingInv' /\ UnrecordedInv' /\ UnrecordedBlocksItsJob'
  BY DEF IInv, TypeOK, PreparingInv, EndingInv, UnrecordedInv, UnrecordedBlocksItsJob,
         OutcomesAreTrue
<1>3. RunsInv' /\ OutcomesAreTrue'
  BY DEF IInv, TypeOK, RunsInv, OutcomesAreTrue
<1>4. OneWorkingHost' /\ HostsAreRecorded'
  BY DEF IInv, OneWorkingHost, HostsAreRecorded
<1> QED  BY <1>1, <1>2, <1>3, <1>4 DEF IInv

\* The life of the gateway and of the processes.
LEMMA StartStep == ASSUME IInv, Start PROVE IInv'
<1> USE DEF Start, Interrupted, store, execution, bounds
<1>1. TypeOK' /\ StageInv'
  BY DEF IInv, TypeOK, StageInv
<1>2. PreparingInv' /\ EndingInv' /\ UnrecordedInv' /\ UnrecordedBlocksItsJob'
  BY DEF IInv, StageInv, PreparingInv, EndingInv, UnrecordedInv, UnrecordedBlocksItsJob
<1>3. RunsInv' /\ OutcomesAreTrue'
  BY DEF IInv, RunsInv, OutcomesAreTrue
<1>4. OneWorkingHost' /\ HostsAreRecorded'
  BY DEF IInv, OneWorkingHost, HostsAreRecorded
<1> QED  BY <1>1, <1>2, <1>3, <1>4 DEF IInv

LEMMA CrashStep == ASSUME IInv, Crash PROVE IInv'
<1> USE DEF Crash, Stop, NoTask, store, execution, bounds
<1>1. TypeOK' /\ StageInv'
  <2>1. procs' \subseteq Runs /\ stops' \in Nat
    BY DEF IInv, TypeOK
  <2>2. TypeOK'
    BY <2>1 DEF IInv, TypeOK, StageInv
  <2>3. StageInv'
    BY DEF IInv, TypeOK, StageInv
  <2> QED  BY <2>2, <2>3
<1>2. PreparingInv' /\ EndingInv' /\ UnrecordedInv' /\ UnrecordedBlocksItsJob'
  BY DEF IInv, PreparingInv, EndingInv, UnrecordedInv, UnrecordedBlocksItsJob
<1>3. RunsInv' /\ OutcomesAreTrue'
  BY DEF IInv, RunsInv, OutcomesAreTrue
<1>4. OneWorkingHost' /\ HostsAreRecorded'
  BY DEF IInv, OneWorkingHost, HostsAreRecorded
<1> QED  BY <1>1, <1>2, <1>3, <1>4 DEF IInv

LEMMA CloseStep == ASSUME IInv, Close PROVE IInv'
<1> USE DEF Close, Stop, CleanUp, NoTask, store, execution, bounds
<1>1. TypeOK' /\ StageInv'
  <2>1. procs' \subseteq Runs /\ stops' \in Nat
    BY DEF IInv, TypeOK
  <2>2. /\ active' \in Runs \cup {None} /\ stage' \in {"none", "cleanup"}
        /\ stopped' \in BOOLEAN /\ outcome' \in {None, "failed", "uncertain"}
    BY DEF IInv, TypeOK
  <2>3. TypeOK'
    BY <2>1, <2>2 DEF IInv, TypeOK, StageInv
  <2>4. StageInv'
    BY DEF IInv, TypeOK, StageInv
  <2> QED  BY <2>3, <2>4
<1>2. PreparingInv' /\ EndingInv' /\ UnrecordedInv' /\ UnrecordedBlocksItsJob'
  BY DEF IInv, PreparingInv, EndingInv, UnrecordedInv, UnrecordedBlocksItsJob
<1>3. RunsInv' /\ OutcomesAreTrue'
  BY DEF IInv, RunsInv, OutcomesAreTrue
<1>4. OneWorkingHost' /\ HostsAreRecorded'
  BY DEF IInv, OneWorkingHost, HostsAreRecorded
<1> QED  BY <1>1, <1>2, <1>3, <1>4 DEF IInv

LEMMA ClosedStep == ASSUME IInv, Closed PROVE IInv'
<1> USE DEF Closed, NoTask, store, execution, bounds
<1>1. TypeOK' /\ StageInv'
  BY DEF IInv, TypeOK, StageInv
<1>2. PreparingInv' /\ EndingInv' /\ UnrecordedInv' /\ UnrecordedBlocksItsJob'
  BY DEF IInv, PreparingInv, EndingInv, UnrecordedInv, UnrecordedBlocksItsJob
<1>3. RunsInv' /\ OutcomesAreTrue'
  BY DEF IInv, RunsInv, OutcomesAreTrue
<1>4. OneWorkingHost' /\ HostsAreRecorded'
  BY DEF IInv, OneWorkingHost, HostsAreRecorded
<1> QED  BY <1>1, <1>2, <1>3, <1>4 DEF IInv

LEMMA ExitsStep == ASSUME IInv, NEW r \in Runs, Exits(r) PROVE IInv'
<1> USE DEF Exits, store, execution, bounds
<1>1. TypeOK' /\ StageInv'
  BY DEF IInv, TypeOK, StageInv
<1>2. PreparingInv' /\ EndingInv' /\ UnrecordedInv' /\ UnrecordedBlocksItsJob'
  BY DEF IInv, PreparingInv, EndingInv, UnrecordedInv, UnrecordedBlocksItsJob
<1>3. RunsInv' /\ OutcomesAreTrue'
  BY DEF IInv, RunsInv, OutcomesAreTrue
<1>4. OneWorkingHost' /\ HostsAreRecorded'
  BY DEF IInv, OneWorkingHost, HostsAreRecorded
<1> QED  BY <1>1, <1>2, <1>3, <1>4 DEF IInv

-----------------------------------------------------------------------------
LEMMA InitHolds == ASSUME Init PROVE IInv
<1>1. TypeOK
  BY DEF Init, TypeOK
<1>2. StageInv /\ PreparingInv /\ EndingInv /\ UnrecordedInv /\ UnrecordedBlocksItsJob
  BY DEF Init, StageInv, PreparingInv, EndingInv, UnrecordedInv, UnrecordedBlocksItsJob
<1>3. RunsInv /\ OutcomesAreTrue /\ OneWorkingHost /\ HostsAreRecorded
  BY DEF Init, RunsInv, OutcomesAreTrue, OneWorkingHost, HostsAreRecorded
<1> QED  BY <1>1, <1>2, <1>3 DEF IInv

LEMMA Untouched == ASSUME IInv, UNCHANGED vars PROVE IInv'
BY DEF vars, store, execution, bounds, IInv, TypeOK, StageInv, PreparingInv, EndingInv,
       UnrecordedInv, UnrecordedBlocksItsJob, RunsInv, OutcomesAreTrue, OneWorkingHost,
       HostsAreRecorded

LEMMA NextStep == ASSUME IInv, [Next]_vars PROVE IInv'
<1>1. CASE Operators
  BY <1>1, DueStep, CancelQueuedStep, DismissStep, RetryStep DEF Operators
<1>2. CASE Execute
  BY <1>2, SpawnStep, RecordStep, ConnectStep, TurnEndsStep, DisconnectStep, SaveStep,
     FinishStep, ClearStep DEF Execute
<1>3. CASE Loop
  BY <1>3, ReapStep, TickFencesStep, FencedStep, ClosedStep, FenceUnrecordedStep,
     FenceOrphanStep DEF Loop
<1>4. CASE Start \/ Crash \/ Close
  BY <1>4, StartStep, CrashStep, CloseStep
<1>5. CASE \E r \in Runs : Exits(r)
  BY <1>5, ExitsStep
<1>6. CASE UNCHANGED vars
  BY <1>6, Untouched
<1> QED  BY <1>1, <1>2, <1>3, <1>4, <1>5, <1>6 DEF Next

\* In every behaviour the task, the rows and the processes agree.
THEOREM Invariant == Spec => []IInv
<1>1. IInv /\ [Next]_vars => IInv'
  BY NextStep
<1> QED  BY <1>1, InitHolds, PTL DEF Spec

\* Whatever is killed, fails to be written or resists being stopped: of the processes
\* that were given work, a job has one at most, and the store knows it.
THEOREM HostsStayFenced == Spec => []HostsAreFenced
<1>1. IInv => HostsAreFenced
  BY DEF IInv, HostsAreFenced
<1> QED  BY <1>1, Invariant, PTL
-----------------------------------------------------------------------------
(* The worker implements RunLedger.                                        *)

\* What a step does to the row of a run.
StatusMoves ==
  {<<"absent", "pending">>, <<"pending", "cancelled">>, <<"pending", "starting">>,
   <<"starting", "running">>}
  \cup (Begun \X {"succeeded", "failed", "uncertain"})
  \cup ({"uncertain", "failed"} \X {"dismissed", "retried"})
StatusMoved ==
  \A r \in Runs : status'[r] # status[r] => <<status[r], status'[r]>> \in StatusMoves

LEMMA OperatorsMove == ASSUME IInv, Operators PROVE StatusMoved
BY DEF Operators, Due, CancelQueued, Dismiss, Retry, Recoverable, IInv, TypeOK, StatusMoved,
       StatusMoves

LEMMA ExecuteMoves == ASSUME IInv, Execute PROVE StatusMoved
<1>1. CASE Connect
  BY <1>1 DEF Connect, IInv, TypeOK, PreparingInv, StatusMoved, StatusMoves
<1>2. CASE Finish
  BY <1>2 DEF Finish, IInv, TypeOK, EndingInv, StatusMoved, StatusMoves
<1>3. CASE Spawn \/ Record \/ TurnEnds \/ Disconnect \/ Save \/ Clear
  BY <1>3 DEF Spawn, Record, TurnEnds, Disconnect, Save, Clear, store, StatusMoved
<1> QED  BY <1>1, <1>2, <1>3 DEF Execute

LEMMA InterruptedMoves == ASSUME IInv, status' \in {status, Interrupted} PROVE StatusMoved
BY DEF Interrupted, IInv, TypeOK, StatusMoved, StatusMoves

LEMMA LoopMoves == ASSUME IInv, Loop PROVE StatusMoved
<1>1. CASE Reap
  BY <1>1, InterruptedMoves DEF Reap
<1>2. ASSUME NEW r \in Runs, FenceUnrecorded(r) PROVE StatusMoved
  <2>1. status' \in {status, [status EXCEPT ![r] = "failed"]} /\ status[r] = "starting"
    BY <1>2 DEF FenceUnrecorded, store, IInv, UnrecordedBlocksItsJob
  <2> QED  BY <2>1 DEF IInv, TypeOK, StatusMoved, StatusMoves
<1>3. CASE Fenced
  BY <1>3 DEF Fenced, Claimable, IInv, TypeOK, StatusMoved, StatusMoves
<1>4. CASE TickFences \/ Closed \/ \E r \in Runs : FenceOrphan(r)
  BY <1>4 DEF TickFences, Closed, FenceOrphan, store, StatusMoved
<1> QED  BY <1>1, <1>2, <1>3, <1>4 DEF Loop

LEMMA StepMoves == ASSUME IInv, [Next]_vars PROVE StatusMoved
<1>1. CASE Start
  BY <1>1, InterruptedMoves DEF Start
<1>2. CASE Crash \/ Close \/ (\E r \in Runs : Exits(r)) \/ UNCHANGED vars
  BY <1>2 DEF Crash, Close, Exits, vars, store, StatusMoved
<1> QED  BY <1>1, <1>2, OperatorsMove, ExecuteMoves, LoopMoves DEF Next

\* Such a move is one of the ledger's, or none.
LEMMA LedgerMove ==
  ASSUME IInv, IInv', StatusMoved PROVE Ledger!LedgerNext
<1>1. ASSUME NEW r \in Runs, Fate(status'[r]) # Fate(status[r])
      PROVE  <<Fate(status[r]), Fate(status'[r])>> \in Ledger!Moves
  <2>1. <<status[r], status'[r]>> \in StatusMoves
    BY <1>1 DEF StatusMoved
  <2> QED  BY <1>1, <2>1 DEF StatusMoves, Fate, Ledger!Moves
<1>2. ASSUME NEW r \in Runs PROVE Fate(status'[r]) \in Ledger!Fates
  BY DEF IInv, TypeOK, Fate, Ledger!Fates
<1>3. ASSUME NEW r \in Runs PROVE Fate(status'[r]) \in Ledger!Live => status'[r] \in Live
  BY DEF IInv, TypeOK, Fate, Ledger!Live
<1>4. \A r, s \in Runs : r # s /\ Job[r] = Job[s]
                           => ~(status'[r] \in Live /\ status'[s] \in Live)
  BY DEF IInv, RunsInv
<1> QED  BY <1>1, <1>2, <1>3, <1>4 DEF Ledger!LedgerNext, Ledger!OneLive

LEMMA LedgerInitially == Init => Ledger!LedgerInit
BY DEF Init, Ledger!LedgerInit, Fate

\* The store's account of executions is true: of outcomes, of processes it does not know,
\* and as a RunLedger, whose runs never return to the queue once they began.
THEOREM StoreStaysTrue == Spec => StoreIsTrue
<1>1. IInv => OutcomesAreTrue /\ UnrecordedBlocksItsJob
  BY DEF IInv
<1>2. IInv /\ IInv' /\ [Next]_vars => Ledger!LedgerNext
  BY StepMoves, LedgerMove
<1> QED  BY <1>1, <1>2, Invariant, LedgerInitially, PTL DEF Spec, StoreIsTrue, Ledger!LedgerSpec
==============================================================================
