------------------------------ MODULE A2ATasks ------------------------------
(***************************************************************************)
(* One inbound A2A task: the webhooks of its caller, the registry entry of *)
(* every caller message, the job that answers a message through the        *)
(* conversation's queue, its progress messages, the outcome a turn sends   *)
(* through the tool process, the gate and fence files both processes use,  *)
(* cancellation, clean-up, crashes and the catch-up at start-up.           *)
(*                                                                         *)
(* An action is the code from one await to the next; a read of the service *)
(* is answered when the code goes on, what follows it is another action.   *)
(* An outcome whose sender gave up may still arrive later; the receipt and *)
(* the progress texts are accepted or lost by then.                        *)
(***************************************************************************)
EXTENDS Naturals, FiniteSets, Sequences

CONSTANTS
  NumMessages,  \* messages of the caller, a bound of the model
  MaxFaults     \* failed requests and turns, repeated webhooks, stops: a bound of the model

ASSUME A2AAssumption == NumMessages \in Nat \ {0} /\ MaxFaults \in Nat

VARIABLES
  task,     \* the service: the task's state and its latest caller message
  receipt,  \* the service: whether the task holds the receipt text
  landed,   \* the service: messages an outcome was accepted for
  limbo,    \* outcomes whose sender gave up and that may still arrive
  events,   \* webhooks the service delivers until one is acknowledged
  reg,      \* a2a_registry.json: the entry of each message
  fence,    \* the message that owns the fence file, 0 without a file
  gate,     \* who holds the gate file
  phase,    \* the gateway process
  hook,     \* the event that holds _a2a_ingest_lock
  catch,    \* what _catch_up_a2a_tasks read from the registry and where it is
  canceled, \* _a2a_canceled_messages, with 0 when there is an entry
  job,      \* _a2a_jobs: how far each job of each message is
  prog,     \* the progress job that a job launched, and who waits for its end
  owner,    \* _a2a_progress_jobs: the job whose progress job the gateway knows of
  saw,      \* the owner of the fence that a job found before it waited for the gate
  queue,    \* the conversation's queue
  turn,     \* the conversation's turn
  late,     \* ghost: messages of which a progress text was sent after their outcome
  faults,
  early,    \* whether webhooks arrive before the catch-up has finished: never changes
  raced,    \* history: messages the catch-up took up while they were worked on
  overtaken, \* history: messages whose fence gave way to an older message
  orphaned  \* history: messages whose progress job ran on after the gateway forgot it

service == <<task, receipt, landed, limbo, events>>
files == <<reg, fence>>
memory == <<phase, hook, catch, canceled>>
progress == <<prog, owner, saw>>
session == <<queue, turn>>
vars == <<service, files, gate, memory, job, progress, session, late, faults>>
past == <<early, raced, overtaken, orphaned>>

Messages == 1 .. NumMessages
Slots == {1, 2}                      \* jobs of one message
Jobs == Messages \X Slots
NoJob == <<0, 0>>
Cleanup == <<0, 1>>                  \* _cleanup, where it waits like a job
Outcomes == {"done", "input"}        \* what complete or fail, and ask_caller, make of the task
Terminal == {"done", "canceled"}     \* A2A_TERMINAL_STATES
SettledStates == Terminal \cup {"input"}

NoEntry == [state |-> "none", receipt |-> FALSE, progress |-> "never"]
NoHook == [kind |-> "none", m |-> 0, step |-> "none"]
NoProg == [step |-> "none", stop |-> "no", by |-> {}]
NoCatch == [next |-> 1, step |-> "look", seen |-> [m \in Messages |-> "none"]]
NoTurn == [j |-> NoJob, step |-> "none", sent |-> "none"]

Closing == phase \in {"closing", "stopping", "draining"}
Settled == task.state \in SettledStates
Quiet(j) == job[j] = "none"
Fault == faults < MaxFaults /\ faults' = faults + 1

\* _write_a2a_registry: a finalized entry holds no pending text unless it was kept for
\* the caller's follow-up.
Written(e, s, keep) ==
  [e EXCEPT !.state = s,
            !.progress = IF s = "finalized" /\ ~keep /\ @ \in {"unsent", "sent"} THEN "idle" ELSE @]
Write(m, s, keep) == reg' = [reg EXCEPT ![m] = Written(@, s, keep)]
Receipted(m) == reg' = [reg EXCEPT ![m].receipt = TRUE, ![m].state = IF @ = "none" THEN "queued" ELSE @]

Free(j) == Quiet(j) /\ prog[j] = NoProg

\* A process starts at most two jobs of a message: its webhook and the catch-up.
Track(m) ==
  \E s \in Slots : /\ Free(<<m, s>>) /\ \A t \in 1 .. s - 1 : ~Free(<<m, t>>)
                   /\ job' = [job EXCEPT ![<<m, s>>] = "new"]

-----------------------------------------------------------------------------
(* The caller and the service.                                             *)

\* A first message creates the task, a later one reopens it unless it has ended.
CallerSends ==
  /\ task.latest < NumMessages
  /\ task.state \in {"none", "working", "input", "canceled"}
  /\ task' = [state |-> "working", latest |-> task.latest + 1]
  /\ events' = events \cup {task.latest + 1}
  /\ UNCHANGED <<receipt, landed, limbo, files, gate, memory, job, progress, session, late, faults>>

\* The event of a cancellation has the number 0.
CallerCancels ==
  /\ task.state \in {"working", "input"}
  /\ task' = [task EXCEPT !.state = "canceled"]
  /\ events' = events \cup {0}
  /\ Fault
  /\ UNCHANGED <<receipt, landed, limbo, files, gate, memory, job, progress, session, late>>

\* The service delivers an event again although it was acknowledged.
Redeliver(m) ==
  /\ m \in 1 .. task.latest /\ m \notin events
  /\ events' = events \cup {m}
  /\ Fault
  /\ UNCHANGED <<task, receipt, landed, limbo, files, gate, memory, job, progress, session, late>>

Accepted(m, o) ==
  /\ task' = [task EXCEPT !.state = o]
  /\ landed' = landed \cup {m}

ArrivesLate(m, o) ==
  /\ <<m, o>> \in limbo
  /\ limbo' = limbo \ {<<m, o>>}
  /\ IF task.state \in Terminal THEN UNCHANGED <<task, landed>> ELSE Accepted(m, o)
  /\ UNCHANGED <<receipt, events, files, gate, memory, job, progress, session, late, faults>>

-----------------------------------------------------------------------------
(* The webhook (_on_a2a_event), one event at a time.                       *)

\* The HTTP server is up before the catch-up has begun.
Open == phase = "up" \/ (early /\ phase \in {"listening", "open", "catching"})

Deliver(m) ==
  /\ Open /\ hook = NoHook /\ m \in events
  /\ events' = events \ {m}
  /\ hook' = [kind |-> IF m = 0 THEN "cancel" ELSE IF m = 1 THEN "created" ELSE "message",
              m |-> m, step |-> "fetch"]
  /\ UNCHANGED <<task, receipt, landed, limbo, files, gate, phase, catch, canceled, job, progress,
                 session, late, faults>>

Answer(ok) ==
  /\ hook' = NoHook
  /\ events' = IF ok \/ hook.kind = "found" THEN events ELSE events \cup {hook.m}

\* The event is about the latest message of a task that is neither settled, nor canceled
\* before that message, nor fenced by its own outcome.
Tombstoned == canceled # {} /\ (hook.kind # "message" \/ hook.m \in canceled)

Stale == task.latest # hook.m \/ task.state # "working" \/ Tombstoned

Admit ==
  /\ hook.m # 0 /\ hook.step = "fetch"
  /\ LET m == hook.m IN
     \/ /\ Stale
        /\ Answer(TRUE) /\ UNCHANGED <<reg, canceled>>
     \/ /\ ~Stale /\ (fence = m \/ reg[m].receipt)
        /\ canceled' = {} /\ Answer(TRUE) /\ UNCHANGED reg
     \/ /\ ~Stale /\ fence # m /\ ~reg[m].receipt
        /\ canceled' = {}
        /\ IF reg[m].state # "none"
           THEN hook' = [hook EXCEPT !.step = "ackOld"] /\ UNCHANGED reg
           ELSE hook' = [hook EXCEPT !.step = "ackNew"] /\ Write(m, "queued", FALSE)
        /\ UNCHANGED events
  /\ UNCHANGED <<task, receipt, landed, limbo, fence, gate, phase, catch, job, progress, session,
                 late, faults>>

\* The read of the task fails: the event is delivered again.
AdmitFails ==
  /\ hook.m # 0 /\ hook.step = "fetch"
  /\ Fault /\ Answer(FALSE)
  /\ UNCHANGED <<task, receipt, landed, limbo, files, gate, phase, catch, canceled, job, progress,
                 session, late>>

\* The job is started by the event that wrote the entry, and not by a repeated one.
Starts(step) == step \in {"ackNew", "postNew"}

\* _acknowledge_a2a_task, after its read of the task.
Acknowledge ==
  /\ hook.step \in {"ackOld", "ackNew"}
  /\ LET m == hook.m
         new == Starts(hook.step)
     IN \/ /\ Closing
           /\ Answer(FALSE) /\ UNCHANGED <<reg, job>>
        \/ /\ ~Closing /\ Settled
           /\ Write(m, "finalized", FALSE) /\ Answer(TRUE) /\ UNCHANGED job
        \/ /\ ~Closing /\ ~Settled /\ receipt
           /\ Receipted(m) /\ Answer(TRUE)
           /\ IF new THEN Track(m) ELSE UNCHANGED job
        \/ /\ ~Closing /\ ~Settled /\ ~receipt
           /\ hook' = [hook EXCEPT !.step = IF new THEN "postNew" ELSE "postOld"]
           /\ UNCHANGED <<events, reg, job>>
  /\ UNCHANGED <<task, receipt, landed, limbo, fence, gate, phase, catch, canceled, progress, session,
                 late, faults>>

ReceiptSent ==
  /\ hook.step \in {"postOld", "postNew"}
  /\ receipt' = TRUE
  /\ Receipted(hook.m) /\ Answer(TRUE)
  /\ IF Starts(hook.step) THEN Track(hook.m) ELSE UNCHANGED job
  /\ UNCHANGED <<task, landed, limbo, fence, gate, phase, catch, canceled, progress, session, late,
                 faults>>

\* No receipt: a new message is worked on all the same, and the event delivered again.
AcknowledgeFails(arrives) ==
  /\ hook.step \in {"ackOld", "ackNew", "postOld", "postNew"}
  /\ arrives => hook.step \in {"postOld", "postNew"}
  /\ Fault
  /\ receipt' = (receipt \/ arrives)
  /\ Answer(FALSE)
  /\ IF Starts(hook.step) THEN Track(hook.m) ELSE UNCHANGED job
  /\ UNCHANGED <<task, landed, limbo, files, gate, phase, catch, canceled, progress, session, late>>

\* What a cancelled job goes on with: a request in flight and a progress job it stops are
\* waited for, the answer of the turn is not, a job that had not begun leaves no trace.
AfterCancel(step) ==
  CASE step = "post" -> "lastPost"
    [] step = "ackPost" -> "lastAck"
    [] step \in {"ack", "turn", "gate", "check"} -> "canceled"
    [] step = "canceled" -> "stop"
    [] step = "stopPrev" -> "stopping"
    [] step \in {"lastPost", "lastAck", "stop", "stopping"} -> step
    [] OTHER -> "none"

\* A progress job that a cancelled job waits for is cancelled too.
CancelJobs ==
  /\ job' = [j \in Jobs |-> AfterCancel(job[j])]
  /\ gate' = IF \E j \in Jobs : job[j] = "check" THEN "free" ELSE gate
  /\ prog' = [j \in Jobs |-> IF prog[j].by \cap Jobs = {} THEN prog[j]
                            ELSE [prog[j] EXCEPT !.stop = "kill"]]
  /\ saw' = [j \in Jobs |-> 0]

CancelTask ==
  /\ hook.kind = "cancel" /\ hook.step = "fetch"
  /\ canceled' = {0} \cup {m \in Messages : reg[m].state # "none" \/ m = task.latest}
  /\ hook' = [hook EXCEPT !.step = "drain"]
  /\ CancelJobs
  /\ UNCHANGED <<service, files, phase, catch, owner, session, late, faults>>

\* The jobs cancelled first are gone and the catch-up has started another.
CancelAgain ==
  /\ hook.step = "drain"
  /\ \A j \in Jobs : job[j] \notin {"canceled", "lastPost", "lastAck"}
  /\ \E j \in Jobs : job[j] \notin {"none", "stop", "stopping"}
  /\ CancelJobs
  /\ UNCHANGED <<service, files, memory, owner, session, late, faults>>

\* The jobs have stopped the progress by then.
CancelEnds ==
  /\ hook.step = "drain" /\ \A j \in Jobs : Quiet(j)
  /\ Answer(TRUE)
  /\ UNCHANGED <<task, receipt, landed, limbo, files, gate, phase, catch, canceled, job, progress,
                 session, late, faults>>
-----------------------------------------------------------------------------
(* The job of a message (_run_a2a_turn).                                   *)

\* _stop_a2a_progress, up to its wait for the progress job that the gateway knows of.
Stop(w) ==
  prog' = [prog EXCEPT ![owner].stop = IF @ = "no" THEN "stop" ELSE @, ![owner].by = @ \cup {w}]
Awaits(w) == \E i \in Jobs : w \in prog[i].by

\* An earlier message's progress moves to this one, and so does the text it had not delivered.
Inherited(m) ==
  LET others == {n \in Messages \ {m} : reg[n].progress # "never"}
  IN IF reg[m].progress # "never" THEN {reg[m].progress}
     ELSE IF others = {} THEN {"idle"} ELSE {reg[n].progress : n \in others}

\* The gateway forgets the progress job it knew of, if one is left.
Launch(j) == prog' = [prog EXCEPT ![j] = [NoProg EXCEPT !.step = "wait"]] /\ owner' = j

\* _start_a2a_progress after its wait for the progress job before.
StartProgress(j) ==
  LET m == j[1] IN
  /\ \E text \in Inherited(m) :
       reg' = [reg EXCEPT ![m].state = "running", ![m].progress = text]
  /\ IF fence \in {0, m}
     THEN Launch(j) /\ job' = [job EXCEPT ![j] = "ack"] /\ UNCHANGED saw
     ELSE /\ job' = [job EXCEPT ![j] = "clear"] /\ saw' = [saw EXCEPT ![j] = fence]
          /\ UNCHANGED <<prog, owner>>

\* Created tasks run their first step in order.
Prompt(j) == \A i \in Jobs : job[i] = "new" => i[1] > j[1] \/ (i[1] = j[1] /\ i[2] >= j[2])

BeginJob(j) ==
  /\ job[j] = "new" /\ Prompt(j)
  /\ IF owner = NoJob THEN StartProgress(j)
     ELSE /\ Write(j[1], "running", FALSE) /\ Stop(j)
          /\ job' = [job EXCEPT ![j] = "stopPrev"]
          /\ UNCHANGED <<owner, saw>>
  /\ UNCHANGED <<service, fence, gate, memory, session, late, faults>>

\* The job does not look whether another one has launched its progress meanwhile.
GoOn(j) ==
  /\ job[j] = "stopPrev" /\ ~Awaits(j)
  /\ StartProgress(j)
  /\ UNCHANGED <<service, fence, gate, memory, session, late, faults>>

\* The follow-up of a message that was answered takes the fence of that answer away, and
\* leaves one that was put there while it waited.
ClearFence(j) ==
  /\ job[j] = "clear" /\ gate = "free"
  /\ fence' = IF fence = saw[j] THEN 0 ELSE fence
  /\ saw' = [saw EXCEPT ![j] = 0]
  /\ Launch(j)
  /\ job' = [job EXCEPT ![j] = "ack"]
  /\ UNCHANGED <<service, reg, gate, memory, session, late, faults>>

Ask(j) == queue' = Append(queue, j) /\ job' = [job EXCEPT ![j] = "turn"]
Leave(j) == job' = [job EXCEPT ![j] = "stop"]

JobAcknowledges(j) ==
  LET m == j[1] IN
  /\ job[j] = "ack"
  /\ \/ /\ phase = "listening" \/ (~reg[m].receipt /\ Closing)    \* no sessions yet, or closing
        /\ Leave(j) /\ UNCHANGED <<reg, queue>>
     \/ /\ phase # "listening" /\ reg[m].receipt
        /\ Ask(j) /\ UNCHANGED reg
     \/ /\ phase # "listening" /\ ~Closing /\ ~reg[m].receipt /\ Settled
        /\ Write(m, "finalized", FALSE) /\ Leave(j) /\ UNCHANGED queue
     \/ /\ phase # "listening" /\ ~Closing /\ ~reg[m].receipt /\ ~Settled /\ receipt
        /\ Receipted(m) /\ Ask(j)
     \/ /\ phase # "listening" /\ ~Closing /\ ~reg[m].receipt /\ ~Settled /\ ~receipt
        /\ job' = [job EXCEPT ![j] = "ackPost"] /\ UNCHANGED <<reg, queue>>
  /\ UNCHANGED <<service, fence, gate, memory, progress, turn, late, faults>>

JobReceiptSent(j) ==
  /\ job[j] \in {"ackPost", "lastAck"}
  /\ receipt' = TRUE
  /\ IF job[j] = "ackPost" THEN Receipted(j[1]) /\ Ask(j)
     ELSE job' = [job EXCEPT ![j] = "canceled"] /\ UNCHANGED <<reg, queue>>
  /\ UNCHANGED <<task, landed, limbo, events, fence, gate, memory, progress, turn, late, faults>>

\* Without a receipt the message is worked on all the same.
JobReceiptFails(j, arrives) ==
  /\ job[j] \in {"ack", "ackPost"} /\ phase # "listening"
  /\ job[j] = "ack" => ~reg[j[1]].receipt /\ ~arrives
  /\ receipt' = (receipt \/ arrives)
  /\ Ask(j)
  /\ UNCHANGED <<task, landed, limbo, events, files, gate, memory, progress, turn, late, faults>>

\* The conversation takes the turn, even of a job that was cancelled meanwhile.
StartTurn ==
  /\ turn = NoTurn /\ queue # <<>>
  /\ turn' = [NoTurn EXCEPT !.j = Head(queue), !.step = "run"]
  /\ queue' = Tail(queue)
  /\ UNCHANGED <<service, files, gate, memory, job, progress, late, faults>>

\* The turn ends with an answer, with [SILENT] or nothing, or with an error.  A job that
\* was cancelled does not get it.
EndTurn(answer) ==
  /\ turn.step \in {"run", "called"}
  /\ LET j == turn.j
         committed == turn.sent # "none"
     IN IF job[j] # "turn" THEN UNCHANGED <<reg, job>>
        ELSE IF answer /\ ~committed
        THEN job' = [job EXCEPT ![j] = "gate"] /\ UNCHANGED reg
        ELSE Leave(j) /\ Write(j[1], "finalized", turn.sent = "input")
  /\ turn' = NoTurn
  /\ UNCHANGED <<service, fence, gate, memory, progress, queue, late, faults>>

FailTurn ==
  /\ turn.step \in {"run", "called"}
  /\ Fault
  /\ IF job[turn.j] = "turn" THEN Leave(turn.j) ELSE UNCHANGED job
  /\ turn' = NoTurn
  /\ UNCHANGED <<service, files, gate, memory, progress, queue, late>>

\* The job sends the answer itself: the gate, then the fence, then a look at the task.
TakeGate(j) ==
  /\ job[j] = "gate" /\ gate = "free"
  /\ gate' = "reply" /\ fence' = j[1]
  /\ job' = [job EXCEPT ![j] = "check"]
  /\ UNCHANGED <<service, reg, memory, progress, session, late, faults>>

CheckTask(j) ==
  /\ job[j] = "check"
  /\ IF Settled THEN gate' = "free" /\ Write(j[1], "finalized", FALSE) /\ Leave(j)
     ELSE job' = [job EXCEPT ![j] = "post"] /\ UNCHANGED <<reg, gate>>
  /\ UNCHANGED <<service, fence, memory, progress, session, late, faults>>

\* Mutant: an error leaves the gate behind.
KeepsGate(j) ==
  /\ job[j] = "check"
  /\ Fault /\ Leave(j)
  /\ UNCHANGED <<service, files, gate, memory, progress, session, late>>

CheckFails(j) ==
  /\ job[j] = "check"
  /\ Fault /\ gate' = "free" /\ Leave(j)
  /\ UNCHANGED <<service, files, memory, progress, session, late>>

AnswerSent(j) ==
  /\ job[j] \in {"post", "lastPost"}
  /\ task.state \notin Terminal
  /\ Accepted(j[1], "done")
  /\ gate' = "free"
  /\ IF job[j] = "post" THEN Write(j[1], "finalized", FALSE) /\ Leave(j)
     ELSE job' = [job EXCEPT ![j] = "canceled"] /\ UNCHANGED reg
  /\ UNCHANGED <<receipt, limbo, events, fence, memory, progress, session, late, faults>>

\* Refused because the task has ended, or given up: it may arrive later.
AnswerFails(j, later) ==
  /\ job[j] \in {"post", "lastPost"}
  /\ IF task.state \in Terminal THEN ~later /\ UNCHANGED faults ELSE Fault
  /\ limbo' = IF later THEN limbo \cup {<<j[1], "done">>} ELSE limbo
  /\ gate' = "free"
  /\ job' = [job EXCEPT ![j] = IF @ = "post" THEN "stop" ELSE "canceled"]
  /\ UNCHANGED <<task, receipt, landed, events, files, memory, progress, session, late>>

\* A cancelled job looks at the task; it may not recognise the state the SDK reports.
JobCanceled(j) ==
  /\ job[j] = "canceled"
  /\ \/ UNCHANGED reg
     \/ Settled /\ Write(j[1], "finalized", FALSE)
  /\ Leave(j)
  /\ UNCHANGED <<service, fence, gate, memory, progress, session, late, faults>>

\* _stop_a2a_progress: the job waits for the progress job of its message.
StopsOwnProgress(j) ==
  /\ job[j] = "stop" /\ owner[1] = j[1]
  /\ Stop(j)
  /\ job' = [job EXCEPT ![j] = "stopping"]
  /\ UNCHANGED <<service, files, gate, memory, owner, saw, session, late, faults>>

EndJob(j) ==
  /\ \/ job[j] = "stop" /\ owner[1] # j[1]
     \/ job[j] = "stopping" /\ ~Awaits(j)
  /\ job' = [job EXCEPT ![j] = "none"]
  /\ UNCHANGED <<service, files, gate, memory, progress, session, late, faults>>

-----------------------------------------------------------------------------
(* inkbox_a2a_complete, _fail and _ask_caller in the tool process; one call of these *)
(* tools in a turn.                                                        *)

CallTool(o) ==
  /\ turn.step = "run" /\ gate = "free"
  /\ turn' = [turn EXCEPT !.step = o]
  /\ gate' = "tool" /\ fence' = turn.j[1]
  /\ UNCHANGED <<service, reg, memory, job, progress, queue, late, faults>>

ToolSent ==
  /\ turn.step \in Outcomes
  /\ task.state \notin Terminal
  /\ Accepted(turn.j[1], turn.step)
  /\ turn' = [turn EXCEPT !.step = "called", !.sent = turn.step]
  /\ gate' = "free"
  /\ UNCHANGED <<receipt, limbo, events, files, memory, job, progress, queue, late, faults>>

ToolFails(later) ==
  /\ turn.step \in Outcomes
  /\ IF task.state \in Terminal THEN ~later /\ UNCHANGED faults ELSE Fault
  /\ limbo' = IF later THEN limbo \cup {<<turn.j[1], turn.step>>} ELSE limbo
  /\ turn' = [turn EXCEPT !.step = "called"]
  /\ gate' = "free"
  /\ UNCHANGED <<task, receipt, landed, events, files, memory, job, progress, queue, late>>
-----------------------------------------------------------------------------
(* The progress job that job i launched (_run_a2a_progress).                *)

GoesOn(i, step) == prog[i].step = step /\ prog[i].stop # "kill"
Step(i, step) == prog' = [prog EXCEPT ![i].step = step] /\ UNCHANGED owner
Ended(i) == prog' = [prog EXCEPT ![i] = NoProg] /\ owner' = IF owner = i THEN NoJob ELSE owner
Finished(i) == Ended(i) /\ gate' = "free"
Repeats(i) == Step(i, "wait") /\ gate' = "free"

\* The interval is over, or the job is told to stop.
Wake(i) ==
  /\ GoesOn(i, "wait")
  /\ IF prog[i].stop = "stop" THEN Ended(i) ELSE Step(i, "atGate")
  /\ UNCHANGED <<service, files, gate, memory, job, saw, session, late, faults>>

\* Mutant: progress does not look at the fence.
IgnoresFence(i) ==
  /\ GoesOn(i, "atGate") /\ gate = "free"
  /\ IF reg[i[1]].state = "finalized"
     THEN Ended(i) /\ UNCHANGED gate
     ELSE Step(i, "read1") /\ gate' = "progress"
  /\ UNCHANGED <<service, files, memory, job, saw, session, late, faults>>

EnterGate(i) ==
  /\ GoesOn(i, "atGate") /\ gate = "free"
  /\ IF fence # 0 \/ reg[i[1]].state = "finalized"
     THEN Ended(i) /\ UNCHANGED gate
     ELSE Step(i, "read1") /\ gate' = "progress"
  /\ UNCHANGED <<service, files, memory, job, saw, session, late, faults>>

ReadTask(i) ==
  /\ GoesOn(i, "read1")
  /\ IF Settled THEN Finished(i)
     ELSE Step(i, IF reg[i[1]].progress = "idle" THEN "summary" ELSE "read2") /\ UNCHANGED gate
  /\ UNCHANGED <<service, files, memory, job, saw, session, late, faults>>

\* The new text is stored before it is sent.
Summarized(i) ==
  /\ GoesOn(i, "summary")
  /\ reg' = [reg EXCEPT ![i[1]].state = "running", ![i[1]].progress = "unsent"]
  /\ Step(i, "read2")
  /\ UNCHANGED <<service, fence, gate, memory, job, saw, session, late, faults>>

Delivered(m) == reg' = [reg EXCEPT ![m].state = "running", ![m].progress = "idle"]

ReadAgain(i) ==
  /\ GoesOn(i, "read2")
  /\ \/ Settled /\ Finished(i) /\ UNCHANGED reg
     \/ ~Settled /\ reg[i[1]].progress = "sent" /\ Repeats(i) /\ Delivered(i[1])
     \/ ~Settled /\ reg[i[1]].progress # "sent" /\ Step(i, "post") /\ UNCHANGED <<reg, gate>>
  /\ UNCHANGED <<service, fence, memory, job, saw, session, late, faults>>

ReadFails(i) ==
  /\ GoesOn(i, "read1") \/ GoesOn(i, "read2")
  /\ Fault /\ Repeats(i)
  /\ UNCHANGED <<service, files, memory, job, saw, session, late>>

\* The text arrives; what the gateway did not hear of waits for the next look at the task.
Told(m) == late' = late \cup ({m} \cap landed)
Unheard(m) == reg' = [reg EXCEPT ![m].progress = IF @ = "unsent" THEN "sent" ELSE @]

ProgressSent(i) ==
  /\ prog[i].step = "post"
  /\ Told(i[1])
  /\ IF prog[i].stop = "kill" THEN Finished(i) /\ Unheard(i[1])
     ELSE Repeats(i) /\ Delivered(i[1])
  /\ UNCHANGED <<service, fence, memory, job, saw, session, faults>>

ProgressFails(i, arrives) ==
  /\ prog[i].step = "post"
  /\ Fault
  /\ IF arrives THEN Told(i[1]) /\ Unheard(i[1]) ELSE UNCHANGED <<late, reg>>
  /\ IF prog[i].stop = "kill" THEN Finished(i) ELSE Repeats(i)
  /\ UNCHANGED <<service, fence, memory, job, saw, session>>

Killed(i) ==
  /\ prog[i].stop = "kill" /\ prog[i].step # "post"
  /\ Ended(i)
  /\ gate' = IF prog[i].step \in {"read1", "summary", "read2"} THEN "free" ELSE gate
  /\ UNCHANGED <<service, files, memory, job, saw, session, late, faults>>

-----------------------------------------------------------------------------
(* The gateway process.                                                    *)

\* run(): the HTTP server, then the sessions, then the catch-up.
Listen ==
  /\ phase = "down" /\ phase' = "listening"
  /\ UNCHANGED <<service, files, gate, hook, catch, canceled, job, progress, session, late, faults>>

OpenSessions ==
  /\ phase = "listening" /\ phase' = "open"
  /\ UNCHANGED <<service, files, gate, hook, catch, canceled, job, progress, session, late, faults>>

Unfinished(state) == IF state = "finalized" THEN "none" ELSE state

CatchUp ==
  /\ phase = "open" /\ phase' = "catching"
  /\ catch' = [NoCatch EXCEPT !.seen = [m \in Messages |-> Unfinished(reg[m].state)]]
  /\ UNCHANGED <<service, files, gate, hook, canceled, job, progress, session, late, faults>>

Catching(m, step) == phase = "catching" /\ catch.next = m /\ catch.step = step
\* What was read of an entry is not looked at again.
CatchNext == catch' = [next |-> catch.next + 1, step |-> "look",
                       seen |-> [catch.seen EXCEPT ![catch.next] = "none"]]

\* _catch_up_a2a_tasks, up to its read of the task: entries that are finalized, and tasks
\* with a job, are left alone.
CatchLook(m) ==
  /\ Catching(m, "look")
  /\ IF catch.seen[m] = "none" \/ \E j \in Jobs : ~Quiet(j)
     THEN CatchNext ELSE catch' = [catch EXCEPT !.step = "read"]
  /\ UNCHANGED <<service, files, gate, phase, hook, canceled, job, progress, session, late, faults>>

\* Mutant: an entry is taken up although an outcome of it was sent.
CatchesFenced(m) ==
  /\ Catching(m, "read") /\ CatchNext
  /\ IF task.state # "working" \/ task.latest # m
     THEN Write(m, "finalized", FALSE) /\ UNCHANGED job
     ELSE Write(m, catch.seen[m], FALSE) /\ Track(m)
  /\ UNCHANGED <<service, fence, gate, phase, hook, canceled, progress, session, late, faults>>

\* An unfinished entry is taken up again if the task still waits for an answer to it and no
\* outcome of it was ever sent.
CatchEntry(m) ==
  /\ Catching(m, "read") /\ CatchNext
  /\ IF task.state # "working" \/ task.latest # m
     THEN Write(m, "finalized", FALSE) /\ UNCHANGED job
     ELSE IF fence = m THEN UNCHANGED <<reg, job>>
     ELSE Write(m, catch.seen[m], FALSE) /\ Track(m)
  /\ UNCHANGED <<service, fence, gate, phase, hook, canceled, progress, session, late, faults>>

\* Open tasks of the service that the registry does not know are admitted.
Discover ==
  /\ Catching(NumMessages + 1, "look")
  /\ phase' = "up" /\ catch' = NoCatch
  /\ IF task.state = "working" /\ reg[task.latest].state = "none"
     THEN /\ hook = NoHook
          /\ hook' = [kind |-> "found", m |-> task.latest, step |-> "fetch"]
     ELSE UNCHANGED hook
  /\ UNCHANGED <<service, files, gate, canceled, job, progress, session, late, faults>>

CatchFails ==
  /\ phase = "catching" /\ phase' = "up" /\ catch' = NoCatch
  /\ Fault
  /\ UNCHANGED <<service, files, gate, hook, canceled, job, progress, session, late>>

\* _cleanup: no new events, the event at hand and the progress job end, the jobs are
\* cancelled and waited for.
Close ==
  /\ phase = "up" /\ phase' = "closing"
  /\ Fault
  /\ UNCHANGED <<service, files, gate, hook, catch, canceled, job, progress, session, late>>

CloseProgress ==
  /\ phase = "closing" /\ hook = NoHook /\ owner # NoJob
  /\ phase' = "stopping"
  /\ Stop(Cleanup)
  /\ UNCHANGED <<service, files, gate, hook, catch, canceled, job, owner, saw, session, late, faults>>

CloseJobs ==
  /\ \/ phase = "closing" /\ hook = NoHook /\ owner = NoJob
     \/ phase = "stopping" /\ ~Awaits(Cleanup)
  /\ phase' = "draining"
  /\ CancelJobs /\ owner' = NoJob
  /\ UNCHANGED <<service, files, hook, catch, canceled, session, late, faults>>

Gone ==
  /\ phase' = "down" /\ hook' = NoHook /\ catch' = NoCatch /\ canceled' = {}
  /\ job' = [j \in Jobs |-> "none"]
  /\ prog' = [j \in Jobs |-> NoProg] /\ owner' = NoJob /\ saw' = [j \in Jobs |-> 0]
  /\ queue' = <<>> /\ turn' = NoTurn
  /\ gate' = "free"
  /\ UNCHANGED <<task, landed, fence>>

\* Outcomes in flight when their sender dies.
InFlight ==
  {<<j[1], "done">> : j \in {i \in Jobs : job[i] \in {"post", "lastPost"}}}
  \cup (IF turn.step \in Outcomes THEN {<<turn.j[1], turn.step>>} ELSE {})

\* So may a progress text.
LastTexts ==
  \/ UNCHANGED <<reg, late>>
  \/ \E i \in Jobs : prog[i].step = "post" /\ Told(i[1]) /\ Unheard(i[1])

Down ==
  /\ phase = "draining" /\ \A j \in Jobs : Quiet(j)
  /\ limbo' = limbo \cup InFlight
  /\ LastTexts
  /\ Gone
  /\ UNCHANGED <<receipt, events, faults>>

Crash ==
  /\ phase # "down"
  /\ Fault
  /\ limbo' = limbo \cup InFlight
  /\ events' = IF hook.kind \in {"none", "found"} THEN events ELSE events \cup {hook.m}
  /\ \/ UNCHANGED receipt
     \/ /\ hook.step \in {"postOld", "postNew"} \/ \E j \in Jobs : job[j] \in {"ackPost", "lastAck"}
        /\ receipt' = TRUE
  /\ LastTexts
  /\ Gone

-----------------------------------------------------------------------------
Init ==
  /\ task = [state |-> "none", latest |-> 0]
  /\ receipt = FALSE /\ landed = {} /\ limbo = {} /\ events = {}
  /\ reg = [m \in Messages |-> NoEntry] /\ fence = 0 /\ gate = "free"
  /\ phase = "down" /\ hook = NoHook
  /\ catch = NoCatch
  /\ canceled = {} /\ job = [j \in Jobs |-> "none"]
  /\ prog = [j \in Jobs |-> NoProg] /\ owner = NoJob /\ saw = [j \in Jobs |-> 0]
  /\ queue = <<>> /\ turn = NoTurn
  /\ late = {} /\ faults = 0
  /\ early \in BOOLEAN
  /\ raced = {} /\ overtaken = {} /\ orphaned = {}

Environment ==
  \/ CallerSends \/ CallerCancels \/ Crash \/ Close
  \/ \E m \in Messages : Redeliver(m) \/ \E o \in Outcomes : ArrivesLate(m, o)
  \/ \E o \in Outcomes : CallTool(o)

Webhook ==
  \/ Admit \/ AdmitFails \/ Acknowledge \/ ReceiptSent
  \/ \E arrives \in BOOLEAN : AcknowledgeFails(arrives)
  \/ CancelTask \/ CancelAgain \/ CancelEnds

Job(j) ==
  \/ BeginJob(j) \/ GoOn(j) \/ JobAcknowledges(j) \/ JobReceiptSent(j)
  \/ \E arrives \in BOOLEAN : JobReceiptFails(j, arrives)
  \/ CheckTask(j) \/ CheckFails(j) \/ AnswerSent(j)
  \/ \E later \in BOOLEAN : AnswerFails(j, later)
  \/ JobCanceled(j) \/ StopsOwnProgress(j) \/ EndJob(j)

Gated(j) == ClearFence(j) \/ TakeGate(j)

Conversation ==
  \/ StartTurn \/ FailTurn \/ \E answer \in BOOLEAN : EndTurn(answer)
  \/ ToolSent \/ \E later \in BOOLEAN : ToolFails(later)

Progress(i) ==
  \/ Wake(i) \/ EnterGate(i) \/ ReadTask(i) \/ Summarized(i) \/ ReadAgain(i) \/ ReadFails(i)
  \/ ProgressSent(i) \/ Killed(i) \/ \E arrives \in BOOLEAN : ProgressFails(i, arrives)

Process ==
  \/ Listen \/ OpenSessions \/ CatchUp \/ Discover \/ CatchFails
  \/ \E m \in Messages : CatchLook(m) \/ CatchEntry(m)
  \/ CloseProgress \/ CloseJobs \/ Down

Next ==
  \/ Environment \/ Webhook \/ Conversation \/ Process
  \/ \E m \in 0 .. NumMessages : Deliver(m)
  \/ \E j \in Jobs : Job(j) \/ Gated(j) \/ Progress(j)

-----------------------------------------------------------------------------
(* What the code does not guard against is remembered, for the properties to name. *)

\* An event of the message will start a job, a job has it, or the conversation does.
Underway(m) ==
  \/ hook.m = m /\ Starts(hook.step)
  \/ \E j \in Jobs : j[1] = m /\ ~Quiet(j)
  \/ \E i \in DOMAIN queue : queue[i][1] = m
  \/ turn.step # "none" /\ turn.j[1] = m

\* The catch-up starts a job of a message that is underway: webhooks are served meanwhile.
TakenUpTwice ==
  {m \in Messages : Underway(m) /\ catch.next = m /\ catch'.next = m + 1 /\ job' # job}

\* The fence of an outcome gives way to an older message: to its outcome, or to its job.
Yields(m) == \/ fence' # 0 /\ fence' < m
             \/ fence' = 0 /\ owner'[1] < m
OvertakenNow == {m \in Messages : fence = m /\ fence' # m /\ Yields(m)}

\* Nobody can stop a progress job that the gateway does not know of.
OrphanedNow ==
  {m \in Messages : owner[1] = m /\ owner' # owner /\ prog'[owner].step # "none"}

Remember ==
  /\ raced' = raced \cup TakenUpTwice
  /\ overtaken' = overtaken \cup OvertakenNow
  /\ orphaned' = orphaned \cup OrphanedNow
  /\ UNCHANGED early

Spec == Init /\ [][Next /\ Remember]_<<vars, past>>

\* The event loop runs what is ready, requests and turns end.  Whoever waits for the gate
\* tries every 50 ms, and progress leaves it alone for seconds between two texts.
FairSpec ==
  /\ Spec
  /\ WF_vars(Webhook \/ Conversation \/ Process \/ \E j \in Jobs : Job(j))
  /\ WF_vars(\E i \in Jobs : Progress(i))
  /\ SF_vars(\E j \in Jobs : Gated(j))
-----------------------------------------------------------------------------
(* Properties.                                                             *)

Steps == {"none", "new", "stopPrev", "clear", "ack", "ackPost", "turn", "gate", "check", "post",
          "lastPost", "lastAck", "canceled", "stop", "stopping"}

\* Every variable has its type, and the gate is held exactly by the one who is past it.
TypeOK ==
  /\ task.state \in {"none", "working", "input", "done", "canceled"} /\ task.latest \in 0 .. NumMessages
  /\ landed \subseteq Messages /\ limbo \subseteq Messages \X Outcomes
  /\ events \subseteq 0 .. NumMessages
  /\ reg \in [Messages -> [state : {"none", "queued", "running", "finalized"}, receipt : BOOLEAN,
                           progress : {"never", "idle", "unsent", "sent"}]]
  /\ fence \in 0 .. NumMessages /\ canceled \subseteq 0 .. NumMessages
  /\ job \in [Jobs -> Steps] /\ saw \in [Jobs -> 0 .. NumMessages]
  /\ owner \in Jobs \cup {NoJob} /\ late \subseteq Messages
  /\ gate = "reply" <=> \E j \in Jobs : job[j] \in {"check", "post", "lastPost"}
  /\ gate = "tool" <=> turn.step \in Outcomes
  /\ gate = "progress" <=> \E i \in Jobs : prog[i].step \in {"read1", "summary", "read2", "post"}

\* A message has one job at a time, hence one turn, unless the catch-up took it up while a
\* webhook, a job or the conversation had it.
OneJobPerMessage == \A m \in Messages \ raced : Quiet(<<m, 1>>) \/ Quiet(<<m, 2>>)

\* The caller reads no progress of a message after its outcome, although the outcome is
\* sent by another process and may arrive after its sender gave up, unless the message was
\* taken up twice, its fence overtaken, or its progress job forgotten.
NoProgressAfterOutcome == late \subseteq raced \cup overtaken \cup orphaned

\* The caller sees one job for a message, and nothing of it after its outcome.
MessagesAreServedOnce == OneJobPerMessage /\ NoProgressAfterOutcome

\* A message whose outcome was sent or tried is not given to the model again, not by a
\* repeated webhook, a restart or a follow-up, unless it was taken up twice.
FencedIsNotRerun ==
  [][turn = NoTurn /\ turn' # NoTurn => fence # turn'.j[1] \/ fence \in raced]_vars

\* A message that was answered is not given to the model again, not by a repeated webhook, a
\* restart, a follow-up, or an answer that arrived late, unless it was taken up twice or its
\* fence was overtaken.
AnsweredIsNotRerun ==
  [][turn = NoTurn /\ turn' # NoTurn => turn'.j[1] \notin landed \ (raced \cup overtaken)]_vars

\* An answer ends its message, for the model too: whether it was tried, landed or came late.
AnswersAreFinal == FencedIsNotRerun /\ AnsweredIsNotRerun

\* Every event is answered and every job ends, although a cancellation waits for jobs, a job
\* for its progress job and both of these for the gate.
Busy == hook # NoHook \/ \E j \in Jobs : ~Quiet(j)
EverythingEnds == Busy ~> ~Busy
=============================================================================
