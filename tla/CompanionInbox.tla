--------------------------- MODULE CompanionInbox ---------------------------
(***************************************************************************)
(* One scope (conversation) of the durable Companion inbox: the receipts   *)
(* kept in SQLite by Inbox, the per-scope task Receiver._drain that turns  *)
(* them into host turns and replies, the webhook deliveries that race with *)
(* it, the crash of the gateway at any await, the rescue of an ambiguous   *)
(* receipt and the operator's decisions on a stopped inbox                 *)
(* (inkbox_codex/companion.py).                                            *)
(*                                                                         *)
(* Scopes share only the life of the process, so one scope is enough.  An  *)
(* action is the code between two awaits.  What a webhook carries          *)
(* (sequence, phase, activation, source message) is fixed per receipt.     *)
(***************************************************************************)
EXTENDS Naturals, FiniteSets

CONSTANTS
  Receipts,      \* the webhook events of the scope, by event id
  Activations,   \* the activation ids (grants) of the scope
  Sources,       \* source message ids
  None,
  Sequence,      \* signed sequence number of a receipt
  Phase,         \* "ordinary", "initialization" or "live"
  Activation,    \* activation of a receipt, None for an ordinary one
  Source,        \* source message of a receipt
  Trigger,       \* source message that triggered an activation
  Channel,       \* "plain" (mail, phone, imessage), "slack" or "whatsapp"
  Disallowed,    \* ordinary receipts whose author is not allowed locally
  Control,       \* receipts whose text is a slash command (/stop, /status...)
  SlowAnswers,   \* receipts whose interaction awaits a send before it returns
  MaxAttempts,   \* preflight failures before "failed" (5 in the code)
  MaxFaults, MaxCrashes, MaxDecisions   \* bounds of the model

ASSUME ReceiptsAssumption ==
  /\ Sequence \in [Receipts -> Nat]
  /\ \A e, f \in Receipts : Sequence[e] = Sequence[f] => e = f
  /\ Phase \in [Receipts -> {"ordinary", "initialization", "live"}]
  /\ Activation \in [Receipts -> Activations \cup {None}]
  /\ \A e \in Receipts : Activation[e] = None <=> Phase[e] = "ordinary"
  /\ Source \in [Receipts -> Sources]
  /\ Trigger \in [Activations -> Sources]
  /\ None \notin Activations \cup Receipts

ASSUME ChannelAssumption ==
  /\ Channel \in {"plain", "slack", "whatsapp"}
  /\ Disallowed \subseteq {e \in Receipts : Phase[e] = "ordinary"}
  /\ Control \subseteq {e \in Receipts : Phase[e] = "live"}
  /\ SlowAnswers \subseteq {e \in Receipts : Phase[e] = "live"}

ASSUME BoundsAssumption ==
  MaxAttempts \in Nat /\ MaxFaults \in Nat /\ MaxCrashes \in Nat /\ MaxDecisions \in Nat

Parts == {"init", "turn"}   \* the activation snapshot, or the receipt's own input
ReceiptStates == {"absent", "pending", "submitting", "reply_pending", "sending",
                  "done", "failed", "uncertain", "quarantined"}
ActivationStates == {"none", "submitting", "initialized", "uncertain",
                     "interrupted", "retired"}

VARIABLES
  \* the SQLite database: survives a crash
  state,        \* events.state of each receipt; "absent" when there is no row
  activation,   \* activations.state; "none" when there is no row
  submitted,    \* submitted_sources: <<activation or None, source>>
  reply,        \* replies: the saved answer of a receipt, None if no row
  journal,      \* host_receipts: the last submission of a receipt, None if no row
  notice,       \* recovery_notices.pending
  enriched,     \* WhatsApp receipts whose payload was enriched
  \* the gateway process: lost in a crash
  up,           \* the gateway runs (and owns the inbox lock)
  pc,           \* the await at which Receiver._drain of the scope stands
  cur,          \* the receipt it works on
  job,          \* the submission it makes or has made
  timer,        \* Receiver.retries holds a timer for the scope
  attempts,     \* Receiver.attempts of the scope
  clients,      \* activations (or None) whose session has a live host client
  answering,    \* receipts whose companion_interaction has not returned
  \* history, for the properties and the bounds only
  turns,        \* submissions of each receipt's own input,
  inits,        \* of each activation's snapshot, and
  sends,        \* sends of each part's answer, since an acknowledged retry
  retired,      \* receipts settled by retire_unsubmitted
  late,         \* receipts admitted since the drain picked cur
  faults, crashes, decisions

store == <<state, activation, submitted, reply, journal, notice, enriched>>
task  == <<pc, cur, job, timer, attempts>>
other == <<clients, answering>>
ghost == <<turns, inits, sends, retired, late>>
bounds == <<faults, crashes, decisions>>
vars == <<store, up, task, other, ghost, bounds>>

Tally == [Parts -> Nat]
Job == [part : Parts, sources : SUBSET Sources, answers : BOOLEAN, explains : BOOLEAN]
SavedReply == [next : {"pending", "done"}, part : Parts]

ASSUME NoneAssumption == None \notin Job \cup SavedReply

StoreTypeOK ==
  /\ state \in [Receipts -> ReceiptStates]
  /\ activation \in [Activations -> ActivationStates]
  /\ submitted \subseteq (Activations \cup {None}) \X Sources
  /\ reply \in [Receipts -> SavedReply \cup {None}]
  /\ journal \in [Receipts -> Job \cup {None}]
  /\ notice \in BOOLEAN
  /\ enriched \subseteq Receipts
TaskTypeOK ==
  /\ up \in BOOLEAN
  /\ pc \in {"idle", "loop", "rescue", "enrich", "load", "fence", "repeat",
             "submit", "stopped", "turn", "deliver", "send"}
  /\ cur \in Receipts \cup {None}
  /\ job \in Job \cup {None}
  /\ timer \in BOOLEAN
  /\ attempts \in Nat
  /\ clients \subseteq Activations \cup {None}
  /\ answering \subseteq Receipts
HistoryTypeOK ==
  /\ turns \in [Receipts -> Nat]
  /\ inits \in [Activations -> Nat]
  /\ sends \in [Receipts -> Tally]
  /\ retired \subseteq Receipts
  /\ late \subseteq Receipts
  /\ faults \in Nat /\ crashes \in Nat /\ decisions \in Nat
TypeOK == StoreTypeOK /\ TaskTypeOK /\ HistoryTypeOK

Init ==
  /\ state = [e \in Receipts |-> "absent"]
  /\ activation = [a \in Activations |-> "none"]
  /\ submitted = {} /\ notice = FALSE /\ enriched = {}
  /\ reply = [e \in Receipts |-> None]
  /\ journal = [e \in Receipts |-> None]
  /\ up = TRUE /\ pc = "idle" /\ cur = None /\ job = None
  /\ timer = FALSE /\ attempts = 0
  /\ clients = {} /\ answering = {}
  /\ turns = [e \in Receipts |-> 0]
  /\ inits = [a \in Activations |-> 0]
  /\ sends = [e \in Receipts |-> [p \in Parts |-> 0]]
  /\ retired = {} /\ late = {}
  /\ faults = 0 /\ crashes = 0 /\ decisions = 0
-----------------------------------------------------------------------------
(* Reading the inbox *)

Unfinished == {e \in Receipts : state[e] \notin {"absent", "done", "quarantined"}}

\* Slip: the rows are not ordered by sequence.
AnyUnfinished(e) == e \in Unfinished

\* Inbox.next: the unfinished receipt of lowest sequence, ready for the drain.
IsHead(e) ==
  /\ e \in Unfinished
  /\ \A f \in Unfinished : Sequence[e] <= Sequence[f]

\* Slip: an uncertain receipt holds its scope, as a failed send once did.
ReadyUnlessUncertain(e) == IsHead(e) /\ state[e] \in {"pending", "reply_pending", "failed"}

Ready(e) ==
  IsHead(e) /\ state[e] \in {"pending", "reply_pending", "failed", "uncertain"}

SourceSubmitted(e) == <<Activation[e], Source[e]>> \in submitted

\* A receipt that an authoritative revocation may settle.
Retirable(e) ==
  /\ ~SourceSubmitted(e)
  /\ state[e] \in {"pending", "failed"}
  /\ journal[e] = None
  /\ reply[e] = None

\* Where a receipt resumes that failed before an effect.
AlwaysReplyPending(e) == "reply_pending"     \* slip: no look at the saved answer
Resumed(e) == IF reply[e] = None THEN "pending" ELSE "reply_pending"

\* Slip: the running task is not looked at, so a second one starts.
ScheduleAgain == pc' = "loop" /\ timer' = FALSE

\* Receiver.schedule: start the scope's task unless one runs.  A task that
\* starts pops the retry timer first.
Schedule ==
  /\ pc' = IF pc = "idle" THEN "loop" ELSE pc
  /\ timer' = IF pc = "idle" THEN FALSE ELSE timer

TurnJobs(e) ==
  [part : {"turn"}, sources : {{Source[e]}},
   answers : IF e \in Control THEN {FALSE} ELSE BOOLEAN, explains : {notice}]

\* What the task submits next, where it stands at "submit".
Submission == IF job = None THEN TurnJobs(cur) ELSE {job}
-----------------------------------------------------------------------------
(* Webhook deliveries: Receiver.accept and Inbox.accept *)

\* A later sequence that has left "pending" refuses a late event.
InOrder(e) == \A f \in Receipts :
  Sequence[f] > Sequence[e] => state[f] \in {"absent", "pending"}

\* WhatsApp: a grant of higher sequence replaces the older activation's
\* unstarted receipts, and is itself replaced by one already admitted.
Superseded(e) ==
  IF Channel # "whatsapp" \/ Activation[e] = None THEN {}
  ELSE LET rival(f) == /\ state[f] # "absent"
                       /\ Activation[f] \notin {None, Activation[e]}
       IN {f \in Receipts : /\ rival(f) /\ Sequence[f] < Sequence[e]
                            /\ Retirable(f)}
          \cup {f \in {e} : /\ ~SourceSubmitted(e)
                            /\ \E g \in Receipts :
                                 rival(g) /\ Sequence[g] > Sequence[e]}

Inserted(e) ==
  [f \in Receipts |-> IF f \in Superseded(e) THEN "done"
                      ELSE IF f = e THEN "pending" ELSE state[f]]

Admit(e) ==
  /\ up /\ state[e] = "absent" /\ InOrder(e)
  /\ state' = Inserted(e)
  /\ retired' = retired \cup Superseded(e)
  /\ late' = late \cup {e}
  /\ Schedule
  /\ UNCHANGED <<activation, submitted, reply, journal, notice, enriched, up, cur,
                 job, attempts, other, turns, inits, sends, bounds>>

\* Only a live message that no snapshot held is offered to companion_interaction.
Offered(e) == Phase[e] = "live" /\ ~SourceSubmitted(e)

\* companion_interaction: the message answers the question of the running turn.
Interacts(e) ==
  /\ Offered(e)
  /\ pc = "turn" /\ job.answers
  /\ Activation[cur] = Activation[e]

Consume(e, st) ==
  /\ state' = [st EXCEPT ![e] = "done"]
  /\ submitted' = submitted \cup {<<Activation[e], Source[e]>>}

\* A command is taken while a turn that will answer is prepared, as well.
Prepares(e) ==
  /\ pc = "submit" /\ Activation[cur] = Activation[e]
  /\ job' \in {j \in Submission : j.answers}

\* A new live message answers at once: it is admitted and consumed.
AdmitAnswer(e) ==
  /\ up /\ state[e] = "absent" /\ InOrder(e) /\ e \notin Superseded(e)
  /\ Interacts(e) /\ e \notin SlowAnswers \cup Control
  /\ Consume(e, Inserted(e))
  /\ retired' = retired \cup Superseded(e)
  /\ UNCHANGED <<activation, reply, journal, notice, enriched, up, task, other,
                 turns, inits, sends, late, bounds>>

\* The interaction sends a message (an invalid answer, a command) before it
\* reports that the receipt, new or still queued, is consumed.
AnswerSlowly(e) ==
  /\ up /\ e \in SlowAnswers \ answering
  /\ (Interacts(e) /\ UNCHANGED job) \/ (Offered(e) /\ Prepares(e))
  /\ \/ /\ state[e] = "absent" /\ InOrder(e) /\ e \notin Superseded(e)
        /\ state' = Inserted(e)
        /\ retired' = retired \cup Superseded(e)
        /\ late' = late \cup {e}
     \/ /\ state[e] = "pending"
        /\ UNCHANGED <<state, retired, late>>
  /\ answering' = answering \cup {e}
  /\ UNCHANGED <<activation, submitted, reply, journal, notice, enriched, up, pc, cur,
                 timer, attempts, clients, turns, inits, sends, bounds>>

\* A /stop whose interaction is under way, a /reset or a /resume (these are queued all the
\* same) interrupts the turn while it is prepared: the host will not be started.
StopsPreparation(e) ==
  /\ up /\ Prepares(e)
  /\ e \in answering \/ (e \in Control /\ state[e] = "pending" /\ Offered(e))
  /\ pc' = "stopped"
  /\ UNCHANGED <<store, up, cur, timer, attempts, other, ghost, bounds>>

\* The interaction returned: TRUE settles the receipt, FALSE leaves it queued.
InteractionReturns(e) ==
  /\ up /\ e \in answering
  /\ answering' = answering \ {e}
  /\ \/ Consume(e, state)
     \/ UNCHANGED <<state, submitted>>
  /\ Schedule
  /\ UNCHANGED <<activation, reply, journal, notice, enriched, up, cur, job,
                 attempts, clients, ghost, bounds>>

\* Another delivery of a known event only wakes the scope ...
Redeliver(e) ==
  /\ up /\ state[e] # "absent"
  /\ Schedule
  /\ UNCHANGED <<store, up, cur, job, attempts, other, ghost, bounds>>

\* ... but one that is still queued is offered to the running turn again ...
RedeliverAnswer(e) ==
  /\ up /\ state[e] = "pending" /\ e \notin answering
  /\ Interacts(e) /\ e \notin SlowAnswers \cup Control
  /\ Consume(e, state)
  /\ UNCHANGED <<activation, reply, journal, notice, enriched, up, task, other,
                 ghost, bounds>>

\* ... and a WhatsApp retry whose activation was revoked retires it.
RedeliverRevoked(e) ==
  /\ up /\ Channel = "whatsapp" /\ Activation[e] # None
  /\ state[e] # "absent" /\ Retirable(e)
  /\ state' = [state EXCEPT ![e] = "done"]
  /\ retired' = retired \cup {e}
  /\ Schedule
  /\ UNCHANGED <<activation, submitted, reply, journal, notice, enriched, up, cur,
                 job, attempts, other, turns, inits, sends, late, bounds>>
-----------------------------------------------------------------------------
(* The scope's task: Receiver._drain, process, submit and deliver_reply *)

\* What process does next with e, up to its first await, given the saved
\* replies, submitted sources, activation rows and enriched receipts.
Route(e, rep, sub, act, enr) ==
  IF rep[e] # None THEN "deliver"
  ELSE IF <<Activation[e], Source[e]>> \in sub \/ e \in Disallowed THEN "finish"
  ELSE IF Channel = "whatsapp" /\ e \notin enr THEN "enrich"
  ELSE IF Phase[e] = "ordinary" THEN "submit"
  ELSE IF act[Activation[e]] = "none" THEN "load"
  ELSE IF act[Activation[e]] \in {"submitting", "uncertain"} THEN "fence"
  ELSE IF Phase[e] = "initialization"
            /\ (Channel # "slack" \/ Trigger[Activation[e]] = Source[e])
       THEN IF Trigger[Activation[e]] = Source[e] THEN "finish" ELSE "repeat"
  ELSE "submit"

\* The task goes on with e, whose row st now describes, after a step that has
\* set the tables Route reads.  A return from process settles the row.
GoOn(e, st) ==
  LET route == Route(e, reply', submitted', activation', enriched')
  IN IF route = "finish"
     THEN state' = [st EXCEPT ![e] = "done"] /\ pc' = "loop" /\ attempts' = 0
     ELSE state' = st /\ pc' = route /\ UNCHANGED attempts

\* The cases of _drain's exception handler.  An effect was under way: its
\* outcome is unknown.
LosesTrack(e) ==
  /\ state[e] \in {"submitting", "sending"}
  /\ state' = [state EXCEPT ![e] = "uncertain"]
  /\ timer' = TRUE /\ UNCHANGED attempts

\* No effect was under way: retry, but a failure other than a transient read is
\* kept as failed after MaxAttempts.
Counted == IF attempts > MaxAttempts THEN attempts ELSE attempts + 1
KeepsFailed(e) == [state EXCEPT ![e] = "failed"]
PreflightFails(e) ==
  /\ state[e] \in {"pending", "reply_pending"}
  /\ attempts' = Counted
  /\ \/ UNCHANGED state
     \/ Counted > MaxAttempts /\ state' = KeepsFailed(e)
  /\ timer' = TRUE

\* The handler ends the task, except for a WhatsApp row retired meanwhile.
Raise(e) ==
  /\ IF state[e] = "done" /\ Channel = "whatsapp"
     THEN pc' = "loop" /\ UNCHANGED <<state, timer, attempts>>
     ELSE /\ pc' = "idle"
          /\ \/ LosesTrack(e)
             \/ PreflightFails(e)
             \/ state[e] = "uncertain" /\ timer' = TRUE /\ UNCHANGED <<state, attempts>>
             \/ state[e] = "done" /\ UNCHANGED <<state, timer, attempts>>
  /\ UNCHANGED <<activation, submitted, reply, journal, notice, enriched, up, cur,
                 job, other, ghost, crashes, decisions>>

\* A read, the host or a send fails at any await of the task.
Fault ==
  /\ up /\ pc \notin {"idle", "loop", "repeat"}
  /\ faults < MaxFaults /\ faults' = faults + 1
  /\ Raise(cur)

\* Take the head of the scope, or end the task.
Pick ==
  /\ up /\ pc = "loop"
  /\ job' = None /\ late' = {}
  /\ UNCHANGED <<activation, submitted, reply, journal, notice, enriched>>
  /\ \/ /\ ~\E e \in Receipts : Ready(e)
        /\ pc' = "idle" /\ cur' = None
        /\ UNCHANGED <<state, attempts>>
     \/ \E e \in Receipts :
          /\ Ready(e) /\ cur' = e
          /\ IF state[e] = "uncertain" THEN pc' = "rescue" /\ UNCHANGED <<state, attempts>>
             ELSE GoOn(e, IF state[e] # "failed" THEN state
                          ELSE [state EXCEPT ![e] = Resumed(e)])
  /\ UNCHANGED <<up, timer, other, turns, inits, sends, retired, bounds>>

\* WhatsApp: attachments and contacts are looked up and saved with the row.
\* An inadmissible source, or a row retired meanwhile, returns from process.
Enrich ==
  /\ up /\ pc = "enrich"
  /\ UNCHANGED <<activation, submitted, reply, journal, notice>>
  /\ \/ /\ state[cur] # "done"
        /\ enriched' = enriched \cup {cur}
        /\ GoOn(cur, state)
     \/ /\ state' = [state EXCEPT ![cur] = "done"]
        /\ pc' = "loop" /\ attempts' = 0
        /\ UNCHANGED enriched
  /\ UNCHANGED <<up, cur, job, timer, other, ghost, bounds>>

\* The activation snapshot: its trigger, and any live source it already holds.
Snapshots(e) ==
  {{Trigger[Activation[e]]} \cup S :
     S \in SUBSET {Source[f] : f \in {g \in Receipts : Activation[g] = Activation[e]}}}

Load ==
  /\ up /\ pc = "load"
  /\ IF Phase[cur] = "initialization" /\ Channel # "slack"
           /\ Trigger[Activation[cur]] # Source[cur]
     THEN Raise(cur) /\ UNCHANGED faults
     ELSE /\ \E S \in Snapshots(cur), answers \in BOOLEAN :
               /\ answers => Source[cur] \in S \/ (Phase[cur] # "live" /\ Channel # "slack")
               /\ job' = [part |-> "init", sources |-> S, answers |-> answers,
                          explains |-> notice]
          /\ pc' = "submit"
          /\ UNCHANGED <<store, up, cur, timer, attempts, other, ghost, bounds>>

\* A repeated initialization of an activation that has another trigger.
Repeat ==
  /\ up /\ pc = "repeat"
  /\ Raise(cur) /\ UNCHANGED faults

\* An activation left ambiguous by an earlier receipt: stop its host first.
Fence ==
  /\ up /\ pc = "fence"
  /\ activation' = [activation EXCEPT ![Activation[cur]] = "interrupted"]
  /\ notice' = TRUE
  /\ clients' = clients \ {Activation[cur]}
  /\ UNCHANGED <<submitted, reply, journal, enriched>>
  /\ GoOn(cur, state)
  /\ UNCHANGED <<up, cur, job, timer, answering, ghost, bounds>>

\* A revocation settled the row while its submission was prepared.
NeverRetired == FALSE                        \* slip: the row is not read again
RetiredMeanwhile == Channel = "whatsapp" /\ state[cur] = "done"

\* submit.before_submit: the checkpoint just before the host can start.  A
\* command never reaches the host, and journals only if a client is connected.
BeforeSubmit ==
  /\ up /\ pc = "submit"
  /\ IF RetiredMeanwhile
     THEN /\ pc' = "loop"
          /\ UNCHANGED <<state, activation, journal, job, clients, turns, inits>>
     ELSE \E j \in Submission :
          LET command == j.part = "turn" /\ cur \in Control
              connected == ~command \/ Activation[cur] \in clients
          IN /\ job' = j
             /\ state' = [state EXCEPT ![cur] = "submitting"]
             /\ activation' = IF j.part = "turn" THEN activation
                  ELSE [activation EXCEPT ![Activation[cur]] = "submitting"]
             /\ journal' = IF connected THEN [journal EXCEPT ![cur] = j] ELSE journal
             /\ clients' = IF connected THEN clients \cup {Activation[cur]} ELSE clients
             /\ turns' = IF j.part = "turn" THEN [turns EXCEPT ![cur] = @ + 1] ELSE turns
             /\ inits' = IF j.part = "turn" THEN inits
                         ELSE [inits EXCEPT ![Activation[cur]] = @ + 1]
             /\ pc' = "turn"
  /\ UNCHANGED <<submitted, reply, notice, enriched, up, cur, timer, attempts,
                 answering, sends, retired, late, bounds>>

\* _settle_submission: sources, activation, saved answer and row in one
\* transaction.  SettledRow is the row it leaves.
NextRow(e, j) ==
  IF j.part = "init" /\ (Phase[e] = "live" \/ Channel = "slack")
       /\ Trigger[Activation[e]] # Source[e]
  THEN "pending" ELSE "done"
\* Slip: a row state that nothing else knows.
RepliedRow(e, j, answer) == [state EXCEPT ![e] = IF answer THEN "replied" ELSE NextRow(e, j)]
SettledRow(e, j, answer) ==
  [state EXCEPT ![e] = IF answer THEN "reply_pending" ELSE NextRow(e, j)]
Settle(e, j, answer) ==
  /\ submitted' = submitted \cup ({Activation[e]} \X j.sources)
  /\ activation' = IF j.part = "turn" THEN activation
                   ELSE [activation EXCEPT ![Activation[e]] = "initialized"]
  /\ reply' = IF ~answer THEN reply
              ELSE [reply EXCEPT ![e] = [next |-> NextRow(e, j), part |-> j.part]]
  /\ notice' = (notice /\ ~(answer /\ j.explains))

\* The host turn ended: with an answer, or with none ([SILENT], background
\* input, an interrupt, a command).  A /reset drops the session's client.
TurnEnds ==
  /\ up /\ pc = "turn"
  /\ \E answer \in {job.answers, FALSE} :
       /\ Settle(cur, job, answer)
       /\ UNCHANGED <<journal, enriched>>
       /\ GoOn(cur, SettledRow(cur, job, answer))
  /\ clients' \in {clients, IF cur \in Control THEN clients \ {Activation[cur]} ELSE clients}
  /\ job' = None
  /\ UNCHANGED <<up, cur, timer, answering, ghost, bounds>>

\* A turn that was interrupted while it was prepared ends without the checkpoint and the
\* host: its sources are settled, its activation has no row to update.
SubmissionStopped ==
  /\ up /\ pc = "stopped"
  /\ submitted' = submitted \cup ({Activation[cur]} \X job.sources)
  /\ UNCHANGED <<activation, reply, journal, notice, enriched>>
  /\ GoOn(cur, SettledRow(cur, job, FALSE))
  /\ job' = None
  /\ UNCHANGED <<up, cur, timer, other, ghost, bounds>>

\* reply_sending: the checkpoint immediately before the send.
SendStarts ==
  /\ up /\ pc = "deliver"
  /\ IF state[cur] = "reply_pending"
     THEN /\ state' = [state EXCEPT ![cur] = "sending"]
          /\ sends' = [sends EXCEPT ![cur][reply[cur].part] = @ + 1]
          /\ pc' = "send"
          /\ UNCHANGED <<activation, submitted, reply, journal, notice, enriched, up, cur,
                         job, timer, attempts, other, turns, inits, retired, late, bounds>>
     ELSE Raise(cur) /\ UNCHANGED faults

SendEnds ==
  /\ up /\ pc = "send"
  /\ reply' = [reply EXCEPT ![cur] = None]
  /\ UNCHANGED <<activation, submitted, enriched, journal, notice>>
  /\ GoOn(cur, [state EXCEPT ![cur] = reply[cur].next])
  /\ UNCHANGED <<up, cur, job, timer, other, ghost, bounds>>

\* rescue: stop the old host, then take a completed answer from the saved
\* host history, or set the receipt aside without replaying it.
Recoverable(e) == journal[e] # None /\ reply[e] = None /\ journal[e].answers
RescueRecovers ==
  /\ up /\ pc = "rescue" /\ Recoverable(cur)
  /\ \E answer \in BOOLEAN :
       /\ Settle(cur, journal[cur], answer)
       /\ state' = SettledRow(cur, journal[cur], answer)
  /\ clients' = clients \ {Activation[cur]}
  /\ pc' = "loop"
  /\ UNCHANGED <<journal, enriched, up, cur, job, timer, attempts, answering, ghost, bounds>>

\* Slip: the ambiguous activation is forgotten, as an operator's retry does.
Forgotten(e) == [a \in Activations |->
  IF a = Activation[e] /\ activation[a] \in {"submitting", "uncertain"}
  THEN "none" ELSE activation[a]]
Interrupted(e) == [a \in Activations |->
  IF a = Activation[e] /\ activation[a] \in {"submitting", "uncertain"}
  THEN "interrupted" ELSE activation[a]]
RescueQuarantines ==
  /\ up /\ pc = "rescue"
  /\ state' = [state EXCEPT ![cur] = "quarantined"]
  /\ activation' = Interrupted(cur)
  /\ notice' = TRUE
  /\ clients' = clients \ {Activation[cur]}
  /\ pc' = "loop"
  /\ UNCHANGED <<submitted, reply, journal, enriched, up, cur, job, timer, attempts,
                 answering, ghost, bounds>>

Timer ==
  /\ up /\ timer /\ pc = "idle"
  /\ Schedule
  /\ UNCHANGED <<store, up, cur, job, attempts, other, ghost, bounds>>
-----------------------------------------------------------------------------
(* The process: crash or shutdown at any await, restart, operator *)

Crash ==
  /\ up /\ crashes < MaxCrashes /\ crashes' = crashes + 1
  /\ up' = FALSE /\ pc' = "idle" /\ cur' = None /\ job' = None
  /\ timer' = FALSE /\ attempts' = 0 /\ clients' = {} /\ answering' = {} /\ late' = {}
  /\ UNCHANGED <<store, turns, inits, sends, retired, faults, decisions>>

\* Slip: a send in flight is not marked.
MarkSubmitting ==
  /\ state' = [e \in Receipts |->
        IF state[e] = "submitting" THEN "uncertain" ELSE state[e]]
  /\ UNCHANGED activation

\* Inbox.__init__ marks what the previous process left in flight.
MarkInFlight ==
  /\ state' = [e \in Receipts |->
        IF state[e] \in {"submitting", "sending"} THEN "uncertain" ELSE state[e]]
  /\ activation' = [a \in Activations |->
        IF activation[a] = "submitting" THEN "uncertain" ELSE activation[a]]

\* The next gateway opens the inbox, and Receiver.recover schedules the scope.
Restart ==
  /\ ~up /\ up' = TRUE
  /\ MarkInFlight
  /\ pc' = IF Unfinished = {} THEN "idle" ELSE "loop"
  /\ UNCHANGED <<submitted, reply, journal, notice, enriched, cur, job, timer, attempts,
                 other, ghost, bounds>>

\* The operator's command opens the inbox of the stopped gateway ...
Opened == \A e \in Receipts : state[e] \notin {"submitting", "sending"}
OperatorOpens ==
  /\ ~up /\ ~Opened
  /\ MarkInFlight
  /\ UNCHANGED <<submitted, reply, journal, notice, enriched, up, task, other, ghost,
                 bounds>>

\* ... and recover_receipt decides one receipt.  Retrying ambiguous work takes an
\* acknowledgement.
ActivationOf(e) == IF Activation[e] = None THEN "none" ELSE activation[Activation[e]]
AmbiguousNow(e) == state[e] = "uncertain"     \* slip: quarantined work looks safe
Ambiguous(e) ==
  state[e] \in {"uncertain", "quarantined"} \/ ActivationOf(e) \in {"submitting", "uncertain"}
Decidable(e) ==
  /\ ~up /\ Opened
  /\ state[e] \notin {"absent", "done"}
  /\ state[e] # "quarantined" => IsHead(e)
  /\ decisions < MaxDecisions /\ decisions' = decisions + 1
SetActivation(e, s) ==
  activation' = [a \in Activations |-> IF a = Activation[e] THEN s ELSE activation[a]]
InDoubt == {"submitting", "uncertain", "interrupted"}

Retry(e, acknowledged) ==
  /\ Decidable(e)
  /\ Ambiguous(e) => acknowledged
  /\ state' = [state EXCEPT ![e] = Resumed(e)]
  /\ IF ActivationOf(e) \in InDoubt /\ reply[e] = None
     THEN SetActivation(e, "none") ELSE UNCHANGED activation
  /\ IF acknowledged
     THEN /\ turns' = [turns EXCEPT ![e] = 0]
          /\ inits' = [a \in Activations |-> IF a = Activation[e] THEN 0 ELSE inits[a]]
          /\ sends' = [sends EXCEPT ![e] = [p \in Parts |-> 0]]
     ELSE UNCHANGED <<turns, inits, sends>>
  /\ UNCHANGED <<submitted, reply, journal, notice, enriched, up, task, other,
                 retired, late, faults, crashes>>

Retire(e) ==
  /\ Decidable(e)
  /\ state' = [state EXCEPT ![e] = "done"]
  /\ IF ActivationOf(e) \in InDoubt
          \/ (Phase[e] = "initialization" /\ ActivationOf(e) = "none")
     THEN SetActivation(e, "retired") ELSE UNCHANGED activation
  /\ UNCHANGED <<submitted, reply, journal, notice, enriched, up, task, other,
                 ghost, faults, crashes>>
-----------------------------------------------------------------------------
Deliveries == \E e \in Receipts :
  \/ Admit(e) \/ AdmitAnswer(e) \/ AnswerSlowly(e) \/ InteractionReturns(e)
  \/ StopsPreparation(e) \/ Redeliver(e) \/ RedeliverAnswer(e) \/ RedeliverRevoked(e)
Drain ==
  \/ Pick \/ Enrich \/ Load \/ Repeat \/ Fence \/ BeforeSubmit \/ SubmissionStopped
  \/ TurnEnds \/ SendStarts \/ SendEnds \/ RescueRecovers \/ RescueQuarantines
Operator == \/ OperatorOpens
            \/ \E e \in Receipts : Retire(e) \/ \E ack \in BOOLEAN : Retry(e, ack)

Next == Deliveries \/ Drain \/ Fault \/ Timer \/ Crash \/ Restart \/ Operator

\* The event loop runs a ready task, a timer fires, host turns and sends end
\* (they have timeouts), an interaction returns, the service is restarted.
Fairness ==
  /\ WF_vars(Drain) /\ WF_vars(Timer) /\ WF_vars(Restart)
  /\ \A e \in Receipts : WF_vars(InteractionReturns(e))

Spec == Init /\ [][Next]_vars
FairSpec == Spec /\ Fairness
-----------------------------------------------------------------------------
(* Properties *)

\* No automatic path repeats an effect: since the operator last acknowledged the
\* risk, the input of a receipt was submitted to the host at most once and each
\* of its answers was sent at most once, across crashes, redeliveries, rescues
\* and retries.
AtMostOnce == \A e \in Receipts :
  turns[e] <= 1 /\ \A p \in Parts : sends[e][p] <= 1

\* The snapshot of an activation, and with it the trigger it holds, is submitted
\* at most once by all the activation's receipts together until an operator
\* decides otherwise.
TriggerOnce == decisions = 0 => \A a \in Activations : inits[a] <= 1

\* An answer is saved as long as it waits for its send, and the input it answers
\* is by then recorded as submitted, so a retry of the send cannot run the model.
AnswerHeld == \A e \in Receipts :
  /\ state[e] \in {"reply_pending", "sending"} => reply[e] # None
  /\ reply[e] # None => SourceSubmitted(e)

\* A receipt is settled only when its input was acknowledged by the host, taken by an
\* interaction or stopped by one while it was prepared, or was refused by the local allowlist, revoked, decided by an operator, or repeats
\* the trigger of an activation that was submitted.
SettledIsAccountedFor == \A e \in Receipts :
  state[e] = "done" /\ decisions = 0 /\ Channel # "whatsapp" =>
    \/ SourceSubmitted(e)
    \/ e \in Disallowed
    \/ /\ Phase[e] = "initialization" /\ Source[e] = Trigger[Activation[e]]
       /\ activation[Activation[e]] \notin {"none", "submitting"}

\* At most one receipt of a scope has an effect under way, and in a running
\* gateway it is the one the scope's task works on.
SingleFlight == \A e \in Receipts : state[e] \in {"submitting", "sending"} =>
  /\ \A f \in Receipts : state[f] \in {"submitting", "sending"} => f = e
  /\ up => cur = e /\ pc \in {"turn", "send"}

\* The task failed on a receipt that a slow interaction had settled meanwhile: _drain
\* leaves no timer for what waits behind it.
LeftBehind == pc = "idle" /\ cur # None /\ state[cur] = "done"

\* An unfinished receipt has something that will wake its scope: a running task, a
\* retry timer, or the next start of the gateway ...
NoStrandedScope == up /\ pc = "idle" /\ Unfinished # {} => timer \/ LeftBehind

\* ... always, one would expect.  TLC refutes it.
NeverStranded == up /\ pc = "idle" /\ Unfinished # {} => timer

\* No input is repeated, dropped or stranded: the trigger runs once, what is settled has a
\* reason, and what is not will be woken.
InputsAreAccountedFor == TriggerOnce /\ SettledIsAccountedFor /\ NoStrandedScope

\* A receipt retired by a revocation is never submitted, even when it was
\* retired while the task was preparing it.
RetiredStaysRetired == \A e \in retired : state[e] = "done" /\ turns[e] = 0

\* A submission overtakes an older unfinished receipt only if that one was
\* admitted after the task had picked the newer one.
Submits(e) == state[e] # "submitting" /\ state'[e] = "submitting"
Older(e, f) == Sequence[f] < Sequence[e] /\ f \in Unfinished
OvertakesOnlyLateArrivals ==
  [][\A e, f \in Receipts : Submits(e) /\ Older(e, f) => f \in late]_vars

\* Every admitted receipt is eventually done or set aside, so the conversation
\* goes on after an ambiguous outcome, unless the task left it behind.
EventuallySettled ==
  \A e \in Receipts :
    state[e] = "pending" ~> state[e] \in {"done", "quarantined"} \/ LeftBehind

\* The promise of ReceiptLedger.
Fate(s) ==
  CASE s = "absent" -> "unknown"
    [] s \in {"pending", "failed", "reply_pending"} -> "queued"
    [] s \in {"submitting", "sending"} -> "trying"
    [] s = "uncertain" -> "doubt"
    [] s = "quarantined" -> "parked"
    [] s = "done" -> "settled"
Ledger == INSTANCE ReceiptLedger
  WITH fate <- [e \in Receipts |-> Fate(state[e])], running <- up
KeepsLedger == Ledger!LedgerSpec
=============================================================================
