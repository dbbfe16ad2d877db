---------------------------- MODULE HostedCalls ----------------------------
(***************************************************************************)
(* What the gateway does after a call that Inkbox Voice AI answered: the   *)
(* call.ended webhook, the durable registry of completions, the post-call  *)
(* turn, the one correction of a missing SMS, the guard that the tool      *)
(* process takes before it sends (hosted_sms_guard.py), the recovery at    *)
(* start-up, redelivered webhooks, stops and crashes.                      *)
(*                                                                         *)
(* An action is the code from one await to the next, or one call of the    *)
(* tool process.  The calls share one contact, hence one conversation,     *)
(* whose worker runs one turn at a time.  A request to the provider may    *)
(* outlive the gateway that made it.  What a turn says and does other than *)
(* send an SMS is left out.                                                *)
(***************************************************************************)
EXTENDS Naturals, FiniteSets

CONSTANTS
  Calls,          \* ended calls of one contact
  SmsCalls,       \* those with an SMS commitment (_hosted_requires_sms)
  None,
  MaxDeliveries,  \* deliveries of call.ended events, a bound of the model
  MaxCrashes,     \* stops and crashes of the gateway, a bound of the model
  MaxSends        \* tool calls of one turn, a bound of the model

ASSUME HostedAssumption ==
  /\ SmsCalls \subseteq Calls /\ None \notin Calls
  /\ MaxDeliveries \in Nat /\ MaxCrashes \in Nat /\ MaxSends \in Nat

VARIABLES
  registry,   \* hosted_call_registry.json
  attempt,    \* the attempt files of hosted_sms_guard.py
  landed,     \* ghost: messages the provider accepted for each attempt
  sending,    \* attempts whose provider request is in flight
  phase,      \* how far the gateway's run() is
  owner,      \* _hosted_call_registry_owner: a new one for every process
  job,        \* the completion tasks of each call
  table,      \* _hosted_call_jobs: the task retained for each call
  active,     \* the conversation's turn
  context,    \* the turn context file the tool process reads
  deliveries, \* deliveries so far
  stops       \* stops and crashes so far

vars == <<registry, attempt, landed, sending, phase, owner, job, table, active,
          context, deliveries, stops>>

Attempts == {1, 2}
Kinds == {"full", "fix"}    \* _run_hosted_call_completion, ..._correction_recovery
Steps == {"none", "new", "gather", "ask1", "turn1", "ask2", "turn2", "askPlain", "plain"}
FileStates == {"none", "pending", "recoverable", "terminal", "success"}

Entry(s, retry, o) == [state |-> s, retryable |-> retry, owner |-> o]
NoEntry == Entry("none", TRUE, 0)
NoTurn == [call |-> None, kind |-> "none", attempt |-> 0, seen |-> "none", open |-> FALSE, sends |-> 0]

Serving == phase # "down"

\* A finished or interrupted task leaves the table if it is the one retained.
Discard(c, k) ==
  /\ job' = [job EXCEPT ![c][k] = "none"]
  /\ table' = IF table[c] = k THEN [table EXCEPT ![c] = "none"] ELSE table

Schedule(c, k) ==
  /\ job' = [job EXCEPT ![c][k] = "new"]
  /\ table' = [table EXCEPT ![c] = k]

Idle(c) == \A k \in Kinds : job[c][k] = "none"

\* Created tasks run their first step in order, before a network answer of the other.
Prompt(c) == \A k \in Kinds : job[c][k] # "new"

\* _write_hosted_call_registry: every write takes the entry for this process.
Write(c, s, retry) == registry' = [registry EXCEPT ![c] = Entry(s, retry, owner)]

\* Mutants: a failure for good is taken up again; only recorded failures are taken up.
ReplaysEveryFailure(e) == e.state \in {"queued", "running", "failed"}
ReplaysFailuresOnly(e) == e.state = "failed" /\ e.retryable
Replayable(e) == e.state \in {"queued", "running"} \/ (e.state = "failed" /\ e.retryable)

-----------------------------------------------------------------------------
(* The webhook.                                                            *)

CallEnded(c) ==
  /\ Serving
  /\ deliveries < MaxDeliveries
  /\ deliveries' = deliveries + 1
  /\ LET e == registry[c]
         deduped == \/ e.state = "completed"
                    \/ e.state = "failed" /\ ~e.retryable
                    \/ e.state \in {"queued", "running"} /\ e.owner = owner
     IN IF deduped
        THEN UNCHANGED <<registry, job, table>>
        ELSE /\ Write(c, "queued", TRUE)
             /\ Schedule(c, "full")
  /\ UNCHANGED <<attempt, landed, sending, phase, owner, active, context, stops>>

-----------------------------------------------------------------------------
(* The completion task.                                                    *)

\* Its first step records that it runs.
Begin(c, k) ==
  /\ job[c][k] = "new"
  /\ Write(c, "running", TRUE)
  /\ job' = [job EXCEPT ![c][k] = "gather"]
  /\ UNCHANGED <<attempt, landed, sending, phase, owner, table, active, context, deliveries, stops>>

\* _hosted_requires_sms: an open action item or the transcript promises an SMS.  What the
\* words say is an input.
RequiresSms(c) == c \in SmsCalls

\* What the task asks the conversation for: the correction of the SMS, the post-call turn
\* that owes an SMS, or one that does not.
Asked(c, k) == IF k = "fix" THEN "ask2" ELSE IF RequiresSms(c) THEN "ask1" ELSE "askPlain"

\* The contact, the memories and the transcript are read over the network.
Gathered(c, k) ==
  /\ job[c][k] = "gather" /\ Prompt(c)
  /\ phase # "listening"
  /\ job' = [job EXCEPT ![c][k] = Asked(c, k)]
  /\ UNCHANGED <<registry, attempt, landed, sending, phase, owner, table, active, context,
                 deliveries, stops>>

\* No transcript, or no sessions yet: the call may be taken up again.
GatherFails(c) ==
  /\ job[c]["full"] = "gather" /\ Prompt(c)
  /\ Write(c, "failed", TRUE)
  /\ Discard(c, "full")
  /\ UNCHANGED <<attempt, landed, sending, phase, owner, active, context, deliveries, stops>>

\* Nothing the correction could be built from: neither transcript nor action promises an SMS.
NoEvidence(c) ==
  /\ job[c]["fix"] = "gather" /\ Prompt(c)
  /\ Write(c, "failed", FALSE)
  /\ Discard(c, "fix")
  /\ UNCHANGED <<attempt, landed, sending, phase, owner, active, context, deliveries, stops>>

AttemptOf(step) == CASE step = "ask1" -> 1 [] step = "ask2" -> 2 [] OTHER -> 0

\* The conversation's worker takes the turn and writes its context file.
StartTurn(c, k) ==
  /\ active = NoTurn
  /\ job[c][k] \in {"ask1", "ask2", "askPlain"}
  /\ LET a == AttemptOf(job[c][k]) IN
     /\ active' = [NoTurn EXCEPT !.call = c, !.kind = k, !.attempt = a]
     /\ context' = IF a = 0 THEN context ELSE <<c, a>>
     /\ job' = [job EXCEPT ![c][k] = CASE a = 1 -> "turn1" [] a = 2 -> "turn2" [] OTHER -> "plain"]
  /\ UNCHANGED <<registry, attempt, landed, sending, phase, owner, table, deliveries, stops>>

\* _hosted_sms_settlement: the host's record of the calls, and the tool's receipt.
Settlement(seen, receipt) ==
  IF seen = "blocked" THEN "terminal"
  ELSE IF seen \notin {"none", "recoverable"} THEN seen
  ELSE IF receipt = "success" THEN "success"
  ELSE IF receipt \notin {"none", "recoverable"} THEN "terminal"
  ELSE seen

Retire ==
  /\ active' = NoTurn
  /\ context' = IF active.attempt = 0 THEN context ELSE None

\* The end of both kinds of task: completed, or failed for good.
Conclude(c, k, settlement) ==
  /\ IF settlement = "success" THEN Write(c, "completed", TRUE) ELSE Write(c, "failed", FALSE)
  /\ Discard(c, k)

\* The turn ends by itself; the task that awaits it goes on.
EndTurn ==
  /\ active.call \in Calls /\ ~active.open
  /\ LET c == active.call
         k == active.kind
         a == active.attempt
         s == IF a = 0 THEN "success" ELSE Settlement(active.seen, attempt[c][a])
     IN IF a = 1 /\ s \in {"none", "recoverable"}
        THEN /\ job' = [job EXCEPT ![c][k] = "ask2"]
             /\ UNCHANGED <<registry, table>>
        ELSE Conclude(c, k, s)
  /\ Retire
  /\ UNCHANGED <<attempt, landed, sending, phase, owner, deliveries, stops>>

\* The app-server dies or the turn is interrupted, perhaps under a tool call.  A plain
\* turn may be run again, one that may have sent an SMS may not.
FailTurn ==
  /\ active.call \in Calls
  /\ Write(active.call, "failed", active.attempt = 0)
  /\ Discard(active.call, active.kind)
  /\ Retire
  /\ UNCHANGED <<attempt, landed, sending, phase, owner, deliveries, stops>>

\* /stop or /clear of the contact drops a turn that waits: one that owed an SMS counts as
\* aborted, a plain one as done.
DropQueued(c, k) ==
  /\ phase \in {"ready", "recovered"}
  /\ job[c][k] \in {"ask1", "ask2", "askPlain"}
  /\ Conclude(c, k, IF job[c][k] = "askPlain" THEN "success" ELSE "aborted")
  /\ UNCHANGED <<attempt, landed, sending, phase, owner, active, context, deliveries, stops>>

\* A turn for a message of the contact.  It writes no context file and removes none: after
\* a crash its tool calls are taken for those of the turn whose file was left.
OrdinaryTurn ==
  /\ phase \in {"ready", "recovered"} /\ active = NoTurn
  /\ active' = [NoTurn EXCEPT !.kind = "ordinary"]
  /\ UNCHANGED <<registry, attempt, landed, sending, phase, owner, job, table, context,
                 deliveries, stops>>

OrdinaryEnds ==
  /\ active.kind = "ordinary"
  /\ active' = NoTurn
  /\ UNCHANGED <<registry, attempt, landed, sending, phase, owner, job, table, context,
                 deliveries, stops>>

-----------------------------------------------------------------------------
(* The tool process.                                                       *)

\* What the host notes of one more finished call of inkbox_send_sms.
Note(seen, outcome) ==
  IF outcome = "blocked" THEN (IF seen = "none" THEN "blocked" ELSE seen)
  ELSE IF seen \in {"none", "blocked"} THEN outcome ELSE "terminal"

\* Mutant: a reservation replaces the file instead of creating it.
ReservesAgain(c, a) ==
  /\ a = 1 => attempt[c][2] = "none"
  /\ a = 2 => attempt[c][1] \in {"none", "recoverable"}

\* reserve_hosted_sms_attempt, under the lock of the call.
MayReserve(c, a) ==
  /\ a = 1 => attempt[c][2] = "none"
  /\ a = 2 => attempt[c][1] \in {"none", "recoverable"}
  /\ attempt[c][a] = "none"

\* settle_hosted_sms_attempt: an accepted send is never overwritten.
Settle(c, a, s) ==
  attempt' = IF attempt[c][a] = "success" THEN attempt ELSE [attempt EXCEPT ![c][a] = s]

CallsTool ==
  /\ active # NoTurn /\ context # None
  /\ active.sends < MaxSends

\* inkbox_send_sms to the caller: reserved and sent, or blocked as a duplicate.
SendSms ==
  /\ CallsTool
  /\ LET c == context[1]
         a == context[2]
     IN IF MayReserve(c, a)
        THEN /\ attempt' = [attempt EXCEPT ![c][a] = "pending"]
             /\ sending' = sending \cup {context}
             /\ active' = [active EXCEPT !.open = TRUE, !.sends = @ + 1]
        ELSE /\ active' = [active EXCEPT !.seen = Note(@, "blocked"), !.sends = @ + 1]
             /\ UNCHANGED <<attempt, sending>>
  /\ UNCHANGED <<registry, landed, phase, owner, job, table, context, deliveries, stops>>

\* Mutant: the blocked send is reported as one that may be corrected.
ElsewhereIsCorrectable ==
  /\ CallsTool
  /\ Settle(context[1], context[2], "recoverable")
  /\ active' = [active EXCEPT !.seen = Note(@, "recoverable"), !.sends = @ + 1]
  /\ UNCHANGED <<registry, landed, sending, phase, owner, job, table, context, deliveries, stops>>

\* inkbox_send_sms to another number: blocked, and the attempt is closed.
SendElsewhere ==
  /\ CallsTool
  /\ Settle(context[1], context[2], "terminal")
  /\ active' = [active EXCEPT !.seen = Note(@, "terminal"), !.sends = @ + 1]
  /\ UNCHANGED <<registry, landed, sending, phase, owner, job, table, context, deliveries, stops>>

\* The provider accepts or refuses the message, or the outcome is in doubt.  The turn
\* that made the request may be gone.
SendEnds(c, a, outcome, arrives) ==
  /\ <<c, a>> \in sending
  /\ CASE outcome = "success" -> arrives
       [] outcome = "recoverable" -> ~arrives
       [] OTHER -> TRUE
  /\ sending' = sending \ {<<c, a>>}
  /\ landed' = IF arrives THEN [landed EXCEPT ![c][a] = @ + 1] ELSE landed
  /\ Settle(c, a, outcome)
  /\ active' = IF active.open /\ context = <<c, a>>
               THEN [active EXCEPT !.open = FALSE, !.seen = Note(@, outcome)]
               ELSE active
  /\ UNCHANGED <<registry, phase, owner, job, table, context, deliveries, stops>>

\* A tool process that lost its turn is killed before it can note the outcome.
ToolDies(c, a, arrives) ==
  /\ <<c, a>> \in sending
  /\ ~(active.open /\ context = <<c, a>>)
  /\ sending' = sending \ {<<c, a>>}
  /\ landed' = IF arrives THEN [landed EXCEPT ![c][a] = @ + 1] ELSE landed
  /\ UNCHANGED <<registry, attempt, phase, owner, job, table, active, context, deliveries, stops>>

-----------------------------------------------------------------------------
(* The gateway process.                                                    *)

\* run(): the HTTP server first, then the sessions, then the recovery.
Listen ==
  /\ phase = "down"
  /\ phase' = "listening"
  /\ owner' = owner + 1
  /\ UNCHANGED <<registry, attempt, landed, sending, job, table, active, context, deliveries, stops>>

OpenSessions ==
  /\ phase = "listening"
  /\ phase' = "ready"
  /\ UNCHANGED <<registry, attempt, landed, sending, owner, job, table, active, context,
                 deliveries, stops>>

\* _recover_hosted_call_completions, which never awaits: what it does with each entry.
Verdict(c) ==
  LET held == table[c] # "none" IN
  IF ~Replayable(registry[c]) THEN "skip"
  ELSE IF attempt[c][1] = "recoverable" /\ attempt[c][2] = "none" /\ ~held THEN "correct"
  ELSE IF attempt[c][1] # "none" \/ attempt[c][2] # "none" THEN "block"
  ELSE IF held THEN "skip" ELSE "requeue"

Recover ==
  /\ phase = "ready"
  /\ phase' = "recovered"
  /\ registry' = [c \in Calls |-> CASE Verdict(c) = "block" -> Entry("failed", FALSE, owner)
                                    [] Verdict(c) = "requeue" -> Entry("queued", TRUE, owner)
                                    [] OTHER -> registry[c]]
  /\ table' = [c \in Calls |-> CASE Verdict(c) = "correct" -> "fix"
                                 [] Verdict(c) = "requeue" -> "full"
                                 [] OTHER -> table[c]]
  /\ job' = [c \in Calls |-> CASE Verdict(c) = "correct" -> [job[c] EXCEPT !["fix"] = "new"]
                               [] Verdict(c) = "requeue" -> [job[c] EXCEPT !["full"] = "new"]
                               [] OTHER -> job[c]]
  /\ UNCHANGED <<attempt, landed, sending, owner, active, context, deliveries, stops>>

\* The process is gone: tasks and turn with it, the files stay.
Down ==
  /\ Serving
  /\ stops < MaxCrashes
  /\ stops' = stops + 1
  /\ phase' = "down"
  /\ job' = [c \in Calls |-> [k \in Kinds |-> "none"]]
  /\ table' = [c \in Calls |-> "none"]
  /\ active' = NoTurn
  /\ UNCHANGED <<attempt, landed, sending, owner, deliveries>>

Crash == Down /\ UNCHANGED <<registry, context>>

\* _cleanup cancels the tasks: one whose SMS turn began gives up for good, one that has
\* not run a step leaves no trace.
GivesUp(c) ==
  \/ job[c]["full"] \in {"ask1", "turn1", "ask2", "turn2"}
  \/ job[c]["fix"] \notin {"none", "new"}

Stop ==
  /\ Down
  /\ registry' = [c \in Calls |-> IF GivesUp(c) THEN Entry("failed", FALSE, owner) ELSE registry[c]]
  /\ context' = IF active.attempt = 0 THEN context ELSE None

-----------------------------------------------------------------------------
Init ==
  /\ registry = [c \in Calls |-> NoEntry]
  /\ attempt = [c \in Calls |-> [a \in Attempts |-> "none"]]
  /\ landed = [c \in Calls |-> [a \in Attempts |-> 0]]
  /\ sending = {}
  /\ phase = "down" /\ owner = 0
  /\ job = [c \in Calls |-> [k \in Kinds |-> "none"]]
  /\ table = [c \in Calls |-> "none"]
  /\ active = NoTurn /\ context = None
  /\ deliveries = 0
  /\ stops = 0

Gather(c, k) ==
  \/ Gathered(c, k)
  \/ k = "full" /\ GatherFails(c)
  \/ k = "fix" /\ NoEvidence(c)

Send(c, a) ==
  \E arrives \in BOOLEAN :
    \/ \E outcome \in {"success", "recoverable", "terminal"} : SendEnds(c, a, outcome, arrives)
    \/ ToolDies(c, a, arrives)

Next ==
  \/ \E c \in Calls : CallEnded(c)
  \/ \E c \in Calls, k \in Kinds : Begin(c, k) \/ Gather(c, k) \/ StartTurn(c, k)
                                       \/ DropQueued(c, k)
  \/ EndTurn \/ FailTurn \/ OrdinaryTurn \/ OrdinaryEnds
  \/ SendSms \/ SendElsewhere
  \/ \E c \in Calls, a \in Attempts : Send(c, a)
  \/ Listen \/ OpenSessions \/ Recover
  \/ Crash \/ Stop

Spec == Init /\ [][Next]_vars

\* The event loop runs what is ready, requests and turns end, and a gateway that stopped
\* is started again.  The conversation's queue is first in, first out, so that a turn that
\* waits for it is taken although other turns keep coming.
FairSpec ==
  /\ Spec
  /\ WF_vars(Listen) /\ WF_vars(OpenSessions) /\ WF_vars(Recover)
  /\ WF_vars(EndTurn \/ FailTurn \/ OrdinaryEnds)
  /\ \A c \in Calls : /\ \A k \in Kinds : /\ WF_vars(Begin(c, k)) /\ WF_vars(Gather(c, k))
                                           /\ SF_vars(StartTurn(c, k))
                      /\ \A a \in Attempts : WF_vars(Send(c, a))
-----------------------------------------------------------------------------
(* Properties.                                                             *)

\* Every variable has its type, a turn belongs to a task, and a request to a reservation.
TypeOK ==
  /\ registry \in [Calls -> [state : {"none", "queued", "running", "completed", "failed"},
                             retryable : BOOLEAN, owner : Nat]]
  /\ attempt \in [Calls -> [Attempts -> FileStates]]
  /\ landed \in [Calls -> [Attempts -> Nat]] /\ sending \subseteq Calls \X Attempts
  /\ phase \in {"down", "listening", "ready", "recovered"} /\ owner \in Nat
  /\ job \in [Calls -> [Kinds -> Steps]]
  /\ table \in [Calls -> Kinds \cup {"none"}]
  /\ active.call \in Calls \cup {None} /\ context \in (Calls \X Attempts) \cup {None}
  /\ deliveries \in 0 .. MaxDeliveries /\ stops \in 0 .. MaxCrashes

\* A contact gets at most one SMS for a call, whatever was redelivered, corrected, stopped
\* or crashed, and although a request may be answered after its turn and its gateway.
AtMostOneSms == \A c \in Calls : landed[c][1] + landed[c][2] <= 1

\* "completed" is only ever said of a call whose promised SMS the provider accepted.
CompletedWasSent ==
  \A c \in SmsCalls : registry[c].state = "completed" => \E a \in Attempts : landed[c][a] > 0

\* A file that allows the correction tells the truth: nothing of that attempt was accepted
\* and nothing is in flight that still could be.
CorrectionIsSafe ==
  \A c \in Calls : MayReserve(c, 2) => landed[c][1] = 0 /\ <<c, 1>> \notin sending

\* A post-call turn is not run again once an SMS of the call may have been sent.
NoReplayInDoubt ==
  [][\A c \in Calls :
       job[c]["full"] # "turn1" /\ job'[c]["full"] = "turn1"
         => attempt[c][1] = "none" /\ attempt[c][2] = "none"]_vars

Settled(c) ==
  /\ registry[c].state = "completed" \/ (registry[c].state = "failed" /\ ~registry[c].retryable)
  /\ Idle(c)

\* A call that is completed, or failed for good, and that no task works on is left alone
\* by redeliveries, restarts and the recovery.
SettledIsLeftAlone ==
  [][\A c \in Calls : Settled(c) => registry'[c] = registry[c] /\ Idle(c)']_vars

\* The registry's verdict on a call is true and final.
VerdictIsFinal == []CompletedWasSent /\ SettledIsLeftAlone

\* An ended call whose webhook was accepted is settled: completed or recorded as failed.
EventuallySettled ==
  \A c \in Calls : registry[c].state \in {"queued", "running"}
                    ~> registry[c].state \in {"completed", "failed"}
=============================================================================
