# A TLA+ model of the Inkbox Codex bridge

The bridge (`inkbox_codex/`) connects conversations on mail, SMS, iMessage,
Slack, WhatsApp and voice to Codex sessions.  A gateway process receives
webhooks, keeps durable receipts of what it admitted, runs Codex host processes
and sends their answers; a scheduler inside it executes saved jobs.  It is one
asyncio process with many tasks, several SQLite and JSON stores that survive it,
child processes that may outlive it, tool processes that send in its name, and
command-line tools that edit the same stores from other processes.

This directory holds the specifications, the configurations that check them with
TLC, and the proofs that TLAPS checks.

    tlc -workers 2 -config Companion.cfg MCCompanionInbox     # any run of section 3
    tlapm CompanionInboxProofs.tla                            # the theorems of section 4

## 1. The system's components

State, operations and what makes each hard.  "Model" says which module covers it.

| Component | State | Operations | Hard behaviour | Correct when | Model |
|---|---|---|---|---|---|
| Companion inbox `companion.py` | SQLite: events (receipts), activations, submitted sources, replies, host receipts, notices. Process: a task, a timer and a failure count per scope | accept a webhook, drain a scope (load, submit, settle, deliver), rescue, recover at start, the operator's `recover_receipt` | crash at any await; redelivered and late webhooks; a turn or send whose outcome is lost; revocation during preparation | no automatic repetition of a turn or send, in order, nothing stranded or silently dropped | `CompanionInbox`, `ReceiptLedger` |
| Schedule store `schedules.py` | SQLite: jobs, runs, settings row (on/off, heartbeat) | create, update, catch_up, delete, enqueue, recover, set_enabled (CLI and tools); materialize, claim, hosts, decide, finish, recover_interrupted (worker) | batches and two-transaction operations interleaved with edits; limits; late and missed occurrences; catch-up | one live run; each occurrence runs once, or is an accurate, catchable miss | `ScheduleStore`, `RunLedger` |
| Scheduler worker `scheduler.py` | the active execution, hosts not yet recorded; the store's runs and host columns; host processes | start, tick, fence orphans, execute, close | processes survive the gateway; writes fail between steps; cancellation at any await | one working host per job; no process forgotten; true outcomes | `Scheduler`, `RunLedger` |
| Contact sessions `sessions.py` | turn queue, worker, Codex client, pending question, escalation lock and generation | inbound message, submit_companion, consult, stop, reset, resume, close, approvals | interrupts that time out into the next turn; questions answered before display; queue dropped with awaits between | one turn at a time, every awaiter answered, an answer reaches only its own displayed question | `ContactSession`; threads in `ThreadedMessages`, rejected sends in `MessageWebhooks` |
| Codex client `codex_client.py` | RPC futures, early notifications, the running turn, the process | connect, run, interrupt, requests from the host, shutdown | late and early lines, a host that dies or garbles its output in a turn | every call ends; a result, question or interrupt belongs to its turn | `CodexClient` |
| Turn authority `turn_authority.py` | authority file per chat | new_host, begin, bind, retire, capture, validate | stale tool calls from a previous turn | a tool call acts only for the turn that made it | `CodexClient`, the gateway's side also in `ContactSession` |
| Hosted-call completion `gateway.py`, `hosted_sms_guard.py`, `delivery_policy.py` | JSON registry of ended calls, attempt files per call, tasks per call | call.ended webhook, post-call turn, SMS reserve/settle, correction, recovery | restart in the middle; duplicate webhooks; ambiguous SMS; a request that outlives its process | at most one accepted SMS per call, a correction only when nothing was sent, a true and final verdict for each call | `HostedCalls` |
| A2A tasks `gateway.py`, `a2a_*.py` | task registry, progress gate and fence files, jobs, cancelled messages | inbound task event, turn, progress, finish tools, cancellation, catch-up at start | progress racing the outcome from another process; restart while webhooks are served; jobs that wait for the same progress; four parties wait for one gate | no progress after the outcome; one job for a message; an answered message is not run again; everything ends | `A2ATasks` |
| iMessage receipts `imessage.py` | receipts, replies and delivery failures in one file; bursts in memory | admit, started, consumed, cancelled, sent, recover | restart between admission and answer; a tool that answers in place of the turn | no input lost or run twice, no answer sent twice, records that are true | `ThreadedMessages` |
| Gateway webhooks and failures `gateway.py` | in-flight and recent request ids, outbound failure counters | dedup begin/commit/rollback, route, note synchronous and asynchronous send failures | window pruned while handling; a budget shared by two reporters under different keys | each event handled once within its window; retries bounded, and not silenced early | `MessageWebhooks` |
| Realtime voice `realtime.py` | pending consults, responses awaited, hangup flags | function calls, consults, responses, hangup, expiry, end of the call | responses in another order than the tool results; several hangups; failed sends | an answer is given once and read out before the model hangs up; a hangup ends the call | `RealtimeBridge` |
| Tools and MCP server `tools.py`, `schedule_tools.py` | none of their own | guarded sends, A2A outcomes, schedule edits, plain SDK calls | other process than the gateway | see the state they touch | `HostedCalls`, `A2ATasks`, `ThreadedMessages`, `ScheduleStore` |
| Slack progress and turns `slack*.py` | cards, indicators, streams | update, finish, cleanup after restart | ordering of best-effort updates | an indicator ends with its turn | not modelled; a Slack message up to its turn in `CompanionInbox`, `MessageWebhooks` |
| WhatsApp `whatsapp*.py` | grants and snapshots | enrich, admit, tools | revocation | seen by `CompanionInbox` through its effect on receipts | not modelled by itself |
| Escalations, webhook providers, daemon, CLI, setup, configuration, prompts | little or none | parsing, formatting, interactive setup | - | - | not modelled: I/O and translation |

Interactions: a webhook enters the gateway, which admits it in a store
(companion, iMessage, A2A, hosted calls) or hands it to a contact session; the
companion task calls `submit_companion` of its session and gets callbacks just
before the host starts and just before a send; a message that answers a running
turn's question enters the session while the task awaits it.  A session's turn
runs in an app-server, whose tools are processes that read what the gateway
wrote (the authority file, the turn context, the SMS guard, the A2A gate) and act
later.  The scheduler's worker shares its store with the CLI, the agent's tools
and the executions it started.  Every module below says where it cuts these
interactions.

## 2. What is modelled

In every module an action is the code between two awaits, or one transaction or
one call of another process, so that TLC interleaves exactly where the event loop
and the operating system do.  Variables under "history" in a module are read by
properties and bounds only.  Definitions marked "mutant" or "slip" are wrong variants of the
operator beside them, kept to see that a property notices, and no part of the
specification.

### `ReceiptLedger` and `CompanionInbox`

`CompanionInbox` is one scope (conversation) of `companion.py`; scopes share only
the life of the process.  Its state is the database (`state` is `events.state`,
`activation` is `activations.state`, `submitted`, `reply`, `journal` are the other
tables), the memory of the process (`pc` and `cur` are the await at which
`_drain` stands and the receipt it works on), and history variables used by
properties and bounds only.  An action is the code between two awaits:

| Code | Action |
|---|---|
| `Receiver.accept`, `Inbox.accept` | `Admit`, `AdmitAnswer`, `AnswerSlowly` and `InteractionReturns` (the interaction awaits a send), `StopsPreparation` (a command that stops the turn while it is prepared), `Redeliver`, `RedeliverAnswer`, `RedeliverRevoked` |
| `_drain` loop | `Pick`; its exception handler is `Raise`, reached from any await by `Fault` |
| `process` | `Route` says where it goes up to the first await; `Enrich`, `Load`, `Fence`, `Repeat` are the awaits |
| `submit`, `before_submit`, `_settle_submission` | `BeforeSubmit`, `TurnEnds`, `SubmissionStopped` (the turn was stopped before its checkpoint) |
| `reply_sending`, `deliver_reply` | `SendStarts`, `SendEnds` |
| `rescue` | `RescueRecovers`, `RescueQuarantines` |
| process life | `Crash`, `Restart` (`Inbox.__init__` and `recover`), `Timer` |
| operator | `OperatorOpens`, `Retry`, `Retire` (`recover_receipt`) |

What a webhook carries (sequence, phase, activation, source message) is a
constant function of the receipt; which turn answers, and what a snapshot holds,
is a choice.  `ReceiptLedger` is what the inbox promises without its tables: an
attempt at a time, and an attempt whose outcome is unknown is repeated only by a
decision made while the gateway is stopped.  `KeepsLedger` is the refinement.

Left out: signature checks and parsing, the 8 MiB limit, the early return for a
disabled Slack channel, context and anchor text, and which process is reaped
(`TurnEnds` and `Fault` cover what `stop_slack` and the author checks do to a row).

### `RunLedger` and `ScheduleStore`

`ScheduleStore` is one job with its run rows and the settings row.  Every
transaction is `BEGIN IMMEDIATE`, so an action is a transaction: the helpers
(`Coalesce`, `MaterializeJob`, `Applied`, ...) map a record `db` to the record the
statements leave, in their order.  Operations that span several transactions are
several actions: `update` and `catch_up` in batches (`NextBatch`), `claim` as
`Materialize` then `Claim` with the time of the first.  Time is a counter; an
occurrence is the instant it is due; a run row also carries the set `due` of
instants it stands for, which the code does not have and the properties compare
with its count, first and last.  A cron expression is a set of instants, and has
no next one past the last, as in `next_cron`.

Left out: owner scoping, the thread and tool settings of a job, history pruning,
rows of releases without `current_due`, and several jobs in one store (they share
the settings row, the heartbeat and the worker, which `Scheduler` models with two
jobs).  `RecordHost` is taken only while a run is "starting".

### `Scheduler`

The worker's loop, the executing task and `_fence_orphans`, with the host
processes `procs` that survive the gateway.  `_execute` is one action per await or
write (`Spawn`, `Record`, `Connect`, `TurnEnds`, `Disconnect`, `Save`, `Finish`,
`Clear`); every write may fail (`Fault`); `Close` cancels the task at the await
where it stands; `Crash` may happen anywhere and leaves the processes alive or
not.  A stop of a process may be confirmed or not: an unconfirmed one leaves it
alive or dead.  A confirmed stop is more permissive than the code's, which
confirms only with evidence.  The store is reduced to `status` and `host`.

`Scheduler` and `ScheduleStore` implement `RunLedger`: a run that began never returns to the queue, an
outcome in doubt is resolved by an operator, one live run per job.

### `ContactSession`

One conversation of `sessions.py` that is direct and unthreaded (mail, SMS, plain
iMessage), with the app-servers it starts (`codex_client.py`) and the gateway's
side of `turn_authority.py`.  Three kinds of tasks meet in it, each modelled from
one await to the next:

| Code | State | Actions |
|---|---|---|
| the worker: `_drain`, `_run_turn`, `_ensure_client`, `_flush_context`, `_deliver_reply` | `worker` (the await it stands at, its turn and client), `current`, `turnActive` | `Takes`, `CannotWrite`, `Replaced`, `Connected`, `ConnectFails`, `Disposed`, `Flushed`, `FlushFails`, `Submit`, `Finishes`, `TurnTimesOut`, `Closed`, `Routes`, `Delivers`, `Excuses`, `Rests` |
| the handlers: `_handle_inbound`, `_answer_pending`, `_stop_turn`, `_reset_session`, `_abort_in_flight`, `_interrupt_client`, `run_consult`, `append_delivery_notice` | `handlers` (what each awaits and does next), `queue`, `interrupting` | `Message`, `Answer`, `AnswerTwice`, `Overrule`, `Background`, `Stop`, `Reset`, then `GoesOn`, `Aborts`, `InterruptTimesOut`, `Disconnected` |
| questions and picks: `_escalate`, `_wait_for_interaction`, `_begin_resume`, `_run_resume_pick` | `asks`, `pending`, `lock` | `Ask`, `Resume`, `Opens`, `Sent`, `Unanswered`, `AskReturns`, `PickReturns` |
| the app-server and the process: `_handle_response`, `_handle_notification`, `_fail_all`, `disconnect`; `SessionManager` | `hosts`, `client`, `connecting`, `capture`, `saved` | `Starts`, `Completes`, `Disconnects`, `HostExits`, `Crash` |

A thread is named by the app-server that began it; `resume` and `saved` are the
thread remembered in memory and on disk.  A question is "stale" when the
interaction generation it was asked in is over.  `source` is the turn whose record
in the authority file is live.  `stopped`, `doomed`, `left` and `unwritten` are
history.  Whether a reply is rejected, a start refused or a host dies is a choice.

Left out: bursts and stops of threaded iMessage (`ThreadedMessages`), group and
mention gates, the WhatsApp routing rules, `submit_companion` (its outcomes are choices
in `CompanionInbox`), `shutting_down` and `close_all`, session grants, typing and
progress, the reports, the order in which waiters get the interaction lock, and
timeouts configured as 0 (none).

### `CodexClient`

The wire between a session and its app-server, and the authority file that tool
processes read.  Lines of the app-server's output wait in `pipe`; the reader
handles one at a time.

| Code | State | Actions |
|---|---|---|
| the session's worker: `connect`, `run_detailed`, a client that is replaced | `worker`, `call` | `Launch`, `Reuse`, `Opens`, `Opened`, `ConnectFails`, `Injects`, `Injected`, `Submit`, `Resume`, `Collect`, `Discard`, `TurnOver` |
| `_reader_loop`, `_handle_response`, `_handle_notification`, `_handle_server_request` | `reader`, `reply`, `starting`, `bound`, `current`, `early`, `finished`, `got`, `result`, `ask` | `Read`, `ReaderFails`, `ReaderEnds`, `HandlerEnds`, `HumanAnswers` |
| `interrupt` | `stop` | `Stop`, `StopSends`, `StopEnds`, `StopResumes`, `StopTimesOut` |
| `disconnect`, `_fail_all` | `closing`, `proc` | `Close`, `FailWaiters`, `ProcessStops` |
| `turn_authority.py`: `new_host`, `begin`, `bind`, `retire`, `retire_host` in the gateway, `capture` and `validate` in the tool | `auth`, `tool` | within the worker's actions; `CallTool`, `Capture`, `Act` |
| the app-server (external): answers, streams and asks in its own order, starts work before it acknowledges, garbles its output, exits | `pipe`, `host` | `HostReplies`, `HostItem`, `HostAsks`, `HostResolves`, `HostEnds`, `HostExits` |

Left out: `recover_saved_answer`, `probe_codex`, thread parameters, the stderr
log, process groups, the text of items beyond their order.  The identity, base
URL and native nonce that `validate` compares are those of the one gateway.

### `HostedCalls`

What follows a call that the hosted voice service answered.  `registry`,
`attempt` and `context` are files; `job`, `table`, `active` belong to the process;
`sending` are provider requests, which may outlive both the turn and the gateway.

| Code | Actions |
|---|---|
| the call.ended webhook (`_on_hosted_call_ended`) | `CallEnded` |
| `_run_hosted_call_completion`, `_run_hosted_sms_correction_recovery` | `Begin`, `Gather`, `StartTurn`, `EndTurn`, `FailTurn`, `DropQueued` |
| `inkbox_send_sms` with `hosted_sms_guard.py` | `SendSms`, `SendElsewhere`, `Send` (the provider's answer, or the tool's death before it is noted) |
| `run`, `_recover_hosted_call_completions`, `_cleanup` | `Listen`, `OpenSessions`, `Recover`, `Stop`, `Crash` |
| another turn of the same contact | `OrdinaryTurn`, `OrdinaryEnds` |

`Settlement` and `Note` are the code's way to combine what the host saw with what
the tool's file says.  Whether the transcript promises an SMS is a constant of
the call (`SmsCalls`).  Left out: the contact card and memories of the prompt,
opening of action items, a write of the registry that fails, and the removal of old
entries from it.

### `A2ATasks`

One inbound task of the A2A service.  Two processes share the gate and the fence
file: the gateway (webhook handler, job of a message, its progress job,
cancellation, catch-up) and the tool that sends the outcome from inside the turn.

| Code | Actions |
|---|---|
| the caller and the service (external) | `CallerSends`, `CallerCancels`, `Redeliver`, `ArrivesLate` (an outcome whose sender gave up) |
| `_on_a2a_event` | `Deliver`, `Admit`, `AdmitFails`, `Acknowledge`, `AcknowledgeFails`, `ReceiptSent`, `CancelTask`, `CancelAgain`, `CancelEnds` |
| the job of a message | `BeginJob`, `GoOn` (after the progress job it stopped has ended), `ClearFence`, `JobAcknowledges`, ..., `TakeGate`, `CheckTask`, `CheckFails`, `AnswerSent`, `AnswerFails`, `JobCanceled`, `StopsOwnProgress`, `EndJob` |
| the turn and the tools `inkbox_a2a_complete`, `_fail`, `_ask_caller` | `StartTurn`, `EndTurn`, `FailTurn`, `CallTool`, `ToolSent`, `ToolFails` |
| the progress job (`a2a_progress.py`, `a2a_progress_gate.py`) | `Wake`, `EnterGate`, `ReadTask`, `Summarized`, `ReadAgain`, `ProgressSent`, `ProgressFails`, `ReadFails`, `Killed` |
| start, catch-up, shutdown | `Listen`, `OpenSessions`, `CatchUp` (the list is read), `CatchLook`, `CatchEntry`, `Discover`, `CatchFails`, `Close`, `CloseProgress`, `CloseJobs`, `Down`, `Crash` |

A job launches a progress job of its own; `owner` is the one the gateway knows of, and `saw`
the fence that a job found before it waited for the gate.  What the code does not guard
against is remembered in three history variables, which the properties exempt by name: `raced`
(the catch-up took up a message that was underway), `overtaken` (the fence of a message gave way
to an older one) and `orphaned` (the entry of a running progress job was overwritten).  Section 6
says how each comes about.

Left out: outbound delegation (`a2a_delegations.py`), the wording of progress.

### `ThreadedMessages`

One threaded iMessage conversation.  `rows`, `outbound` and `context` are on disk.
A run of the model has a number, which stands for the nonce in the context file,
for its answer, for the answer's idempotency key, and for the message it becomes.

| Code | Actions |
|---|---|
| webhooks with deduplication, `_on_imessage_received`, bursts | `Deliver`, `Expire`, `Ignore`, `Collect`, `HandlerFails`, `FlushBurst` |
| `/stop`, `/clear` | `StopArrives`, `ClearArrives`, `CommandGoesOn`, `CommandEnds` |
| the worker's turn with its receipts | `Take`, `PrepareFails`, `Start`, `Submit`, `TurnEnds`, `TurnFails`, `Unwind`, `WorkerSends`, `WorkerSent`, `WorkerSendFails` |
| the tool that answers in place of the turn | `ToolChecks`, `ToolSends`, `ToolRecords` |
| the server: accepted sends, failures reported later | `Land`, `FailDelivery`, `HandleFailure` |
| `close_all`, crash, `_recover_imessage_inputs` | `Close`, `Crash`, `OpenGateway`, `Recover`, `RecoverReply`, `RecoverySends`, `RecoverySent`, `RecoverySendFails`, `RecoverInputs` |

Left out: the turn state of WhatsApp, groups, media fetched after a burst, read
and typing marks, approvals inside a threaded turn.

### `MessageWebhooks`

The channels without durable receipts.  A webhook handler claims its names
(request and event) in the tables, looks things up, gives the event to the session
and commits (`Arrives`, `Admits`, `HandlerFails`); the session answers by a turn
(`TurnStarts`, `ToolSends`, `TurnEnds`) and a send (`Accepted`, `SendReturns`,
`SendRaises`); lifecycle webhooks report what became of it (`FailureReported`,
`DeliveryReported`).  `counter` is `_outbound_failure_state`: each reporter knows a
reply by some of the keys `conv`, `to`, `chat`, and `traffic` says which.  Time is
left to `WindowPasses` and `CountersExpire`.  Left out: signatures, payload
parsing, contacts and media, the call tunnel, subscriptions, the allowlist's policy, and the
cut of the recent request ids at 2000 entries (`gateway.py:1623-1626`): names are forgotten
by `WindowPasses` only.

### `RealtimeBridge`

One bridged call.  The pump reads the model's events (`Dispatch`, `Creates`,
`AudioDone`, `TranscriptDone`, `ResponseDone`); each call has a task
(`ConsultStarts` to `RequestsAnswer`, `HangUpStarts`, `HangUpConfirmed`,
`ActionStarts`, `Answers`); `Finish` is `_finish_pending_consult` and `Perform` and
`StopFrame` are the two halves of `_perform_deferred_hangup`.  The model's server is
external: one response at a time, requests in order, responses of its own (`Talks`,
`Refuses`).  `fate` records why a consult is pending no more.  Left out: audio
conversion, barge-in, the contents of post-call actions, the cascade of STT and TTS
that replaces the bridge, and the gateway's table of open calls.

## 3. What the runs check

Several properties are conjunctions of named parts, so that one run asks one question
of a component; the parts are in parentheses.

| Run | Instance and bounds | Shows |
|---|---|---|
| `Companion` | WhatsApp: four receipts of two grants, one of them a slash command, 1 fault, 1 crash, 1 preflight failure before "failed" | no answer is lost (`AnswerHeld`), no two effects at once (`SingleFlight`), what a revocation settled is never submitted (`RetiredStaysRetired`), only late arrivals are overtaken (`OvertakesOnlyLateArrivals`), and the refinement `KeepsLedger`; also `TypeOK` |
| `CompanionSlack` | an initialization, its trigger delivered live by an interaction that awaits a send, and a refused message behind them; 2 faults, 1 crash, 1 decision; fairness | `AtMostOnce`, `InputsAreAccountedFor` (`TriggerOnce`, `SettledIsAccountedFor`, `NoStrandedScope`), `EventuallySettled` |
| `Schedules` | interval job under pauses and catch-up, one-off or cron job whose schedule is edited; 4 instants, 3 rows, 2 commands, batches of 2 | `RunsAreTrue` (`OneLiveRun`, `RowsAreAccurate`, `StartedOnce`), `PausedIsNotReplayed`, `StartsInWindow` |
| `ScheduleLimits` | `end_at`, `max_runs`, decisions, scheduling on and off; grace 0 | `LimitsAreKept` (`MissedStaysCatchable`, `EnabledHasBudget`, `DecisionGates`), refinement `KeepsRunLedger` |
| `Worker` | 2 jobs, one with a retry; 2 failed writes, 1 stop; fairness | `HostsAreFenced` (`OneWorkingHost`, `HostsAreRecorded`), `StoreIsTrue` (`OutcomesAreTrue`, `UnrecordedBlocksItsJob`, refinement of `RunLedger`), `EventuallyEnded` |
| `Session` | nine sets of two or three inputs, one approval, 2 app-servers, 1 recovery turn, 1 crash, an unwritable context file; fairness | `HostsAreOwned` (`NoOrphanHost`, `LateStartupIsDisposed`), `OneConversation`, `OnlyLiveTurnsAct` (`SourceIsCurrent`, `StoppedTurnsAreSilent`, `AnswersGoToLiveTurns`), `EveryTurnSettles` |
| `Hosted` | two calls of a contact, one of which promised an SMS; 2 deliveries, 2 stops or crashes, 2 sends of a turn; fairness | `AtMostOneSms`, `CorrectionIsSafe`, `VerdictIsFinal` (`CompletedWasSent`, `SettledIsLeftAlone`), `EventuallySettled` |
| `A2A` | a message and its follow-up; 1 fault of any kind with webhooks after the catch-up, or a cancellation before the start with webhooks during it; fairness | `MessagesAreServedOnce` (`OneJobPerMessage`, `NoProgressAfterOutcome`), `AnswersAreFinal` (`FencedIsNotRerun`, `AnsweredIsNotRerun`), `EverythingEnds` |
| `Threads` | two messages and a `/stop`, or a message and a `/clear`; 2 deliveries of an input, 3 turns, 2 faults; webhooks after recovery | `RunOnce`, `AnswersAreRecorded` (`AnsweredOnce`, `RecordIsTrue`, `FailureSticks`), `ReceiptsAreKept` (`NoOrphan`, `BatchTogether`), `StoppedStaysStopped` |
| `Client` | two turns and their tools; five pairs of: a question, a tool, a Stop, a `/clear`, a rejected request, a dying app-server; 2 app-servers | `TurnsAreServed` (`AnswerIsWhole`, `QuestionsOfLiveTurns`, `DeadReaderRejects`), `StopHitsItsTurns`, `ToolsActForTheirTurn` |
| `Messages` | six kinds of traffic: deduplication, and budgets whose reporters name a reply by different keys; 7 webhooks, up to 3 messages, 3 attempts, 1 window, 1 fault | `HandledOnce`, `BudgetIsShared`, `CountsAreFresh` |
| `Realtime` | five scenes: two consults and a hangup, a response of the server's own, a failed send, a third hangup, an action | `AnswersAreHeard` (`AnsweredOnce`, `AnswersBeforeStop`), `HangupEndsTheCall` |

Every module has a type invariant `TypeOK` (`WebhooksTypeOK` and `BridgeTypeOK` in
`MessageWebhooks` and `RealtimeBridge`, whose proofs share a module with others).  Only the `Companion` run lists it; in the
other modules it documents the variables, and `INVARIANT TypeOK` can be added to any
cfg.

### Bounds

`MaxFaults`, `MaxCrashes`, `MaxDecisions`, `MaxStops`, `MaxCalls`, `MaxTime`,
`MaxRows`, `MaxDeliveries`, `MaxRuns`, `MaxWindows`, `MaxHosts`, `MaxItems` and
`MaxSends` bound the environment, not the program.

- Companion: a fault, a crash and a decision suffice for every pair of "something
  went wrong" and "what the code does next", and two faults let the recovery of the
  first fail.  Three receipts give one older and one newer neighbour to the one in
  trouble; the WhatsApp run needs a fourth for two grants.  `MaxAttempts = 1` (5 in the
  code) only shortens the way to "failed".
- Schedules: three rows let a miss, its catch-up and a fresh occurrence coexist, or an
  execution, its retry and a miss; the refused fourth row would be one more miss.
  `Batch = 2` makes a backlog of three take two transactions.  `menu` is the set of
  settings the operators of one behaviour change: it is chosen initially and rigid, so
  that TLC explores one family of edits at a time.
- Sessions: `Scenarios` are the sets of inputs of which one arrives, in any order: each
  puts a command or a newer input next to the turns it interrupts; two app-servers
  allow one replacement, and with none left a start fails.  `MaxRecoveries` stands for
  the gateway's shared budget, which `MessageWebhooks` models.
- Scenes (`CodexClient`, `RealtimeBridge`), traffic (`MessageWebhooks`) and scripts
  (`ThreadedMessages`) are what may happen in one behaviour, chosen initially: they pair
  the hazards that meet in one handler, so that each instance stays small.
- Hosted calls: two deliveries are one redelivery of a call, or one of each of two calls; two stops
  let the recovery of the first be cut by the second; two sends of a turn are the
  duplicate the guard must block.
- A2A: one fault shows each failure against everything else.  `early`, rigid and chosen
  initially, says whether webhooks arrive while the gateway starts, which the code allows.  With
  them the action constraint `EarlyIsBounded` of the run leaves out other faults than a
  cancellation before the start (enough for a catch-up that starts a job between two rounds of
  the cancellation), and ends a behaviour at the step in which the catch-up takes up a message that is
  underway: what two jobs of a message do afterwards is in section 6.  An instance of three messages,
  no fault and webhooks after the catch-up (1.1 million states) is too slow beside the others;
  `MessagesAreServedOnce` holds in it, and in it jobs wait for the same progress and a fence gives way
  while a job waits for the gate.  The proofs have none of these bounds (section 4).
- Realtime: two consults are the least for which responses can be mixed up, three
  hangups the least of which one comes while another is performed.

`EarlyWebhooks = FALSE` in `Threads` keeps webhooks out until the recovery of a start has taken
its list.  The code does not enforce it: section 6 says what happens otherwise, and the constant
is there to show it.

### Fairness

- `CompanionInbox!Fairness`: the event loop runs a ready task, a timer fires, host turns
  and sends end because the code gives them timeouts, an interaction returns, and the
  service manager restarts a stopped gateway.
- `Scheduler!FairSpec`: the loop sleeps a second between ticks and never ends, an
  execution's awaits have timeouts, and the gateway is started again.
- `ContactSession!Fairness`: the worker, the handlers, the questions and a closed
  client's waiters proceed, and the turn timeout fires; a host is taken to answer thread
  and context requests, for which the code has no timeout.
- `HostedCalls!FairSpec`: start-up, tasks, turns and provider requests end.  Taking a
  turn from the conversation's queue is strongly fair: the queue is first in, first out, so other
  turns do not keep it waiting for ever.
- `A2ATasks!FairSpec`: webhook handlers, jobs, turns and progress proceed.  Taking the
  gate is strongly fair: whoever waits for it tries every 50 ms, and progress leaves it
  free for seconds between two texts.
- `RealtimeBridge!BridgeSpec`: tasks, timers and the teardown of the bridge are not all idle for
  ever; neither the model's server nor the caller need do anything.

No fairness is assumed of webhooks, operators, callers, tools, faults or crashes.
`CodexClient`, `ThreadedMessages` and `MessageWebhooks` are checked for safety only.

### Deadlock

The deadlock check is off in `Hosted`, `A2A`, `Threads`, `Client`, `Messages` and
`Realtime`, whose system really comes to rest: all events of the instance were
delivered and answered, and the program waits for the next one.  That nobody is left
waiting there is stated instead (`EventuallySettled`, `EverythingEnds`, `NoOrphan`,
`DeadReaderRejects`, `HangupEndsTheCall`).

## 4. What is proved

Each theorem holds for every value of the constants that satisfies the module's
assumption.

### `CompanionInboxProofs`

For any number of receipts, grants, faults, crashes and decisions, with distinct
sequence numbers in a scope and consistent phases and activations:

- `Invariant`: `IInv` is an invariant of `Spec`;
- `TypeCorrect`, `NeverRepeated` (`AtMostOnce`), `AnswersAreHeld` (`AnswerHeld`),
  `OneEffectAtATime` (`SingleFlight`), `RevocationIsFinal` (`RetiredStaysRetired`);
- `Accounts`: `AccountInv` is an invariant too, and from it `InputsAreKept`
  (`InputsAreAccountedFor`) and `LateArrivalsOnly` (`OvertakesOnlyLateArrivals`);
- `OnlySlowAnswersBreakTheLedger`: every step is a step of `ReceiptLedger` or a stutter, except
  the return of an interaction that awaited a send and what the task does with a receipt
  that such an interaction settled; hence `LedgerIsKept` (`KeepsLedger`) when
  `SlowAnswers = {}`.

`AtMostOnce` speaks of history counters and is not inductive.  The strengthening
ties each counter to the rows: `TurnsInv` says which states of a row exclude that
its input was ever submitted and `SendsInv` the same for its answers; they need
`RowInv` (what a row's state says about replies and sources), `StageInv` (which
state the row of `cur` has at each await of the task), `JobInv` (the prepared job
belongs to `cur`), `RetiredInv` and `SingleFlight`.  The proof has a lemma for each
action (`AdmitStep`, `TurnEndsStep`, ...) over shared lemmas on what the common
operators `GoOn`, `Settle` and `Inserted` do, and ends with `InitHolds`, `NextStep`
and PTL.

`InputsAreAccountedFor` needs more than the rows.  That a trigger runs once is known from
the row of its activation, so `TriggerInv` says that the task prepares a snapshot only of an
activation without a row, and `SnapshotInv` that a snapshot under way, or in the
journal for the rescue, holds the trigger whose source settles the receipt.  The premise
"no operator decided" is the code's: a decision may delete the row (section 6).
`LateInv` is the order: what is older than the receipt under way and unfinished came after
`Pick` chose it.  It rests on a lemma about `Head`: a finite set of receipts has one of
least sequence, by well-founded induction on the sequence numbers.

The refinement was expected to hold without a premise.  The attempt to prove it
found the step that breaks it: a message consumed as the answer to a question while its own
task prepares it (section 6).  The hypothesis of `LedgerIsKept` is that no interaction
awaits a send, which is so for text answers; the `Companion` run checks `KeepsLedger` in such an
instance, and `OnlySlowAnswersBreakTheLedger` says that nothing else breaks it.

### `ContactSessionProofs`

For any set of inputs of a conversation, any number of questions, app-servers and crashes,
however late a host answers:

- `Invariance` (`IInv`), `Typing` (`TypeOK`);
- `HostsStayOwned` (`HostsAreOwned`): every process that runs is the client, is being
  started, or is being closed by someone; what starts after its session was closed is disposed of;
- `ConversationIsNotForked` (`OneConversation`), when there is no `/clear` and no `/resume`:
  every app-server that is, was or will be continues the same thread;
- `OnlyTheLiveTurnActs` (`OnlyLiveTurnsAct`): tools act for the turn that runs, a turn that was
  stopped does not reply, a question is displayed only for the turn that runs and is not being
  interrupted, and an answer reaches only such a turn, unless it was told to stop.

The three kinds of tasks meet in a few variables, and `IInv` says what each may
rely on when it is resumed: `WorkerInv` (which await of the worker goes with which turn and
flags), `ClientInv` (there is no client while the worker starts or closes one; a host being
closed stays so), `QueueInv` and `ArrivalInv` (a turn waits once; what has not arrived
is in no queue and no handler), `BegunInv` and `StoppedInv` (a turn that was stopped had
begun, and while it is current the interrupting flag stands), `AskInv` (the displayed question
holds the lock, and is of the running turn, which was not told to stop).  `StoppedTurnsAreSilent` is not
inductive without `StoppedInv`, because the flag that silences a turn belongs to the
session and is reset by the next turn: the invariant has to know that the next turn was not yet begun
when the flag was set.  `AnswersGoToLiveTurns` needs `AskInv`, for a question goes through the lock
and two awaits before its answer is accepted.

`OneConversation` needs its hypothesis: when a `/clear` waits for the end of its client while the
next turn connects, and the gateway then crashes, a `/resume` of the first thread leaves no
trace of the second (the same await as in `ClearedStaysForgotten`, section 6).  The `Session`
run checks it in scenes with one such command.  `ThreadInv` says that without them the remembered thread is the
same in memory and on disk, and that a process which starts was asked for it.

### `A2ATasksProofs`

For any number of messages, faults, redeliveries, cancellations and stops, with webhooks at
any time:

- `Invariance` (`IInv`, `NotLaunched`), `Typing` (`TypeOK`), `ProgressIsFenced`
  (`ProgressKeepsToTheFence`): whoever is about to post progress saw no fence under the gate, and
  none was written since;
- `ServeInvariance` (`ServeInv`), and from it `MessagesHaveOneJob` (`OneJobPerMessage`) and
  `FencedStaysAnswered` (`FencedIsNotRerun`): the catch-up is the only way to a second job or turn;
- `AnswerInvariance` (`AnswerInv`), and from it `AnswersEndTheMessage` (`MessagesAreServedOnce`)
  and `AnsweredStaysAnswered` (`AnsweredIsNotRerun`): besides that, only a fence that gave way to an
  older message lets an answered message run again, and only that or a progress job that was
  forgotten lets a text follow the outcome; `AnswersStayFinal` (`AnswersAreFinal`) is both action
  properties, as the run checks them.

No theorem assumes anything of the environment: the steps that the code does not guard against are in
the behaviours, and the history variables name the messages they happened to.  So the theorems
say which steps these are, and that there are no others.

`GateOK` is mutual exclusion between three parties of two processes; a progress job that the
gateway forgot still counts among them.  `ServeInv` is what one job for a message needs, for every message
not in `raced`: a job that has not asked yet is alone with its message, for which no outcome was
sent (`Fresh`); a turn that waits is the only one of its message (`Waiting`); an event that will
start a job is the first of its message, whatever was awaited since it was
admitted (`FirstOfItsMessage`); and for all messages, whatever is under way is registered
(`Registered`), so that a redelivery is seen to be one.  A step is sorted by what it does to one
message (`Kinds`): it leaves it alone, enters an event, tracks a job, asks for a turn, begins one,
writes the fence or ends the process.  `TakenUpAlone` is the step of the catch-up: its message is
idle, or is in `raced` afterwards.

`AnswerInv` speaks of the messages an outcome was accepted for, is in flight or may arrive late
for (`Tried`).  Such a message has the fence, or a later message was sent, so that
a webhook or an entry of it is stale; and no job or turn that waits, and no event that will start a
job (`Ahead`), is about one (`Untried`), unless it is in `raced` or `overtaken`.  Progress that finds
no fence is not about it either (`ProgressIsUntried`): the progress job of an answered message is
stopped before its fence is cleared, if the gateway knows of it (`ProgressIsKnown`).  `SentByCaller`
says that a message the gateway knows of was sent.

### `CallProofs`

A call has two ends in the gateway: the bridge while it lasts (`RealtimeBridge`) and the turn
after it (`HostedCalls`).

`HostedCalls`, for any number of calls, deliveries, tool calls, stops and crashes:

- `OneSmsPerCall` (`AtMostOneSms`): the contact gets at most one SMS for a call;
- `CorrectionsAreSafe` (`CorrectionIsSafe`): when the guard would let the correction
  pass, nothing of the first attempt was accepted or is in flight.

That at most one message landed is not inductive: a request may be answered after its
turn and its gateway are gone.  `IInv` follows the request instead: it is
`Out` while it is in flight or once it was accepted; an attempt without a file has none
and a file has one at most (`OneRequest`), a first attempt that is out does not say
"recoverable" (`FirstIsClosed`), so the second is never out beside it (`NotBoth`).  The
registry, the tasks and the turn are not part of it: the guard
alone gives the bound, whatever the gateway replays.

- `Typing` (`TypeOK`) and `VerdictsAreFinal` (`VerdictIsFinal`): a promised SMS is only recorded as
  sent when the provider accepted it, and a call that is settled and at rest is left alone by
  repeated webhooks, restarts and the tasks of other calls.

Here the registry and the tasks do matter.  `VInv` ties them together: the turn is the one its
task waits for and is announced in the context file (`TurnOfTask`); a task at work is known to
the registry, so that a repeated `call.ended` does not start another
(`FullIsKnown`), and a correction runs only after the recovery (`FixIsRecovery`); only a call that
owes no SMS ends without one (`PlainOwesNone`); what the host noted or wrote as accepted was accepted
(`SuccessIsTrue`); a gateway that is down has no tasks (`Asleep`).

`RealtimeBridge`, for any scenes, any number of tool calls and any responses of the model:

- `BridgeInvariant` (`BridgeInv`) and `BridgeTyping` (`BridgeTypeOK`);
- `AnswersStayHeard` (`AnswersAreHeard`): a call is answered once, and a hangup that the
  model asked for waits for the consults called before it.

That the stop frame comes after the answers is decided two steps earlier, when the hangup
checks that no consult is pending; what is pending may not be forgotten in between, nor before.
`FateInv` says that a consult is pending from its dispatch until it is known what became of it
(`ConsultInv` ties the stages of its task to its entry), and `HangInv` that from the check on the earlier
consults are settled and stay so.  The queue of consults that await a response holds each of
them once and only pending ones (`QueueOnce`): the head is therefore the consult a response belongs to, and
removing a consult that ends removes all of it.  A call has one result because only the
stages before it submit one (`ResultInv`).  `late` is the exemption of section 6.

### `GatewayProofs`

Two components of the gateway's process: what its webhooks share, and its client of the
app-server.

`MessageWebhooks`, for any traffic and any number of webhooks, messages, turns, windows and faults:

- `WakesAreBounded` (`BudgetIsShared`): since the last reset, rejections and failure
  webhooks together woke the agent fewer than `MaxAttempts` times;
- `EventsAreHandledOnce` (`HandledOnce`): an event reaches a session once, and again only
  for a window, a restart or a failed handler that removed its name;
- `CountersAreFresh` (`CountsAreFresh`): where resets know all the keys that failures do, no
  counter holds failures from before the last one.

`BudgetInv` says that one counter, known to every reporter of the reply and not expired, is at
least the number of wakes (`SharedCounts`).  It needs the assumption that there is such a key: each
traffic has a key of the session's by which every failure and receipt knows the reply too.  Without
it two reporters would keep separate counts, and the bound would be a multiple.

`HandledOnce` counts the webhooks that gave the event to a session, and a handler that awaits
has not yet: `DInv` counts those under way too, and says that all of them are
accounted for by the name in a table, or by what may have removed it.  `FInv` adds
to the counters that one above zero is under a key a reset clears.

`CodexClient`, for any number of turns, items, tools, Stops and app-servers:

- `ClientInvariant` (`ClientInv`) and `TurnsStayServed` (`TurnsAreServed`): an answer is the whole of
  what the app-server sent for its turn, a question is open only while somebody waits for the turn,
  and nobody waits for a reader that is done;
- `StopsHitTheirTurns` (`StopHitsItsTurns`): an interrupt reaches a turn that was found under way;
- `ToolsStayWithTheirTurn` (`ToolsActForTheirTurn`): a tool acts only for the turn the gateway runs.

The first needs to know what is in the pipe between the two processes.  `NumberedInv` says that the lines of
a turn that is served are there whole and in order: an increasing function from
the numbers still to come to positions hits exactly the lines of the turn, and the line at a number is
the item sent under it.  What was captured, and what waits for the acknowledgement of
a turn that is not bound yet, are the numbers before.  The end is the last
number, so when it is delivered everything else was.  Each move of the pipe (a line is appended, read, lost
with the process) shifts the function, which lemmas of their own show.  `AskInv` (an open question is of a turn
without a result that is waited for) and `LineInv` (what a line may still say of a turn) give
`QuestionsOfLiveTurns`; `DrainInv` says that whoever waits when the reader has stopped is among those it is about
to fail, or came too late.  `StopInv` keeps the turns a Stop found apart from those that came since.  `AuthInv`
and `ToolInv` tie the authority file to the turn the worker is at, and what a
tool captured to its own turn: between the two a turn may end and the next begin, and then the source
is not the one captured.

### `ScheduleStoreProofs`

For any schedules, limits, settings, bounds, and order of edits, batches, claims, decisions,
outcomes and recoveries:

- `LimitsStayKept` (`LimitsAreKept`): an enabled job may really start another execution
  (its count is that of the started rows, and below the limit), a job that requires decisions is
  enabled only with a license, and no miss is left with a cancelled run;
- `RowsStaySingle`: a job has one live run, so `one_live_run` never refuses a row
  (`OneLiveRun`, a part of `RunsAreTrue`);
- `LedgerIsKept` (`KeepsRunLedger`): every transaction is a step of `RunLedger` or a stutter.

A transaction is a chain of operators on the record of a job and its rows.  `Follows` is
what all of them but claims, outcomes and recoveries do: rows stay `Sane` (well shaped, one live,
queued ones not started and waiting for nobody, misses not waiting for a cancelled one), they are
only appended, missed or cancelled, and the job may be stopped but not enabled.  It is
transitive, so the lemma of each operator (`Stops`, `Coalesces`, `CollectsAll`, `Materializes`,
`GoesSafely`, ...) is cited by those that call it, whatever dates and counts are written.  Within
`Dequeued` the rows are not sane: a run was cancelled and its misses are still linked to it, which
`LinkedBut` allows for; that `Cancel` ends the transaction is what `MissedStaysCatchable` rests on.
`IInv` adds the budget, the gate and that a call between two batches holds a valid edit.

With the occurrences the rows stand for, and `[]Promptly`:

- `OccurrencesStartOnce` (`StartedOnce`, a part of `RunsAreTrue`): an occurrence starts once, but for
  a retry that an operator acknowledged;
- `PausesAreNotReplayed` (`PausedIsNotReplayed`): what came while the job was paused is in no
  execution.

`Promptly` says that an update which may restart the timing (of the schedule, the switch or the
end) works with the present time.  The code gives it to an update of one batch; several
take time, and without it the first is false (section 6).  Catch-ups and other edits may straddle
occurrences.

That two started rows share no occurrence is decided when they are queued, or when a third gave
their occurrences up.  `Occurring` therefore speaks of every row that answers for its occurrences
(`Holds`): a miss does until the run that took it starts, a cancelled or retried row does not.
Two such rows share an occurrence only when one is queued and took the other (`Apart`), what is
retried is older than what is queued (`Latest`), and the occurrence a queued run was created for is
none of the misses it took (`Current`), so that restoring it when the catch-up is cancelled counts
nothing twice.  That a new row is apart from all others follows from the schedule: its next
occurrence is later than all that the rows stand for, and while the job is enabled than what was
paused (`Ahead`).  Each operator has a second lemma for this (`Adds`, `Gathers`, `CancelsTracked`,
`RetimesKept`, `RestoresTracked`, ...).

With the time at which a row may start, `[]AtOnce` and `[][SwitchesApart]_vars`:

- `StartsStayInWindow` (`StartsInWindow`): what the schedule queued starts within its grace, or
  while the worker is online.

`AtOnce` asks of every call what `Promptly` asks of some; `SwitchesApart` says that scheduling is not
switched on between the two transactions of a claim.  Both are needed (section 6).  The invariant
`Punctuality` says of a claim under way that all it may start is in its window at the claim's time
(`InWindow`), unless scheduling is off or the job stopped.  `Materialize` makes it so (`AgesOutTimely`
and what follows it), and what other transactions queue before the claim goes on is in its window
later still: `Timely` says that each row is as it was, or may start now, and a third chain of lemmas
goes through the operators (`CollectsTimely`, `RestoresTimely`, `AppliesTimely`, ...).  A job that is
enabled in between is no exception, because nothing waits for one that was stopped (`Idle`), except
where its cron expression ran out, and then it cannot be enabled without a new schedule.

### `SchedulerProofs`

For any jobs and runs, any pattern of failed writes, stops of the gateway and processes
that resist being stopped, when each run belongs to a job:

- `HostsStayFenced` (`HostsAreFenced`): a job has at most one process that was given work, and the
  store knows it;
- `StoreStaysTrue` (`StoreIsTrue`): recorded outcomes are true, and `Spec` implements
  `RunLedger`: every step of the worker maps to a step of the ledger (`LedgerMove`) or to a stutter.

That a job has one working process is not inductive: a step before it, a claim must
have seen no recorded process of the job, and nothing may have been recorded since.  `IInv` adds
to the types `StageInv` (the gateway has a task or a fence, never both, and a task only
once started), `PreparingInv` (until its prompt is submitted, the run being prepared is
"starting" and the store records no process of another run of its job), `EndingInv`
(what is about to be recorded is true, and the process is gone before its row is cleared),
`UnrecordedInv` (a process the store does not know was given no work) and `RunsInv`
(a job has one live run; a run that is not there was never submitted).

### `ThreadedMessagesProofs`

For any messages and commands, scripts, and numbers of webhooks, runs and faults, with
`~EarlyWebhooks`: webhooks are not served between the opening of the sessions and the point where
the recovery has taken its list.  The code does not enforce it, and without it the first
is false (section 6); the `Threads` run has the same value.

- `Invariance`: `IInv` is an invariant of `Spec`;
- `InputsRunOnce` (`RunOnce`), `AnswersStayRecorded` (`AnswersAreRecorded`),
  `ReceiptsStayKept` (`ReceiptsAreKept`);
- `StoppedStays` (`StoppedStaysStopped`), an action property.

An input runs once because it is in one place once: `PlacesInv` and `ApartInv` say so of the
burst, the queue, the recovery's list, the worker's batch and what a `/stop` took, and
`WaitInv` that whatever waits in one of them is pending.  `WorkerInv` says what the rows of the
worker's batch are at each of its awaits (`HeldRow`), and is what a tool or a command that
runs meanwhile may not disturb.  On disk, the rows of a batch are alike from its first mark on
(`Together`) and a run's answer is that of one batch (`OneReply`).  That an answer is sent once is not
inductive: `SendInv` ties the count of sends to the rows (an answer that is saved, or was
cancelled, was not sent), and `ToolInv` knows that the tool of a turn acts before its answer is
saved, or is refused by the context file.  `RecoveryInv` keeps the answers of the recovery apart from
that of the worker.  `StoppedStays` needs `DoomedInv`: what `/stop` found waiting is cancelled, or
is in its handler's hands, where the worker cannot reach it.

The batches that a mark changes are a set in the model, and the order of rows is that of
`admitted`; the lemmas `Marks`, `MarksTogether` and `MarksReplies` say what a mark does to
batches whose rows are alike, and `Ordered` what reading rows in order returns.

### What is only model-checked

- `RowsAreAccurate`, a part of `RunsAreTrue` of `ScheduleStore`: counts are sums over the misses
  that a run takes (induction over data).
- `OneConversation` of `ContactSession` where the human clears or resumes conversations.
- `EverythingEnds` and the other liveness properties, which are out of the prover's reach.

## 5. Not modelled

- Escalations and elicitations, webhook providers, prompts, configuration: pure
  parsing and formatting.  Whether a reply is accepted as the answer to a question is a
  choice in `ContactSession`.
- Daemon, CLI, setup, doctor: sequential and interactive, nothing interleaves.  The
  operator's recovery commands are actions of `CompanionInbox` and `ScheduleStore`.
- Slack cards, indicators and streams: best-effort updates whose loss is tolerated.  A
  Slack message is followed up to its turn.
- WhatsApp grants, snapshots and enrichment: payloads and API calls; their effect on
  receipts is in `CompanionInbox`.
- Most tools: one call in and one SDK call out.  Those that share state with the gateway
  are in the modules of that state.
- Outbound A2A delegation (`a2a_delegations.py`): a table of who is to be told of a
  result.  It does keep state across steps and is the next part to add.
- A session that shuts down alone: `close_all` is called only when the gateway stops.

`PROJECT.json` gives, for each component that is modelled in part, what is left out.

## 6. Where the code and its documentation disagree

Met while modelling.  Where a definition is named, TLC refutes it by adding it to the
run's cfg, with the change given; none of them is part of a passing run.

Sessions:

- `ClearedStaysForgotten` (`Session`): `/clear` awaits the end of the client between
  forgetting the thread and removing it from disk; the worker remembers it again
  meanwhile, and the next app-server continues the cleared conversation.
- `StopDropsQueued` (`Session`): `/stop` awaits the interrupt before it drains the queue; the
  worker takes a queued turn meanwhile, which runs to its end.
- `ResumeIsOffered` (`Session`, a `/stop` before the `/resume`): after a `/stop` and
  before the next turn, `/resume` lists nothing and reports that no pick was made.
- `WaitingTurnsAreLeftAlone` (`Session` with two questions and the inputs `m1`, `m2`, `m3` and
  `a1`): a message that overruled a turn is answered after the next turn began; a third message
  then interrupts that one while it waits for an approval.
- An A2A context file that cannot be written leaves its capture turn's waiter unsettled
  (`CannotWrite`, exempted in `EveryTurnSettles`).

Companion receipts:

- `recover_receipt(..., "retry")` on a later receipt of an interrupted initialization
  drops the activation without asking for the acknowledgement, and the trigger is
  submitted again; `TriggerOnce` holds only while no operator decides.
- The README says both that an ambiguous outcome pauses its scope and that later
  messages continue; the code continues.
- A redelivered live event that waits in the queue is offered to the running turn as an
  answer (`RedeliverAnswer`); the comment says only a newly admitted one can be.

- `NeverStranded` (`CompanionSlack`): an interaction that awaits a send settles the receipt which the
  task prepares; when that preparation fails, the task ends without a retry timer unless the
  channel is WhatsApp, and later receipts wait for the next webhook or start.
- On the other channels a message consumed as an answer while its task prepares it is
  submitted as well, and an interaction that returns after that marks a receipt under way, or one
  set aside, as done.  `KeepsLedger` is refuted on `CompanionSlack`.

- A `/stop`, `/reset` or `/resume` that arrives while an initialization is prepared ends the turn without its
  checkpoint, and `_settle_submission` still records every source of the snapshot as submitted.  The
  host saw none of them; the activation has no row, so the next live message loads the snapshot again.

Schedules:

- An edit made while scheduling is off queues an occurrence of the downtime, which then
  starts late although catch-up is off.  If scheduling is switched on between the two
  transactions of a claim, it starts however late: `StartsInWindow` is refuted with `Grace = 0`,
  `endAt` and `on` in one menu, and three commands.
- The last batch of an edit queues what was on time when the edit began, and a claim under way
  starts it: `StartsInWindow` is refuted with `Grace = 0`, a cron job of four instants, `Batch = 1`
  and one edit of `endAt`.
- `update()` reads the time once, before its batches.  When they straddle an occurrence, the schedule is
  timed again from the stale time, and that occurrence, already started, starts a second
  time: `StartedOnce` is refuted with four instants, a cron job, `Batch = 1`, `MaxRows = 4`
  and one call.
- A run whose outcome and whose doubt both fail to be written stays "running" until the
  gateway restarts (`EventuallyEnded` exempts two failed writes).

Hosted calls:

- `NoReplayInDoubt` (`Hosted`): the server answers before the recovery has run, and a
  redelivered call.ended starts the post-call turn of a call whose SMS is in doubt.  The
  guard still blocks its SMS (`AtMostOneSms`).
- A post-call turn that owes no SMS and is dropped by `/stop` or `/clear` is recorded as
  completed (`DropQueued`; `CompletedWasSent` speaks of calls with an SMS).

A2A tasks:

- With webhooks while the gateway starts, an event that awaits its acknowledgement is found by the
  catch-up, and both start a job.  Without the exemption of `raced` and without `EarlyIsBounded`,
  with `MaxFaults = 0`, TLC refutes `OneJobPerMessage`, and, already with one message,
  `FencedIsNotRerun`: the second job's turn runs after the first has fenced the message.
- The catch-up looks for jobs, not for turns: a turn that is still queued when a cancellation has
  drained its job is taken up again, and the model is asked twice (`raced`, too).
- The fence names one message, the job of an older one overwrites or clears it, and after a crash
  the newer, answered message runs again; its progress may then follow its first answer.
  Without the exemption of `overtaken`, `AnsweredIsNotRerun` and `NoProgressAfterOutcome`
  are refuted with two messages, `MaxFaults = 2` and webhooks after the catch-up.
- Two jobs that wait for the end of the same progress job both launch their own, and the gateway
  forgets the first (`orphaned`).  With three messages it does no harm; with four, its text follows an outcome whose fence a later message has cleared.
- A progress job may write "running" over the "finalized" of a turn that ended without
  an answer.

Threaded iMessage:

- `SavedBeforeAcknowledged` (`Threads`): a repeated webhook is answered 200 while the first
  one has not yet saved the input.
- With `EarlyWebhooks = TRUE`, `RunOnce` fails: an input admitted while the recovery goes
  through its list is in the list and in the queue.
- A gateway that stops while `/stop` awaits the host replays the messages it dropped
  (exempted from `StoppedStaysStopped`).

Codex client: a request made while the reader still awaits the server requests it
cancelled waits for a reader that reads nothing more (`late`, exempted from
`DeadReaderRejects`).

Gateway webhooks:

- Resets of the failure budget know fewer keys than failures do in a text without a
  known conversation, a group's receipt and a mail to several addresses; the next failure
  takes the counter that was left, and the thread goes quiet early.  `CountsAreFresh`
  without its premise `ResetsAreComplete` is refuted.
- A failure webhook is remembered before it is handled; one whose handler fails is lost
  for the deduplication window.

Realtime voice:

- A response of the server's own between a result and its response is taken for the
  consult's answer, and a deferred hangup drops the call before the answer is read (fate
  "mistaken", which `AnswersBeforeStop` counts as an answer).
- A consult that the model calls during the two seconds before the stop frame is cut off
  (`late`, exempted).

## 7. What is left

1. Models: outbound A2A delegation; the WhatsApp channel of `ThreadedMessages`; several
   jobs in one `ScheduleStore`.
2. Compositions: `MessageWebhooks` as the budget of `ContactSession`'s recovery turns,
   and `CodexClient` as its app-server, each behind an abstract specification.
