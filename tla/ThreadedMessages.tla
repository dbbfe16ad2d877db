--------------------------- MODULE ThreadedMessages ---------------------------
(***************************************************************************)
(* One conversation of threaded iMessage replies: the durable receipts of  *)
(* its inputs (imessage.py), the webhook handlers that admit them with the *)
(* gateway's deduplication, the burst that collects them, the worker that  *)
(* runs a batch as one turn, tool sends checked against the turn's context *)
(* file, the final answer, late delivery failures, /stop and /clear, and   *)
(* recovery after a restart (gateway.py, sessions.py, tools.py).           *)
(*                                                                         *)
(* An action is the code from one await to the next; the tool is another   *)
(* process, and what it reads may be stale when it acts.  A run of the     *)
(* model has a number, which stands for the nonce of its context, for its  *)
(* answer, the answer's idempotency key and the message sent with it.      *)
(***************************************************************************)
EXTENDS Naturals, Sequences, FiniteSets, SequencesExt

CONSTANTS
  Chats,            \* messages of the human
  Stops, Clears,    \* the commands /stop and /clear
  Scripts,          \* the sequences of inputs of which one is sent
  MaxDeliveries,    \* webhooks the server posts for an input
  MaxRuns,          \* runs of the model, a bound
  MaxFaults,        \* failures, repeated webhooks and stops of the gateway, a bound
  EarlyWebhooks     \* whether webhooks arrive between sessions and recovery

Inputs == Chats \cup Stops \cup Clears
Runs == 1 .. MaxRuns
Handlers == Inputs \X (1 .. MaxDeliveries)

ASSUME ThreadedAssumption ==
  /\ MaxDeliveries \in Nat /\ MaxRuns \in Nat /\ MaxFaults \in Nat
  /\ EarlyWebhooks \in BOOLEAN /\ Scripts \subseteq Seq(Inputs)
  /\ Chats \cap (Stops \cup Clears) = {} /\ Stops \cap Clears = {}

VARIABLES
  \* on disk
  rows,          \* the receipt of each input: state, the batch in its meta, its reply
  admitted,      \* inputs in the order of their rows
  outbound,      \* the route and status kept of an answer that was sent
  context,       \* the turn context file: nonce of the run, whether a tool said the answer
  \* in the gateway's memory
  gateway,       \* "up", "down", "opening" before recovery, "closing"
  seen,          \* the deduplication tables' view of an input
  handlers,      \* a webhook's handler: where it stands, the batches it drops
  burst, queue,  \* _imessage_burst and _queue, as inputs and batches of inputs
  worker,        \* the worker task: place, batch, run, what the turn gave
  interrupting,  \* _interrupting
  notified,      \* _notified_failures
  recovery,      \* _recover_imessage_inputs: place, replies and inputs to go
  \* the tool process and the server
  tool,          \* a send of the model: place and the run whose context it read
  todo,          \* the inputs that were not sent yet
  posted, acked, \* webhooks posted for an input, and whether one was answered 200
  wire, landed,  \* answers whose request was made, and those the server accepted
  callback,      \* the delivery failure of an answer: none, due, handled
  \* history
  runs,          \* runs begun
  ran,           \* times an input was submitted to the model
  sends,         \* times an answer's send was begun
  spoke,         \* runs whose answer a tool had sent and recorded
  doomed,        \* inputs that waited when /stop arrived
  reported,      \* answers whose delivery failure is on disk
  faults

disk == <<rows, admitted, outbound, context>>
memory == <<gateway, seen, handlers, burst, queue, worker, interrupting, notified, recovery>>
server == <<todo, posted, acked, wire, landed, callback>>
history == <<runs, ran, sends, spoke, doomed, reported, faults>>
vars == <<disk, memory, tool, server, history>>

Terminal == {"done", "cancelled"}
States == Terminal \cup {"none", "pending", "running", "reply_pending", "sending", "uncertain"}
NoRow == [state |-> "none", batch |-> <<>>, reply |-> 0]
NoContext == [nonce |-> 0, said |-> FALSE]
NoHandler == [at |-> "absent", drops |-> {}]
Idle == [at |-> "off", batch |-> <<>>, run |-> 0, gave |-> "none", dead |-> FALSE]
Looping == [Idle EXCEPT !.at = "loop"]
NoRecovery == [at |-> "off", replies |-> <<>>, inputs |-> <<>>]
NoTool == [at |-> "idle", run |-> 0]

Batches == BoundedSeq(Chats, 2 * Cardinality(Chats))

\* Types and ranges of the variables.
TypeOK ==
  /\ rows \in [Inputs -> [state : States, batch : Batches \cup {<<i>> : i \in Inputs},
                          reply : {0} \cup Runs]]
  /\ ToSet(admitted) \subseteq Inputs
  /\ outbound \in [Runs -> [known : BOOLEAN, status : {"none", "queued", "failed"}]]
  /\ context \in [nonce : {0} \cup Runs, said : BOOLEAN]
  /\ gateway \in {"up", "down", "opening", "closing"}
  /\ seen \in [Inputs -> {"no", "inflight", "recent"}]
  /\ \A h \in Handlers : handlers[h].at \in {"absent", "prepare", "interrupt", "reply"}
                         /\ handlers[h].drops \subseteq Batches
  /\ burst \in Batches /\ ToSet(queue) \subseteq Batches
  /\ worker \in [at : {"off", "loop", "prepare", "started", "running", "unwind", "preflight",
                       "sending"},
                 batch : Batches, run : {0} \cup Runs,
                 gave : {"none", "reply", "silent", "failed"}, dead : BOOLEAN]
  /\ interrupting \in BOOLEAN /\ notified \subseteq Runs
  /\ recovery.at \in {"off", "next", "preflight", "sending"}
  /\ ToSet(recovery.replies) \subseteq Batches /\ recovery.inputs \in Batches
  /\ tool \in [at : {"idle", "checked", "accepted"}, run : {0} \cup Runs]
  /\ todo \in Seq(Inputs)
  /\ posted \in [Inputs -> 0 .. MaxDeliveries] /\ acked \in [Inputs -> BOOLEAN]
  /\ wire \subseteq Runs /\ landed \subseteq Runs
  /\ callback \in [Runs -> {"none", "due", "handled"}]
  /\ runs \in 0 .. MaxRuns /\ ran \in [Inputs -> Nat] /\ sends \in [Runs -> Nat]
  /\ spoke \subseteq Runs /\ doomed \subseteq Chats /\ reported \subseteq Runs
  /\ faults \in 0 .. MaxFaults

Init ==
  /\ rows = [i \in Inputs |-> NoRow] /\ admitted = <<>>
  /\ outbound = [r \in Runs |-> [known |-> FALSE, status |-> "none"]] /\ context = NoContext
  /\ gateway = "up" /\ seen = [i \in Inputs |-> "no"]
  /\ handlers = [h \in Handlers |-> NoHandler]
  /\ burst = <<>> /\ queue = <<>> /\ worker = Idle /\ interrupting = FALSE
  /\ notified = {} /\ recovery = NoRecovery /\ tool = NoTool
  /\ todo \in Scripts /\ posted = [i \in Inputs |-> 0] /\ acked = [i \in Inputs |-> FALSE]
  /\ wire = {} /\ landed = {} /\ callback = [r \in Runs |-> "none"]
  /\ runs = 0 /\ ran = [i \in Inputs |-> 0] /\ sends = [r \in Runs |-> 0]
  /\ spoke = {} /\ doomed = {} /\ reported = {} /\ faults = 0

Fault == faults < MaxFaults /\ faults' = faults + 1

(***************************************************************************)
(* The receipts.                                                           *)
(***************************************************************************)
\* The state a mark gives a row: a saved answer whose send was not begun stays so.
Marked(row, state) ==
  IF state = "uncertain" /\ row.state = "reply_pending" THEN "reply_pending" ELSE state

\* The rows after a mark of some batches; finished rows and unknown inputs are passed over.
Mark(old, batches, state, reply) ==
  [i \in Inputs |->
     IF old[i].state \notin Terminal \cup {"none"} /\ \E b \in batches : i \in ToSet(b)
     THEN [state |-> Marked(old[i], state),
           batch |-> CHOOSE b \in batches : i \in ToSet(b),
           reply |-> IF reply = 0 THEN old[i].reply ELSE reply]
     ELSE old[i]]

Settle(batch, state) == rows' = Mark(rows, {batch}, state, 0)

ReplaysRunning ==
  [i \in Inputs |-> CASE rows[i].state = "running" -> [rows[i] EXCEPT !.state = "pending"]
                      [] rows[i].state = "sending" -> [rows[i] EXCEPT !.state = "uncertain"]
                      [] OTHER -> rows[i]]
ResendsAnswers ==
  [i \in Inputs |-> CASE rows[i].state = "running" -> [rows[i] EXCEPT !.state = "uncertain"]
                      [] rows[i].state = "sending" -> [rows[i] EXCEPT !.state = "reply_pending"]
                      [] OTHER -> rows[i]]
LeavesSending ==
  [i \in Inputs |-> IF rows[i].state = "running" THEN [rows[i] EXCEPT !.state = "uncertain"]
                    ELSE rows[i]]

\* What a restart makes of work that was interrupted.
Reopened ==
  [i \in Inputs |-> IF rows[i].state \in {"running", "sending"}
                    THEN [rows[i] EXCEPT !.state = "uncertain"] ELSE rows[i]]

\* Inputs in the order of their rows.
Before(i, j) == \E k, l \in DOMAIN admitted : k < l /\ admitted[k] = i /\ admitted[l] = j
InOrder(S) ==
  {s \in [1 .. Cardinality(S) -> S] :
     ToSet(s) = S /\ \A k, l \in DOMAIN s : k < l => Before(s[k], s[l])}

\* The rows whose saved answer is to be sent, one for each batch; every row of a batch names it.
Owners(table) ==
  {i \in Inputs :
     /\ table[i].state = "reply_pending"
     /\ ~ \E j \in Inputs : /\ table[j].state = "reply_pending" /\ Before(j, i)
                            /\ Head(table[j].batch) = Head(table[i].batch)}

\* record_outbound: the callback of a failure may have come first and keeps its status.
Recorded(r) ==
  [outbound EXCEPT ![r] = IF @.status = "none" THEN [known |-> TRUE, status |-> "queued"]
                          ELSE [@ EXCEPT !.known = TRUE]]

\* mark_delivery_failed.
FailureKept(r) == [outbound EXCEPT ![r].status = "failed"]

(***************************************************************************)
(* Webhooks.                                                               *)
(***************************************************************************)
Open == gateway \in {"up", "closing"} \/ (gateway = "opening" /\ EarlyWebhooks)

\* The server posts an input, again when no answer came or came too late.
Deliver(i) ==
  LET h == <<i, posted[i] + 1>> IN
  /\ Open /\ posted[i] < MaxDeliveries
  /\ IF posted[i] > 0 THEN Fault /\ UNCHANGED todo
     ELSE todo # <<>> /\ i = Head(todo) /\ todo' = Tail(todo) /\ UNCHANGED faults
  /\ posted' = [posted EXCEPT ![i] = @ + 1]
  /\ IF seen[i] = "no"
     THEN /\ seen' = [seen EXCEPT ![i] = "inflight"]
          /\ handlers' = [handlers EXCEPT ![h].at = "prepare"]
          /\ acked' = acked
     ELSE /\ acked' = [acked EXCEPT ![i] = TRUE]
          /\ UNCHANGED <<seen, handlers>>
  /\ UNCHANGED <<disk, gateway, burst, queue, worker, interrupting, notified, recovery, tool, wire,
                 landed, callback, runs, ran, sends, spoke, doomed, reported>>

\* The window of the deduplication passes, also for a webhook that is still being handled.
Expire(i) ==
  /\ gateway # "down" /\ seen[i] # "no" /\ posted[i] < MaxDeliveries
  /\ Fault /\ seen' = [seen EXCEPT ![i] = "no"]
  /\ UNCHANGED <<disk, gateway, handlers, burst, queue, worker, interrupting, notified, recovery, tool,
                 server, runs, ran, sends, spoke, doomed, reported>>

\* The handler returned: the webhook is answered and remembered.
Answered(h) ==
  /\ handlers' = [handlers EXCEPT ![h] = NoHandler]
  /\ seen' = [seen EXCEPT ![h[1]] = "recent"]
  /\ acked' = [acked EXCEPT ![h[1]] = TRUE]

\* The handler raised: the server sees an error and may post again.
Refused(h) ==
  /\ handlers' = [handlers EXCEPT ![h] = NoHandler]
  /\ seen' = [seen EXCEPT ![h[1]] = "no"]
  /\ acked' = acked

\* Media, the conversation or the receipt cannot be read or written.
HandlerFails(h) ==
  /\ handlers[h].at = "prepare" /\ Fault /\ Refused(h)
  /\ UNCHANGED <<disk, gateway, burst, queue, worker, interrupting, notified, recovery, tool, todo, posted,
                 wire, landed, callback, runs, ran, sends, spoke, doomed, reported>>

\* An input whose receipt exists is not handled again.
Ignore(h) ==
  /\ handlers[h].at = "prepare" /\ rows[h[1]].state # "none" /\ Answered(h)
  /\ UNCHANGED <<disk, gateway, burst, queue, worker, interrupting, notified, recovery, tool, todo, posted,
                 wire, landed, callback, history>>

Receipt(i, state) == [rows EXCEPT ![i] = [state |-> state, batch |-> <<i>>, reply |-> 0]]

\* A message joins the burst; its receipt is written first.
Collect(h) ==
  LET i == h[1] IN
  /\ handlers[h].at = "prepare" /\ i \in Chats /\ rows[i].state = "none"
  /\ rows' = Receipt(i, "pending") /\ admitted' = Append(admitted, i)
  /\ burst' = Append(burst, i) /\ Answered(h)
  /\ UNCHANGED <<outbound, context, gateway, queue, worker, interrupting, notified, recovery, tool,
                 todo, posted, wire, landed, callback, history>>

Current == worker.at \in {"prepare", "started", "running", "unwind"}
TurnActive == worker.at \in {"started", "running"}

\* What waits for the worker, as batches.
Waiting == IF burst = <<>> THEN queue ELSE Append(queue, burst)
InputsOf(batches) == UNION {ToSet(b) : b \in batches}

\* /stop takes what waits and interrupts the turn; what it took is marked after that.
StopArrives(h) ==
  LET i == h[1] IN
  /\ handlers[h].at = "prepare" /\ i \in Stops /\ rows[i].state = "none"
  /\ admitted' = Append(admitted, i)
  /\ burst' = <<>> /\ queue' = <<>>
  /\ interrupting' = (interrupting \/ Current)
  /\ doomed' = doomed \cup InputsOf(ToSet(Waiting))
  /\ IF TurnActive
     THEN /\ rows' = Receipt(i, "running")
          /\ handlers' = [handlers EXCEPT ![h] = [at |-> "interrupt", drops |-> ToSet(Waiting)]]
     ELSE /\ rows' = Mark(Receipt(i, "running"), ToSet(Waiting), "cancelled", 0)
          /\ handlers' = [handlers EXCEPT ![h].at = "reply"]
  /\ UNCHANGED <<outbound, context, gateway, seen, worker, notified, recovery, tool, server, runs, ran,
                 sends, spoke, reported, faults>>

\* /clear interrupts first; it drops what waits then, and closes the client.
ClearArrives(h) ==
  LET i == h[1] IN
  /\ handlers[h].at = "prepare" /\ i \in Clears /\ rows[i].state = "none"
  /\ admitted' = Append(admitted, i)
  /\ interrupting' = (interrupting \/ Current)
  /\ IF TurnActive
     THEN /\ rows' = Receipt(i, "running")
          /\ handlers' = [handlers EXCEPT ![h].at = "interrupt"]
          /\ UNCHANGED <<burst, queue, worker>>
     ELSE /\ rows' = Mark(Receipt(i, "running"), ToSet(Waiting), "cancelled", 0)
          /\ handlers' = [handlers EXCEPT ![h].at = "reply"]
          /\ burst' = <<>> /\ queue' = <<>>
          /\ worker' = [worker EXCEPT !.dead = worker.at = "prepare"]
  /\ UNCHANGED <<outbound, context, gateway, seen, notified, recovery, tool, server, runs, ran,
                 sends, spoke, doomed, reported, faults>>

WaitsNow(h) == ToSet(Waiting)

\* What a command drops: /stop took it when it arrived, /clear takes what waits now.
Dropped(h) == IF h[1] \in Stops THEN handlers[h].drops ELSE ToSet(Waiting)

\* The host confirmed the interrupt, or did not in time.
CommandGoesOn(h) ==
  /\ handlers[h].at = "interrupt"
  /\ rows' = Mark(rows, Dropped(h), "cancelled", 0)
  /\ handlers' = [handlers EXCEPT ![h] = [at |-> "reply", drops |-> {}]]
  /\ IF h[1] \in Stops THEN UNCHANGED <<burst, queue, worker>>
     ELSE /\ burst' = <<>> /\ queue' = <<>>
          /\ worker' = [worker EXCEPT !.dead = @ \/ worker.at \in {"prepare", "started", "running"}]
  /\ UNCHANGED <<admitted, outbound, context, gateway, seen, interrupting, notified, recovery, tool,
                 server, history>>

\* The command is confirmed to the human, or the confirmation raises.
CommandEnds(h) ==
  /\ handlers[h].at = "reply"
  /\ \/ Settle(<<h[1]>>, "done") /\ Answered(h) /\ UNCHANGED faults
     \/ Fault /\ Settle(<<h[1]>>, "uncertain") /\ Refused(h)
  /\ UNCHANGED <<admitted, outbound, context, gateway, burst, queue, worker, interrupting, notified,
                 recovery, tool, todo, posted, wire, landed, callback, runs, ran, sends, spoke, doomed,
                 reported>>

(***************************************************************************)
(* The worker.                                                             *)
(***************************************************************************)
Woken == IF worker.at = "off" THEN Looping ELSE worker

\* The quiet time or the deadline of the burst passes.
FlushBurst ==
  /\ gateway # "down" /\ burst # <<>>
  /\ queue' = Append(queue, burst) /\ burst' = <<>> /\ worker' = Woken
  /\ UNCHANGED <<disk, gateway, seen, handlers, interrupting, notified, recovery, tool, server, history>>

\* The worker takes the next batch, or ends.
Take ==
  /\ worker.at = "loop"
  /\ IF queue # <<>> /\ gateway # "closing"
     THEN /\ worker' = [Looping EXCEPT !.at = "prepare", !.batch = Head(queue)]
          /\ queue' = Tail(queue) /\ interrupting' = FALSE
     ELSE worker' = Idle /\ UNCHANGED <<queue, interrupting>>
  /\ UNCHANGED <<disk, gateway, seen, handlers, burst, notified, recovery, tool, server, history>>

\* The end of a turn: its batch is marked, and its own context is removed.
Finish(outcome) ==
  /\ Settle(worker.batch, outcome)
  /\ context' = IF worker.run # 0 /\ context.nonce = worker.run THEN NoContext ELSE context
  /\ worker' = Looping

\* A turn that raised: cancelled when it was stopped, or else nobody knows what it did.
Cut == IF interrupting THEN "cancelled" ELSE "uncertain"

\* No client, or the context of notices cannot be appended.
PrepareFails ==
  /\ worker.at = "prepare" /\ ~ interrupting
  /\ IF worker.dead THEN UNCHANGED faults ELSE Fault
  /\ Finish("uncertain")
  /\ UNCHANGED <<admitted, outbound, gateway, seen, handlers, burst, queue, interrupting, notified,
                 recovery, tool, server, runs, ran, sends, spoke, doomed, reported>>

\* The client is ready: a turn that was interrupted ends, another one is checkpointed.
Start ==
  /\ worker.at = "prepare"
  /\ IF interrupting
     THEN Finish("cancelled") /\ UNCHANGED runs
     ELSE /\ ~ worker.dead /\ runs < MaxRuns
          /\ runs' = runs + 1
          /\ Settle(worker.batch, "running")
          /\ context' = [nonce |-> runs + 1, said |-> FALSE]
          /\ worker' = [worker EXCEPT !.at = "started", !.run = runs + 1]
  /\ UNCHANGED <<admitted, outbound, gateway, seen, handlers, burst, queue, interrupting, notified,
                 recovery, tool, server, ran, sends, spoke, doomed, reported, faults>>

\* The input is submitted, unless a stop came between.
Submit ==
  /\ worker.at = "started" /\ ~ worker.dead
  /\ IF interrupting
     THEN worker' = [worker EXCEPT !.at = "unwind"] /\ UNCHANGED ran
     ELSE /\ worker' = [worker EXCEPT !.at = "running"]
          /\ ran' = [i \in Inputs |-> ran[i] + Cardinality({k \in DOMAIN worker.batch : worker.batch[k] = i})]
  /\ UNCHANGED <<disk, gateway, seen, handlers, burst, queue, interrupting, notified, recovery, tool,
                 server, runs, sends, spoke, doomed, reported, faults>>

\* The model sends the text of its answer itself, once: the tool checks the context file.
ToolChecks ==
  /\ worker.at = "running" /\ tool.at = "idle" /\ context.nonce = worker.run
  /\ tool.run # worker.run
  /\ tool' = [at |-> "checked", run |-> context.nonce]
  /\ UNCHANGED <<disk, memory, server, history>>

\* The server accepts the tool's send, or refuses it.
ToolSends ==
  /\ tool.at = "checked"
  /\ tool' \in {[tool EXCEPT !.at = "accepted"], [tool EXCEPT !.at = "idle"]}
  /\ UNCHANGED <<disk, memory, server, history>>

\* record_tool_send: what was sent belongs to the context only while its turn is active.
ToolRecords ==
  /\ tool.at = "accepted"
  /\ IF context.nonce = tool.run
     THEN context' = [context EXCEPT !.said = TRUE] /\ spoke' = spoke \cup {tool.run}
     ELSE UNCHANGED <<context, spoke>>
  /\ tool' = [tool EXCEPT !.at = "idle"]
  /\ UNCHANGED <<rows, admitted, outbound, memory, server, runs, ran, sends, doomed, reported,
                 faults>>

\* What the turn's result makes of its receipts, by the context's record of tool sends.
Result(answers) ==
  LET said == context.nonce = worker.run /\ context.said IN
  IF said \/ ~ answers THEN [state |-> "done", reply |-> 0, gave |-> "silent"]
  ELSE [state |-> "reply_pending", reply |-> worker.run, gave |-> "reply"]

\* The host returns the turn; a turn that was stopped has no result.
TurnEnds ==
  /\ worker.at = "running" /\ ~ worker.dead
  /\ tool.run = worker.run /\ tool.at # "idle" => interrupting
  /\ \E answers \in BOOLEAN :
       IF interrupting \/ gateway = "closing"
       THEN worker' = [worker EXCEPT !.at = "unwind"] /\ UNCHANGED rows
       ELSE /\ rows' = Mark(rows, {worker.batch}, Result(answers).state, Result(answers).reply)
            /\ worker' = [worker EXCEPT !.at = "unwind", !.gave = Result(answers).gave]
  /\ UNCHANGED <<admitted, outbound, context, gateway, seen, handlers, burst, queue, interrupting,
                 notified, recovery, tool, server, history>>

\* The host ends, the turn takes too long, or its client was closed.
TurnFails ==
  /\ worker.at \in {"started", "running"}
  /\ IF worker.dead THEN UNCHANGED faults ELSE Fault
  /\ worker' = [worker EXCEPT !.at = "unwind", !.gave = "failed"]
  /\ UNCHANGED <<disk, gateway, seen, handlers, burst, queue, interrupting, notified, recovery, tool,
                 server, runs, ran, sends, spoke, doomed, reported>>

\* The typing task ended: the answer is delivered, unless the turn was stopped meanwhile.
Unwind ==
  /\ worker.at = "unwind"
  /\ IF worker.gave = "failed" \/ interrupting \/ gateway = "closing"
     THEN Finish(IF worker.gave = "failed" \/ gateway # "closing" THEN Cut ELSE "uncertain")
     ELSE IF worker.gave = "reply"
     THEN worker' = [worker EXCEPT !.at = "preflight"] /\ UNCHANGED <<rows, context>>
     ELSE Finish("done")
  /\ UNCHANGED <<admitted, outbound, gateway, seen, handlers, burst, queue, interrupting, notified,
                 recovery, tool, server, history>>

(***************************************************************************)
(* The final answer, sent by the worker or by recovery.                    *)
(***************************************************************************)
ReplyOf(batch) == CHOOSE r \in {0} \cup Runs : r = rows[Head(batch)].reply

\* The reads before a send passed: the receipts are checkpointed and the request is made.
WorkerSends ==
  /\ worker.at = "preflight"
  /\ Settle(worker.batch, "sending")
  /\ sends' = [sends EXCEPT ![worker.run] = @ + 1] /\ wire' = wire \cup {worker.run}
  /\ worker' = [worker EXCEPT !.at = "sending"]
  /\ UNCHANGED <<admitted, outbound, context, gateway, seen, handlers, burst, queue, interrupting,
                 notified, recovery, tool, todo, posted, acked, landed, callback, runs, ran, spoke, doomed,
                 reported, faults>>

\* The request arrives; its idempotency key makes a second one a copy of the first.
Land(r) ==
  /\ r \in wire
  /\ wire' = wire \ {r} /\ landed' = landed \cup {r}
  /\ UNCHANGED <<disk, memory, tool, todo, posted, acked, callback, history>>

\* The send returned: its route is kept and the receipts are done.
WorkerSent ==
  /\ worker.at = "sending" /\ worker.run \in landed
  /\ outbound' = Recorded(worker.run)
  /\ Finish("done")
  /\ UNCHANGED <<admitted, gateway, seen, handlers, burst, queue, interrupting, notified, recovery,
                 tool, server, history>>

\* A read or the send raises: an answer whose send was begun is uncertain.
WorkerSendFails ==
  /\ worker.at \in {"preflight", "sending"} /\ Fault
  /\ Finish(Cut)
  /\ UNCHANGED <<admitted, outbound, gateway, seen, handlers, burst, queue, interrupting, notified,
                 recovery, tool, server, runs, ran, sends, spoke, doomed, reported>>

\* The server reports later that a message it accepted failed.
FailDelivery(r) ==
  /\ r \in landed /\ callback[r] = "none" /\ Fault
  /\ callback' = [callback EXCEPT ![r] = "due"]
  /\ UNCHANGED <<disk, memory, tool, todo, posted, acked, wire, landed, runs, ran, sends, spoke, doomed,
                 reported>>

\* _on_imessage_delivery_failed: noted in memory, kept on disk, and a notice joins the queue.
HandleFailure(r) ==
  /\ Open /\ callback[r] = "due"
  /\ notified' = notified \cup {r}
  /\ \/ /\ r \in notified
        /\ callback' = [callback EXCEPT ![r] = "handled"]
        /\ UNCHANGED <<outbound, burst, queue, worker, reported, faults>>
     \/ /\ r \notin notified
        /\ outbound' = FailureKept(r) /\ reported' = reported \cup {r}
        /\ callback' = [callback EXCEPT ![r] = "handled"]
        /\ queue' = Waiting /\ burst' = <<>> /\ worker' = Woken
        /\ UNCHANGED faults
     \/ /\ r \notin notified /\ Fault
        /\ UNCHANGED <<outbound, burst, queue, worker, callback, reported>>
  /\ UNCHANGED <<rows, admitted, context, gateway, seen, handlers, interrupting, recovery, tool, todo, posted,
                 acked, wire, landed, runs, ran, sends, spoke, doomed>>

(***************************************************************************)
(* Crash, close and recovery.                                              *)
(***************************************************************************)
Lost ==
  /\ seen' = [i \in Inputs |-> "no"] /\ handlers' = [h \in Handlers |-> NoHandler]
  /\ burst' = <<>> /\ queue' = <<>> /\ worker' = Idle /\ interrupting' = FALSE
  /\ notified' = {} /\ recovery' = NoRecovery

\* The gateway stops; batches of a /stop that waits for the host are not marked.
Crash ==
  /\ gateway # "down" /\ (IF gateway = "closing" THEN UNCHANGED faults ELSE Fault)
  /\ gateway' = "down" /\ Lost
  /\ doomed' = doomed \ UNION {InputsOf(handlers[h].drops) : h \in Handlers}
  /\ UNCHANGED <<disk, tool, server, runs, ran, sends, spoke, reported>>

\* SessionManager.close_all: the burst stays admitted, the clients are closed.
Close ==
  /\ gateway = "up" /\ recovery.at = "off" /\ Fault
  /\ gateway' = "closing" /\ burst' = <<>>
  /\ worker' = [worker EXCEPT !.dead = @ \/ worker.at \in {"prepare", "started", "running"}]
  /\ UNCHANGED <<disk, seen, handlers, queue, interrupting, notified, recovery, tool, server, runs,
                 ran, sends, spoke, doomed, reported>>

\* A restart removes the contexts of turns that are over.
OpenGateway ==
  /\ gateway = "down"
  /\ gateway' = "opening" /\ context' = NoContext
  /\ UNCHANGED <<rows, admitted, outbound, seen, handlers, burst, queue, worker, interrupting, notified,
                 recovery, tool, server, history>>

\* replay_pending and pending_replies.
Recover ==
  /\ gateway = "opening"
  /\ gateway' = "up" /\ rows' = Reopened
  /\ \E owners \in InOrder(Owners(Reopened)),
        inputs \in InOrder({i \in Inputs : Reopened[i].state = "pending"}) :
       recovery' = [at |-> "next", inputs |-> inputs,
                    replies |-> [k \in DOMAIN owners |-> Reopened[owners[k]].batch]]
  /\ UNCHANGED <<admitted, outbound, context, seen, handlers, burst, queue, worker, interrupting,
                 notified, tool, server, history>>

NextReply == [recovery EXCEPT !.at = "next", !.replies = Tail(@)]

\* The saved answer is looked at; its sender may not be allowed any more.
RecoverReply ==
  /\ recovery.at = "next" /\ recovery.replies # <<>>
  /\ \/ /\ recovery' = [recovery EXCEPT !.at = "preflight"] /\ UNCHANGED <<rows, faults>>
     \/ /\ Fault /\ Settle(Head(recovery.replies), "cancelled") /\ recovery' = NextReply
  /\ UNCHANGED <<admitted, outbound, context, gateway, seen, handlers, burst, queue, worker,
                 interrupting, notified, tool, server, runs, ran, sends, spoke, doomed, reported>>

RecoverySends ==
  LET batch == Head(recovery.replies) IN
  /\ recovery.at = "preflight"
  /\ Settle(batch, "sending")
  /\ sends' = [sends EXCEPT ![ReplyOf(batch)] = @ + 1] /\ wire' = wire \cup {ReplyOf(batch)}
  /\ recovery' = [recovery EXCEPT !.at = "sending"]
  /\ UNCHANGED <<admitted, outbound, context, gateway, seen, handlers, burst, queue, worker,
                 interrupting, notified, tool, todo, posted, acked, landed, callback, runs, ran, spoke, doomed,
                 reported, faults>>

RecoverySent ==
  LET batch == Head(recovery.replies) IN
  /\ recovery.at = "sending" /\ ReplyOf(batch) \in landed
  /\ outbound' = Recorded(ReplyOf(batch)) /\ Settle(batch, "done") /\ recovery' = NextReply
  /\ UNCHANGED <<admitted, context, gateway, seen, handlers, burst, queue, worker, interrupting,
                 notified, tool, server, history>>

RecoverySendFails ==
  /\ recovery.at \in {"preflight", "sending"} /\ Fault
  /\ Settle(Head(recovery.replies), "uncertain") /\ recovery' = NextReply
  /\ UNCHANGED <<admitted, outbound, context, gateway, seen, handlers, burst, queue, worker,
                 interrupting, notified, tool, server, runs, ran, sends, spoke, doomed, reported>>

\* After the answers, the inputs that were pending join the burst.
RecoverInputs ==
  /\ recovery.at = "next" /\ recovery.replies = <<>>
  /\ burst' = burst \o recovery.inputs /\ recovery' = NoRecovery
  /\ UNCHANGED <<disk, gateway, seen, handlers, queue, worker, interrupting, notified, tool, server,
                 history>>

(***************************************************************************)
(* The specification.                                                      *)
(***************************************************************************)
HandlerStep(h) ==
  HandlerFails(h) \/ Ignore(h) \/ Collect(h) \/ StopArrives(h) \/ ClearArrives(h) \/ CommandGoesOn(h)
  \/ CommandEnds(h)
WorkerStep ==
  Take \/ PrepareFails \/ Start \/ Submit \/ TurnEnds \/ TurnFails \/ Unwind \/ WorkerSends \/ WorkerSent
  \/ WorkerSendFails
ToolStep == ToolSends \/ ToolRecords
RecoveryStep ==
  RecoverReply \/ RecoverySends \/ RecoverySent \/ RecoverySendFails \/ RecoverInputs

Next ==
  \/ \E i \in Inputs : Deliver(i) \/ Expire(i)
  \/ \E h \in Handlers : HandlerStep(h)
  \/ FlushBurst \/ WorkerStep \/ ToolChecks \/ ToolStep
  \/ \E r \in Runs : Land(r) \/ FailDelivery(r) \/ HandleFailure(r)
  \/ Crash \/ Close \/ OpenGateway \/ Recover \/ RecoveryStep

Spec == Init /\ [][Next]_vars

(***************************************************************************)
(* Properties.                                                             *)
(***************************************************************************)
\* No input reaches the model twice, whatever is delivered again, expires or restarts: the receipt
\* is written once, and a restart replays only what was not begun.
RunOnce == \A i \in Inputs : ran[i] <= 1

\* An answer is sent once: neither again after a restart, nor after a tool of its turn sent it.
AnsweredOnce == \A r \in Runs : sends[r] + (IF r \in spoke THEN 1 ELSE 0) <= 1

\* A finished receipt tells the truth: done means that its answer was accepted, cancelled that no
\* answer was sent or will be.
RecordIsTrue ==
  \A i \in Chats : LET r == rows[i].reply IN
    r # 0 => /\ rows[i].state = "done" => r \in landed
             /\ rows[i].state = "cancelled" => r \notin landed \cup wire

\* No receipt is left behind: in a running gateway, what is pending waits somewhere, and what is
\* being run or sent belongs to the worker, to recovery or to the handler of a command.
NoOrphan ==
  gateway = "up" => \A i \in Inputs :
    CASE rows[i].state = "pending" ->
           \/ i \in InputsOf(ToSet(Waiting)) \cup ToSet(recovery.inputs)
           \/ worker.at = "prepare" /\ i \in ToSet(worker.batch)
           \/ \E h \in Handlers : i \in InputsOf(handlers[h].drops)
      [] rows[i].state = "running" ->
           \/ worker.at \in {"started", "running", "unwind"} /\ i \in ToSet(worker.batch)
           \/ \E h \in Handlers : h[1] = i /\ handlers[h].at \in {"interrupt", "reply"}
      [] rows[i].state = "sending" ->
           \/ worker.at = "sending" /\ i \in ToSet(worker.batch)
           \/ recovery.at = "sending" /\ i \in ToSet(Head(recovery.replies))
      [] OTHER -> TRUE

\* The messages of one batch are settled together, so that none is replayed without the others.
BatchTogether ==
  \A i, j \in Chats :
    j \in ToSet(rows[i].batch) /\ rows[i].state # "pending" => rows[j].state = rows[i].state

\* Receipts lead somewhere: none is left behind, and those of a batch are settled together.
ReceiptsAreKept == NoOrphan /\ BatchTogether

\* What waited when /stop arrived is not run later, unless the gateway died before /stop marked it.
StoppedStaysStopped == [][\A i \in doomed : ran'[i] = ran[i]]_vars

\* A delivery failure that was kept is not lost to the record of the send, whichever comes first.
FailureSticks == \A r \in reported : outbound[r].status = "failed"

\* Answers are sent once, and the records of their sends tell the truth.
AnswersAreRecorded == AnsweredOnce /\ RecordIsTrue /\ FailureSticks

\* A webhook is answered only when its input is saved (README, Restart behavior).
SavedBeforeAcknowledged == \A i \in Inputs : acked[i] => rows[i].state # "none"
================================================================================
