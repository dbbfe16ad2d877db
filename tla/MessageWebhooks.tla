--------------------------- MODULE MessageWebhooks ---------------------------
(***************************************************************************)
(* One conversation over the channels that keep no durable receipts (SMS,  *)
(* iMessage without threaded replies, mail, Slack, external events): the   *)
(* gateway's webhook handlers with their deduplication, the turns of the   *)
(* sessions that answer, the sends, and the loop that wakes the agent      *)
(* about an answer that was not delivered, under a budget shared by the    *)
(* synchronous rejection and the later webhook (gateway.py, sessions.py).  *)
(*                                                                         *)
(* An action is the code from one await to the next.  Wall-clock time is   *)
(* left to two actions, the end of the deduplication window and the expiry *)
(* of failure counters.                                                    *)
(***************************************************************************)
EXTENDS Naturals, Sequences, FiniteSets, FiniteSetsExt

CONSTANTS
  Webhooks,     \* deliveries of inbound events, each posted once
  Event,        \* the event a webhook delivers
  Request,      \* its request id, None if it has none
  Kind,         \* "text" (SMS, iMessage), "mail", "reaction", "external", "slack", "refused"
  None,
  Home,         \* the session the conversation's messages go to
  Chats,        \* the sessions a failure may be routed to
  Traffic,      \* of one behaviour: the webhooks posted, a bound on the messages sent,
                \* the channel ("message", "slack", "companion"), and the keys that name a
                \* reply: to its session, in failures, in receipts
  MaxAttempts,  \* OUTBOUND_FAILURE_MAX_ATTEMPTS
  MaxWindows, MaxFaults   \* bounds of the model

Keys == {"conv", "to", "chat"}    \* of the failure counters
Messages == 1 .. Max({s.messages : s \in Traffic})
Events == {Event[w] : w \in Webhooks}
Requests == {Request[w] : w \in Webhooks} \ {None}

ASSUME MessageAssumption ==
  /\ Kind \in [Events -> {"text", "mail", "reaction", "external", "slack", "refused"}]
  /\ Events \cap (Requests \cup {None}) = {} /\ Home \in Chats
  /\ \A s \in Traffic : /\ s.posts \subseteq Webhooks /\ s.messages \in Nat
                        /\ s.sync \subseteq Keys
                        /\ s.failed \cup s.delivered \subseteq SUBSET Keys
                        /\ s.channel \in {"message", "slack", "companion"}
                        /\ \E k \in s.sync : \A n \in s.failed \cup s.delivered : k \in n
  /\ MaxAttempts \in Nat \ {0}
  /\ MaxWindows \in Nat /\ MaxFaults \in Nat

VARIABLES
  up,          \* the gateway runs
  handler,     \* of each webhook: due, handling or done
  recent, inflight,   \* _recent_request_ids, _inflight_request_ids
  notified,    \* _notified_failures
  counter,     \* attempts in _outbound_failure_state, 0 without an entry
  stale,       \* counters that were not written by the last failure
  queue, turn, \* of each session: waiting turns, the worker's turn
  message,     \* what became of a message the server accepted
  traffic,     \* chosen initially
  \* history
  handled,     \* webhooks whose event was given to a session
  wakes, failures,    \* of the budget, since it was last reset
  windows, faults

tables == <<recent, inflight>>
budget == <<counter, stale, wakes, failures>>
bounds == <<windows, faults>>
webhookVars == <<up, handler, tables, notified, budget, queue, turn, message, traffic,
          handled, bounds>>

Kinds == {"inbound", "external", "recovery", "failure"}
Idle == [at |-> "idle", kind |-> None, sent |-> FALSE]

WebhooksTypeOK ==
  /\ up \in BOOLEAN
  /\ handler \in [Webhooks -> {"due", "handling", "done"}]
  /\ recent \subseteq Events \cup Requests /\ inflight \subseteq Events \cup Requests
  /\ notified \subseteq Messages
  /\ counter \in [Keys -> Nat] /\ stale \subseteq Keys
  /\ \A c \in Chats : /\ \A i \in DOMAIN queue[c] : queue[c][i] \in Kinds
                      /\ turn[c] = Idle \/ turn[c] \in [at : {"running", "sending"},
                                                        kind : Kinds, sent : BOOLEAN]
  /\ message \in [Messages -> {"none", "flight", "failed", "delivered"}]
  /\ traffic \in Traffic
  /\ handled \subseteq Webhooks
  /\ wakes \in Nat /\ failures \in Nat /\ windows \in Nat /\ faults \in Nat

WebhooksInit ==
  /\ up = TRUE /\ handler = [w \in Webhooks |-> "due"]
  /\ recent = {} /\ inflight = {} /\ notified = {}
  /\ counter = [k \in Keys |-> 0] /\ stale = {}
  /\ queue = [c \in Chats |-> <<>>] /\ turn = [c \in Chats |-> Idle]
  /\ message = [m \in Messages |-> "none"]
  /\ traffic \in Traffic
  /\ handled = {} /\ wakes = 0 /\ failures = 0 /\ windows = 0 /\ faults = 0
-----------------------------------------------------------------------------
(* The failure budget *)

\* _clear_outbound_failures
Clear(keys) ==
  /\ counter' = [k \in Keys |-> IF k \in keys THEN 0 ELSE counter[k]]
  /\ stale' = stale \ keys
ReplyIsFresh == wakes' = 0 /\ failures' = 0

\* _record_outbound_failure: the most attempts under any of the keys, and this one.
LeastOf(keys) == Min({counter[k] : k \in keys}) + 1   \* slip: the lowest counter wins
Attempts(keys) == Max({counter[k] : k \in keys}) + 1
Record(keys) ==
  /\ counter' = [k \in Keys |-> IF k \in keys THEN Attempts(keys) ELSE counter[k]]
  /\ stale' = (stale \cup {k \in Keys : counter[k] > 0}) \ keys
  /\ failures' = failures + 1
Spent(attempts) == attempts >= MaxAttempts

\* A failed send wakes the agent in session c with a turn of a kind, unless the
\* budget is spent; q are the queues.
Wakes(keys, c, kind) ==
  /\ Record(keys)
  /\ IF Spent(Attempts(keys)) THEN UNCHANGED <<queue, wakes>>
     ELSE queue' = [queue EXCEPT ![c] = Append(@, kind)] /\ wakes' = wakes + 1

\* Counters are void OUTBOUND_FAILURE_STATE_TTL_SECONDS after they were written.
CountersExpire ==
  /\ \E k \in Keys : counter[k] > 0
  /\ \/ stale # {} /\ Clear(stale) /\ UNCHANGED <<wakes, failures>>
     \/ Clear(Keys) /\ ReplyIsFresh
  /\ UNCHANGED <<up, handler, tables, notified, queue, turn, message, traffic, handled, bounds>>
-----------------------------------------------------------------------------
(* Inbound webhooks *)

\* What identifies a webhook in the deduplication tables: its request, and for all
\* but mail and external events the event.
RequestKey(w) == {Request[w]} \ {None}
EventKey(w) ==
  IF Kind[Event[w]] \in {"text", "reaction", "slack"} THEN {Event[w]} ELSE {}
NamesOf(w) == RequestKey(w) \cup EventKey(w)
InRecentOnly(names) == names \cap recent # {}         \* slip: a running handler is not seen
Known(names) == names \cap (recent \cup inflight) # {}

Commit(names) == recent' = recent \cup names /\ inflight' = inflight \ names

\* A webhook arrives: a duplicate is acknowledged, an event the handler ignores
\* (outbound, empty, a carrier keyword, a sender that is not allowed) as well.
Duplicate(w) == Known(RequestKey(w)) \/ Known(EventKey(w))
Refused(w) == Kind[Event[w]] = "refused"
Arrives(w) ==
  /\ up /\ w \in traffic.posts /\ handler[w] = "due"
  /\ IF Duplicate(w)
     THEN /\ handler' = [handler EXCEPT ![w] = "done"]
          /\ IF Known(RequestKey(w)) THEN UNCHANGED tables ELSE Commit(RequestKey(w))
     ELSE IF Refused(w)
     THEN handler' = [handler EXCEPT ![w] = "done"] /\ Commit(NamesOf(w))
     ELSE /\ handler' = [handler EXCEPT ![w] = "handling"]
          /\ inflight' = inflight \cup NamesOf(w) /\ UNCHANGED recent
  /\ UNCHANGED <<up, notified, budget, queue, turn, message, traffic, handled, bounds>>

\* Attachments, the conversation and the contact were looked up, and the event is
\* queued for the session: a message resets the budget, other events do not.
RecordedNames == traffic.sync \ {"chat"}                \* slip: only what failures know
ClearedNames == traffic.sync \cup {"chat"}
Resets == Clear(ClearedNames) /\ ReplyIsFresh
Enqueue(kind) == queue' = [queue EXCEPT ![Home] = Append(@, kind)]
TextReceived(w) == Kind[Event[w]] = "text" /\ Resets /\ Enqueue("inbound")
MailReceived(w) == Kind[Event[w]] = "mail" /\ Resets /\ Enqueue("inbound")
ReactionReceived(w) == Kind[Event[w]] = "reaction" /\ Enqueue("inbound") /\ UNCHANGED budget
SlackReceived(w) == Kind[Event[w]] = "slack" /\ Enqueue("inbound") /\ UNCHANGED budget
ExternalEvent(w) == Kind[Event[w]] = "external" /\ Enqueue("external") /\ UNCHANGED budget
Admits(w) ==
  /\ handler[w] = "handling"
  /\ handler' = [handler EXCEPT ![w] = "done"]
  /\ TextReceived(w) \/ MailReceived(w) \/ ReactionReceived(w) \/ SlackReceived(w)
     \/ ExternalEvent(w)
  /\ handled' = handled \cup {w}
  /\ Commit(NamesOf(w))
  /\ UNCHANGED <<up, notified, turn, message, traffic, bounds>>

\* A lookup fails: the names are free again, and the server posts another webhook.
Rollback(w) == inflight' = inflight \ NamesOf(w) /\ UNCHANGED recent
HandlerFails(w) ==
  /\ handler[w] = "handling" /\ faults < MaxFaults /\ faults' = faults + 1
  /\ handler' = [handler EXCEPT ![w] = "done"]
  /\ Rollback(w)
  /\ UNCHANGED <<up, notified, budget, queue, turn, message, traffic, handled, windows>>

\* WEBHOOK_DEDUP_TTL_SECONDS pass; what is still being handled is forgotten too.
WindowPasses ==
  /\ windows < MaxWindows /\ windows' = windows + 1
  /\ recent' = {} /\ inflight' = {} /\ notified' = {}
  /\ UNCHANGED <<up, handler, budget, queue, turn, message, traffic, handled, faults>>
-----------------------------------------------------------------------------
(* Turns and sends *)

TurnStarts(c) ==
  /\ up /\ turn[c] = Idle /\ queue[c] # <<>>
  /\ turn' = [turn EXCEPT ![c] = [at |-> "running", kind |-> Head(queue[c]), sent |-> FALSE]]
  /\ queue' = [queue EXCEPT ![c] = Tail(@)]
  /\ UNCHANGED <<up, handler, tables, notified, budget, message, traffic, handled, bounds>>

\* The server accepts a message for delivery.
Accept == \E m \in Messages :
  /\ message[m] = "none" /\ m <= traffic.messages /\ \A n \in Messages : n < m => message[n] # "none"
  /\ message' = [message EXCEPT ![m] = "flight"]

\* A turn about a delivery failure answers through the send tools.
ToolSends(c) ==
  /\ turn[c].at = "running" /\ turn[c].kind = "failure" /\ ~turn[c].sent
  /\ turn' = [turn EXCEPT ![c].sent = TRUE]
  /\ Accept
  /\ UNCHANGED <<up, handler, tables, notified, budget, queue, traffic, handled, bounds>>

\* The answer of a consult, of an external event or [SILENT] is not sent.
TurnEnds(c) ==
  /\ turn[c].at = "running"
  /\ \/ turn' = [turn EXCEPT ![c] = Idle]
     \/ /\ turn[c].kind \notin {"failure", "external"}
        /\ turn' = [turn EXCEPT ![c].at = "sending"]
  /\ UNCHANGED <<up, handler, tables, notified, budget, queue, message, traffic, handled, bounds>>

Accepted(c) ==
  /\ turn[c].at = "sending" /\ ~turn[c].sent
  /\ turn' = [turn EXCEPT ![c].sent = TRUE]
  /\ Accept
  /\ UNCHANGED <<up, handler, tables, notified, budget, queue, traffic, handled, bounds>>

SendReturns(c) ==
  /\ turn[c].at = "sending" /\ turn[c].sent
  /\ turn' = [turn EXCEPT ![c] = Idle]
  /\ UNCHANGED <<up, handler, tables, notified, budget, queue, message, traffic, handled, bounds>>

\* The send raises: rejected or too long, or its response was lost.  Slack never
\* resends, and a Companion turn leaves the retry to its receiver.
SendRaises(c) ==
  /\ turn[c].at = "sending"
  /\ turn[c].sent => faults < MaxFaults
  /\ faults' = IF turn[c].sent THEN faults + 1 ELSE faults
  /\ turn' = [turn EXCEPT ![c] = Idle]
  /\ IF traffic.channel = "message" THEN Wakes(traffic.sync, c, "recovery")
     ELSE UNCHANGED <<budget, queue>>
  /\ UNCHANGED <<up, handler, tables, notified, message, traffic, handled, windows>>
-----------------------------------------------------------------------------
(* Lifecycle webhooks of outbound messages *)

\* A failure is reported; a repeated report within the window is passed over.
Remember(m) == notified' = notified \cup {m}
FailureReported(m) ==
  /\ up /\ message[m] \in {"flight", "failed"}
  /\ message' = [message EXCEPT ![m] = "failed"]
  /\ m \notin notified /\ Remember(m)
  /\ \E keys \in traffic.failed, c \in Chats : Wakes(keys, c, "failure")
  /\ UNCHANGED <<up, handler, tables, turn, traffic, handled, bounds>>

\* A delivered receipt, perhaps repeated, resets the budget.
DeliveryReported(m) ==
  /\ up /\ message[m] \in {"flight", "delivered"}
  /\ message' = [message EXCEPT ![m] = "delivered"]
  /\ \E keys \in traffic.delivered : Clear(keys)
  /\ ReplyIsFresh
  /\ UNCHANGED <<up, handler, tables, notified, queue, turn, traffic, handled, bounds>>

\* The gateway stops, and starts with empty tables.
Stops ==
  /\ up /\ faults < MaxFaults /\ faults' = faults + 1
  /\ up' = FALSE
  /\ handler' = [w \in Webhooks |-> IF handler[w] = "handling" THEN "done" ELSE handler[w]]
  /\ recent' = {} /\ inflight' = {} /\ notified' = {}
  /\ Clear(Keys) /\ ReplyIsFresh
  /\ queue' = [c \in Chats |-> <<>>] /\ turn' = [c \in Chats |-> Idle]
  /\ UNCHANGED <<message, traffic, handled, windows>>
Starts ==
  /\ ~up /\ up' = TRUE
  /\ UNCHANGED <<handler, tables, notified, budget, queue, turn, message, traffic, handled, bounds>>
-----------------------------------------------------------------------------
WebhooksNext ==
  \/ \E w \in Webhooks : Arrives(w) \/ Admits(w) \/ HandlerFails(w)
  \/ \E c \in Chats : \/ TurnStarts(c) \/ ToolSends(c) \/ TurnEnds(c) \/ Accepted(c)
                      \/ SendReturns(c) \/ SendRaises(c)
  \/ \E m \in Messages : FailureReported(m) \/ DeliveryReported(m)
  \/ CountersExpire \/ WindowPasses \/ Stops \/ Starts
WebhooksSpec == WebhooksInit /\ [][WebhooksNext]_webhookVars
-----------------------------------------------------------------------------
(* Properties *)

\* An event is given to a session once, however often and however concurrently it
\* is delivered: again only after the deduplication window or a restart.
HandledOnce == \A e \in Events : Kind[e] \in {"text", "reaction", "slack"} =>
  Cardinality({w \in handled : Event[w] = e}) <= 1 + windows + faults

\* The budget is shared: since it was last reset, rejections and reports together,
\* whatever keys they know the reply by and whichever session they wake, woke the
\* agent fewer than MaxAttempts times.
BudgetIsShared == wakes < MaxAttempts

\* The thread goes quiet only when the budget is spent: where messages and receipts
\* name all that failures do, no counter holds failures from before the last reset.
ResetsAreComplete ==
  /\ \A f \in traffic.failed : f \subseteq traffic.sync
  /\ \A d \in traffic.delivered : traffic.sync \subseteq d
CountsAreFresh == ResetsAreComplete => \A k \in Keys : counter[k] <= failures
==============================================================================
