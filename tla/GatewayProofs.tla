---------------------------- MODULE GatewayProofs ----------------------------
(***************************************************************************)
(* Two components of the gateway process: its webhooks (MessageWebhooks)   *)
(* and its client of the app-server (CodexClient).                         *)
(*                                                                         *)
(* Webhooks: three results, for any number of webhooks, messages, turns    *)
(* and sessions and whatever names the two sides know a reply by.          *)
(*                                                                         *)
(* Rejections and failure webhooks together wake the agent fewer than      *)
(* MaxAttempts times, as long as they share a name: every failure that     *)
(* wakes the agent raises the counter under it, only a reset that also     *)
(* restarts the count lowers it, and it is never left to expire alone.     *)
(*                                                                         *)
(* No counter holds failures from before the last reset, where resets know *)
(* a reply by all the names that failures do: no other name ever has one.  *)
(*                                                                         *)
(* An event is handled once for every time its name was forgotten: while a *)
(* webhook handles it or has handled it the name is in a table, or a       *)
(* window, a restart or a failure accounts for its absence.                *)
(*                                                                         *)
(* Client: four results, for any number of turns, items, processes and     *)
(* stops.  While a turn is served, its lines in the pipe are numbered: an  *)
(* increasing function from the numbers still to come to positions hits    *)
(* exactly the lines of the turn, and the line at a number is the item     *)
(* sent under it.  What was captured and what waits for the                *)
(* acknowledgement are the numbers before.  So the end, which is numbered  *)
(* last, is delivered when all items were, and an answer is whole.         *)
(*                                                                         *)
(* An open question belongs to a turn without a result that somebody waits *)
(* for; a reader that no longer reads has failed every waiter that was     *)
(* there; an interrupt goes to a turn it found; the authority file names   *)
(* the turn the worker is at, or no active source.                         *)
(***************************************************************************)
EXTENDS MessageWebhooks, CodexClient, FiniteSetTheorems, SequenceTheorems, TLAPS

-----------------------------------------------------------------------------
(* The webhooks *)

\* The types of what the budget reads and writes.
BudgetOK ==
  /\ traffic \in Traffic
  /\ counter \in [Keys -> Nat]
  /\ stale \subseteq Keys
  /\ wakes \in Nat

\* A name by which both sides know every reply.
Shared(k) == k \in traffic.sync /\ \A n \in traffic.failed \cup traffic.delivered : k \in n

\* The counter under a shared name is recent, and counts at least the wakes.
SharedCounts == \E k \in Keys : Shared(k) /\ k \notin stale /\ counter[k] >= wakes

BudgetInv == BudgetOK /\ SharedCounts /\ wakes < MaxAttempts

budgeted == <<traffic, counter, stale, wakes>>
-----------------------------------------------------------------------------
\* Of a few counters one is the highest.
LEMMA HighestExists ==
  ASSUME counter \in [Keys -> Nat], NEW keys \in SUBSET Keys, NEW k \in keys
  PROVE  \E x \in {counter[j] : j \in keys} : \A y \in {counter[j] : j \in keys} : x >= y
<1>1. \E i \in keys : \A j \in keys : counter[i] >= counter[j]
  <2> DEFINE at(j) == IF j \in keys THEN counter[j] ELSE 0
  <2>1. at("conv") \in Nat /\ at("to") \in Nat /\ at("chat") \in Nat
    BY DEF Keys
  <2>2. \A j \in keys : j \in {"conv", "to", "chat"}
    BY DEF Keys
  <2> QED  BY <2>1, <2>2
<1> QED  BY <1>1

\* Attempts is above the counter of each of the names.
LEMMA AttemptsAreHigher ==
  ASSUME counter \in [Keys -> Nat], NEW keys \in SUBSET Keys, NEW k \in keys
  PROVE  Attempts(keys) \in Nat /\ Attempts(keys) >= counter[k] + 1
<1> DEFINE S == {counter[j] : j \in keys}
<1>1. \E x \in S : \A y \in S : x >= y
  BY HighestExists
<1>2. Max(S) \in S /\ \A y \in S : Max(S) >= y
  BY <1>1 DEF Max
<1>3. S \subseteq Nat /\ counter[k] \in S
  OBVIOUS
<1> QED  BY <1>2, <1>3 DEF Attempts

\* Steps that leave the budget alone keep the invariant.
LEMMA BudgetUntouched == ASSUME BudgetInv, budgeted' = budgeted PROVE BudgetInv'
BY DEF BudgetInv, BudgetOK, SharedCounts, Shared, budgeted

\* A reset restarts the count; whatever it clears, the invariant holds.
LEMMA ResetStep ==
  ASSUME BudgetInv, NEW keys \in SUBSET Keys, Clear(keys), ReplyIsFresh, traffic' = traffic
  PROVE  BudgetInv'
<1>1. PICK k \in Keys : Shared(k) /\ k \notin stale
  BY DEF BudgetInv, SharedCounts
<1>2. BudgetOK'
  BY DEF BudgetInv, BudgetOK, Clear, ReplyIsFresh
<1>3. Shared(k)' /\ k \notin stale' /\ counter'[k] >= wakes'
  BY <1>1, <1>2 DEF Shared, Clear, ReplyIsFresh, BudgetOK
<1>4. wakes' < MaxAttempts
  BY MessageAssumption DEF ReplyIsFresh
<1> QED  BY <1>2, <1>3, <1>4 DEF BudgetInv, SharedCounts

\* A failure known by names of which every shared one is part.
LEMMA FailureStep ==
  ASSUME BudgetInv, NEW keys \in SUBSET Keys, \A k \in Keys : Shared(k) => k \in keys,
         NEW c, NEW kind, Wakes(keys, c, kind), traffic' = traffic
  PROVE  BudgetInv'
<1>1. PICK k \in Keys : Shared(k) /\ k \notin stale /\ counter[k] >= wakes
  BY DEF BudgetInv, SharedCounts
<1>2. k \in keys
  BY <1>1
<1>3. Attempts(keys) \in Nat /\ Attempts(keys) >= counter[k] + 1
  BY <1>2, AttemptsAreHigher DEF BudgetInv, BudgetOK
<1>4. wakes' \in Nat /\ wakes' <= wakes + 1
  BY DEF Wakes, BudgetInv, BudgetOK
<1>5. counter' \in [Keys -> Nat] /\ counter'[k] = Attempts(keys)
  BY <1>2, <1>3 DEF Wakes, Record, BudgetInv, BudgetOK
<1>6. stale' \subseteq Keys /\ k \notin stale'
  BY <1>2 DEF Wakes, Record, BudgetInv, BudgetOK
<1>7. counter[k] \in Nat /\ wakes \in Nat
  BY DEF BudgetInv, BudgetOK
<1>8. counter'[k] >= wakes'
  BY <1>1, <1>3, <1>4, <1>5, <1>7
<1>9. wakes' < MaxAttempts
  BY <1>1, <1>3, <1>7, MessageAssumption DEF Wakes, Spent, BudgetInv
<1>10. Shared(k)' /\ BudgetOK'
  BY <1>1, <1>4, <1>5, <1>6 DEF Shared, BudgetOK, BudgetInv
<1> QED  BY <1>6, <1>8, <1>9, <1>10 DEF BudgetInv, SharedCounts

\* Counters written last by failures under other names expire alone; all at once is a reset.
LEMMA ExpiryStep == ASSUME BudgetInv, CountersExpire PROVE BudgetInv'
<1>1. traffic' = traffic
  BY DEF CountersExpire
<1>2. CASE Clear(stale) /\ UNCHANGED <<wakes, failures>>
  <2>1. PICK k \in Keys : Shared(k) /\ k \notin stale /\ counter[k] >= wakes
    BY DEF BudgetInv, SharedCounts
  <2>2. BudgetOK' /\ wakes' = wakes
    BY <1>1, <1>2 DEF BudgetInv, BudgetOK, Clear
  <2>3. Shared(k)' /\ k \notin stale' /\ counter'[k] >= wakes'
    BY <1>1, <1>2, <2>1, <2>2 DEF Shared, Clear, BudgetInv, BudgetOK
  <2> QED  BY <2>2, <2>3 DEF BudgetInv, SharedCounts
<1>3. CASE Clear(Keys) /\ ReplyIsFresh
  BY <1>1, <1>3, ResetStep
<1> QED  BY <1>2, <1>3 DEF CountersExpire

\* A message from the party resets, other events leave the budget alone.
LEMMA AdmitsStep == ASSUME BudgetInv, NEW w \in Webhooks, Admits(w) PROVE BudgetInv'
<1>1. traffic' = traffic
  BY DEF Admits
<1>2. CASE Resets
  <2>1. ClearedNames \in SUBSET Keys
    BY MessageAssumption DEF ClearedNames, Keys, BudgetInv, BudgetOK
  <2> QED  BY <1>1, <1>2, <2>1, ResetStep DEF Resets
<1>3. CASE UNCHANGED budget
  BY <1>1, <1>3, BudgetUntouched DEF budget, budgeted
<1> QED  BY <1>2, <1>3 DEF Admits, TextReceived, MailReceived, ReactionReceived,
                            SlackReceived, ExternalEvent

\* A rejected send knows the reply by the names of its session.
LEMMA SendRaisesStep == ASSUME BudgetInv, NEW c \in Chats, SendRaises(c) PROVE BudgetInv'
<1>1. traffic' = traffic
  BY DEF SendRaises
<1>2. CASE traffic.channel = "message"
  <2>1. Wakes(traffic.sync, c, "recovery")
    BY <1>2 DEF SendRaises
  <2>2. traffic.sync \in SUBSET Keys /\ \A k \in Keys : Shared(k) => k \in traffic.sync
    BY MessageAssumption DEF BudgetInv, BudgetOK, Shared
  <2> QED  BY <1>1, <2>1, <2>2, FailureStep
<1>3. CASE traffic.channel # "message"
  BY <1>1, <1>3, BudgetUntouched DEF SendRaises, budget, budgeted
<1> QED  BY <1>2, <1>3

\* A report knows the reply by the names of its event.
LEMMA FailureReportedStep == ASSUME BudgetInv, NEW m \in Messages, FailureReported(m) PROVE BudgetInv'
<1>1. traffic' = traffic
  BY DEF FailureReported
<1>2. PICK keys \in traffic.failed, c \in Chats : Wakes(keys, c, "failure")
  BY DEF FailureReported
<1>3. keys \in SUBSET Keys /\ \A k \in Keys : Shared(k) => k \in keys
  BY <1>2, MessageAssumption DEF BudgetInv, BudgetOK, Shared
<1> QED  BY <1>1, <1>2, <1>3, FailureStep

LEMMA DeliveryReportedStep == ASSUME BudgetInv, NEW m \in Messages, DeliveryReported(m) PROVE BudgetInv'
<1>1. PICK keys \in traffic.delivered : Clear(keys)
  BY DEF DeliveryReported
<1>2. keys \in SUBSET Keys
  BY <1>1, MessageAssumption DEF BudgetInv, BudgetOK
<1> QED  BY <1>1, <1>2, ResetStep DEF DeliveryReported

LEMMA BudgetStarts == WebhooksInit => BudgetInv
<1> SUFFICES ASSUME WebhooksInit PROVE BudgetInv
  OBVIOUS
<1>1. BudgetOK /\ wakes = 0 /\ stale = {}
  BY DEF WebhooksInit, BudgetOK
<1>2. PICK k \in traffic.sync : \A n \in traffic.failed \cup traffic.delivered : k \in n
  BY <1>1, MessageAssumption DEF BudgetOK
<1>3. k \in Keys
  BY <1>1, <1>2, MessageAssumption DEF BudgetOK
<1>4. SharedCounts
  BY <1>1, <1>2, <1>3 DEF SharedCounts, Shared, BudgetOK
<1>5. wakes < MaxAttempts
  BY <1>1, MessageAssumption
<1> QED  BY <1>1, <1>4, <1>5 DEF BudgetInv

\* The other steps of the webhooks, of the turns and of the gateway.
LEMMA OtherStep ==
  ASSUME BudgetInv,
         \/ \E w \in Webhooks : Arrives(w) \/ HandlerFails(w)
         \/ \E c \in Chats : TurnStarts(c) \/ ToolSends(c) \/ TurnEnds(c) \/ Accepted(c)
                             \/ SendReturns(c)
         \/ WindowPasses \/ Starts \/ UNCHANGED webhookVars
  PROVE  BudgetInv'
<1>1. budgeted' = budgeted
  BY DEF budgeted, budget, webhookVars, Arrives, HandlerFails, TurnStarts, ToolSends, TurnEnds,
         Accepted, SendReturns, WindowPasses, Starts
<1> QED  BY <1>1, BudgetUntouched

LEMMA BudgetStep == ASSUME BudgetInv, [WebhooksNext]_webhookVars PROVE BudgetInv'
<1>1. ASSUME NEW w \in Webhooks, Admits(w) PROVE BudgetInv'
  BY <1>1, AdmitsStep
<1>2. ASSUME NEW c \in Chats, SendRaises(c) PROVE BudgetInv'
  BY <1>2, SendRaisesStep
<1>3. ASSUME NEW m \in Messages, FailureReported(m) \/ DeliveryReported(m) PROVE BudgetInv'
  BY <1>3, FailureReportedStep, DeliveryReportedStep
<1>4. CASE CountersExpire
  BY <1>4, ExpiryStep
<1>5. CASE Stops
  BY <1>5, ResetStep DEF Stops
<1>6. CASE \/ \E w \in Webhooks : Arrives(w) \/ HandlerFails(w)
           \/ \E c \in Chats : TurnStarts(c) \/ ToolSends(c) \/ TurnEnds(c) \/ Accepted(c)
                               \/ SendReturns(c)
           \/ WindowPasses \/ Starts \/ UNCHANGED webhookVars
  BY <1>6, OtherStep
<1> QED  BY <1>1, <1>2, <1>3, <1>4, <1>5, <1>6 DEF WebhooksNext

\* In every behaviour the counter under a shared name counts the wakes since the reset.
THEOREM BudgetInvariant == WebhooksSpec => []BudgetInv
<1>1. BudgetInv /\ [WebhooksNext]_webhookVars => BudgetInv'
  BY BudgetStep
<1> QED  BY <1>1, BudgetStarts, PTL DEF WebhooksSpec

\* The budget is shared: since the last reset, _send_text's rejections and the failure
\* webhooks together woke the agent fewer than OUTBOUND_FAILURE_MAX_ATTEMPTS times.
THEOREM WakesAreBounded == WebhooksSpec => []BudgetIsShared
<1>1. BudgetInv => BudgetIsShared
  BY DEF BudgetInv, BudgetIsShared
<1> QED  BY <1>1, BudgetInvariant, PTL
-----------------------------------------------------------------------------
(* Deduplication *)

\* The events that are known by their own name, besides the name of the request.
Named(e) == Kind[e] \in {"text", "reaction", "slack"}

\* The webhooks that handle an event or gave it to a session.
TakenBy(e) == {w \in Webhooks : Event[w] = e /\ (handler[w] = "handling" \/ w \in handled)}

Seen(e) == IF e \in recent \cup inflight THEN 1 ELSE 0

DedupOK ==
  /\ handler \in [Webhooks -> {"due", "handling", "done"}]
  /\ handled \subseteq Webhooks
  /\ windows \in Nat /\ faults \in Nat

\* Every webhook that took the event is accounted for by its name in a table, or by a
\* window, a failure or a stop that may have removed the name.
Counted(e) ==
  /\ IsFiniteSet(TakenBy(e))
  /\ Cardinality(TakenBy(e)) <= Seen(e) + windows + faults

DInv == DedupOK /\ \A e \in Events : Named(e) => Counted(e)

\* A step after which no more webhooks have the event, and no fewer reasons are known.
LEMMA NoneTaken ==
  ASSUME DInv, DedupOK', NEW e \in Events, Named(e), TakenBy(e)' \subseteq TakenBy(e),
         Seen(e) + windows + faults <= Seen(e)' + windows' + faults'
  PROVE  Counted(e)'
<1>1. IsFiniteSet(TakenBy(e)) /\ Cardinality(TakenBy(e)) <= Seen(e) + windows + faults
  BY DEF DInv, Counted
<1>2. IsFiniteSet(TakenBy(e)') /\ Cardinality(TakenBy(e)') <= Cardinality(TakenBy(e))
  BY <1>1, FS_Subset
<1>3. Cardinality(TakenBy(e)) \in Nat /\ Cardinality(TakenBy(e)') \in Nat
  BY <1>1, <1>2, FS_CardinalityType
<1>4. Seen(e) \in Nat /\ Seen(e)' \in Nat
  BY DEF Seen
<1> QED  BY <1>1, <1>2, <1>3, <1>4 DEF Counted, DInv, DedupOK

\* What does not touch webhooks, tables and bounds.
LEMMA WebhooksUntouched ==
  ASSUME DInv, UNCHANGED <<handler, handled, tables, bounds>>
  PROVE  DInv'
BY DEF DInv, DedupOK, Counted, TakenBy, Seen, tables, bounds

\* A new webhook of an event finds none of its names: the event becomes known with it.
LEMMA ArrivesStep == ASSUME DInv, NEW w \in Webhooks, Arrives(w) PROVE DInv'
<1> DEFINE e0 == Event[w]
<1>1. DedupOK' /\ handled' = handled /\ windows' = windows /\ faults' = faults
  BY DEF Arrives, DInv, DedupOK, bounds
<1>2. handler[w] = "due" /\ handler \in [Webhooks -> {"due", "handling", "done"}]
  BY DEF Arrives, DInv, DedupOK
<1>3. SUFFICES ASSUME NEW e \in Events, Named(e) PROVE Counted(e)'
  BY <1>1 DEF DInv
<1>4. CASE handler' = [handler EXCEPT ![w] = "done"]
  <2>1. TakenBy(e)' \subseteq TakenBy(e)
    BY <1>1, <1>2, <1>4 DEF TakenBy
  <2>2. recent \cup inflight \subseteq (recent \cup inflight)'
    BY <1>2, <1>4 DEF Arrives, Commit, tables
  <2>3. Seen(e) + windows + faults <= Seen(e)' + windows' + faults'
    BY <1>1, <2>2 DEF Seen, DInv, DedupOK
  <2> QED  BY <1>1, <1>3, <2>1, <2>3, NoneTaken
<1>5. CASE /\ ~Duplicate(w)
           /\ handler' = [handler EXCEPT ![w] = "handling"]
           /\ inflight' = inflight \cup NamesOf(w) /\ recent' = recent
  <2>1. CASE e # e0
    <3>1. TakenBy(e)' \subseteq TakenBy(e)
      BY <1>1, <1>2, <1>5, <2>1 DEF TakenBy
    <3>2. Seen(e) + windows + faults <= Seen(e)' + windows' + faults'
      BY <1>1, <1>5 DEF Seen, DInv, DedupOK
    <3> QED  BY <1>1, <1>3, <3>1, <3>2, NoneTaken
  <2>2. CASE e = e0
    <3>1. e \in EventKey(w) /\ e \in NamesOf(w)
      BY <1>3, <2>2 DEF EventKey, NamesOf, Named
    <3>2. Seen(e) = 0 /\ Seen(e)' = 1
      BY <1>5, <3>1 DEF Duplicate, Known, Seen
    <3>3. TakenBy(e)' \subseteq TakenBy(e) \cup {w}
      BY <1>1, <1>2, <1>5 DEF TakenBy
    <3>4. IsFiniteSet(TakenBy(e)) /\ Cardinality(TakenBy(e)) <= windows + faults
      BY <1>3, <3>2 DEF DInv, Counted, DedupOK
    <3>5. /\ IsFiniteSet(TakenBy(e) \cup {w}) /\ Cardinality(TakenBy(e)) \in Nat
          /\ Cardinality(TakenBy(e) \cup {w}) <= Cardinality(TakenBy(e)) + 1
      <4> DEFINE T == TakenBy(e)
      <4>1. IsFiniteSet(T) /\ Cardinality(T) \in Nat
        BY <3>4, FS_CardinalityType
      <4> HIDE DEF T
      <4>2. /\ IsFiniteSet(T \cup {w})
            /\ Cardinality(T \cup {w}) = IF w \in T THEN Cardinality(T) ELSE Cardinality(T) + 1
        BY <4>1, FS_AddElement
      <4> QED  BY <4>1, <4>2 DEF T
    <3>6. IsFiniteSet(TakenBy(e)') /\ Cardinality(TakenBy(e)') <= Cardinality(TakenBy(e) \cup {w})
      BY <3>3, <3>5, FS_Subset
    <3>7. Cardinality(TakenBy(e)') \in Nat /\ Cardinality(TakenBy(e) \cup {w}) \in Nat
      BY <3>5, <3>6, FS_CardinalityType
    <3> QED  BY <1>1, <3>2, <3>4, <3>5, <3>6, <3>7 DEF Counted, DInv, DedupOK
  <2> QED  BY <2>1, <2>2
<1> QED  BY <1>4, <1>5 DEF Arrives

\* The webhook that handled the event counts on, and the name stays in a table.
LEMMA AdmitsCounts == ASSUME DInv, NEW w \in Webhooks, Admits(w) PROVE DInv'
<1>1. /\ handler[w] = "handling" /\ handler' = [handler EXCEPT ![w] = "done"]
      /\ handled' = handled \cup {w} /\ windows' = windows /\ faults' = faults
  BY DEF Admits, bounds
<1>2. DedupOK'
  BY <1>1 DEF DInv, DedupOK
<1>3. recent \cup inflight \subseteq (recent \cup inflight)'
  BY DEF Admits, Commit
<1>4. ASSUME NEW e \in Events, Named(e) PROVE Counted(e)'
  <2>1. TakenBy(e)' \subseteq TakenBy(e)
    BY <1>1 DEF TakenBy, DInv, DedupOK
  <2>2. Seen(e) + windows + faults <= Seen(e)' + windows' + faults'
    BY <1>1, <1>3 DEF Seen, DInv, DedupOK
  <2> QED  BY <1>2, <1>4, <2>1, <2>2, NoneTaken
<1> QED  BY <1>2, <1>4 DEF DInv

LEMMA OneMoreReason ==
  ASSUME NEW a \in {0, 1}, NEW b \in {0, 1}, NEW x \in Nat, NEW y \in Nat,
         NEW u \in Nat, NEW v \in Nat, u + v = x + y + 1
  PROVE  a + x + y <= b + u + v
OBVIOUS

\* What forgets names is counted: a failed handler and a stop as faults, the window.
LEMMA ForgetsNames ==
  ASSUME DInv, DedupOK', \A e \in Events : TakenBy(e)' \subseteq TakenBy(e),
         windows' + faults' = windows + faults + 1
  PROVE  DInv'
<1>1. ASSUME NEW e \in Events, Named(e) PROVE Counted(e)'
  <2>1. Seen(e) + windows + faults <= Seen(e)' + windows' + faults'
    <3>1. (Seen(e) = 0 \/ Seen(e) = 1) /\ (Seen(e)' = 0 \/ Seen(e)' = 1)
      BY DEF Seen
    <3>2. windows + faults \in Nat /\ windows' \in Nat /\ faults' \in Nat
          /\ windows \in Nat /\ faults \in Nat
      BY DEF DInv, DedupOK
    <3> QED  BY <3>1, <3>2, OneMoreReason
  <2> QED  BY <1>1, <2>1, NoneTaken
<1> QED  BY <1>1 DEF DInv

LEMMA HandlerFailsForgets == ASSUME DInv, NEW w \in Webhooks, HandlerFails(w) PROVE DInv'
<1>1. /\ handler' = [handler EXCEPT ![w] = "done"] /\ handled' = handled
      /\ faults' = faults + 1 /\ windows' = windows
  BY DEF HandlerFails
<1>2. DedupOK' /\ windows' + faults' = windows + faults + 1
  BY <1>1 DEF DInv, DedupOK
<1>3. \A e \in Events : TakenBy(e)' \subseteq TakenBy(e)
  BY <1>1 DEF TakenBy, DInv, DedupOK
<1> QED  BY <1>2, <1>3, ForgetsNames

LEMMA WindowForgets == ASSUME DInv, WindowPasses PROVE DInv'
<1>1. handler' = handler /\ handled' = handled /\ faults' = faults /\ windows' = windows + 1
  BY DEF WindowPasses
<1>2. DedupOK' /\ windows' + faults' = windows + faults + 1
  BY <1>1 DEF DInv, DedupOK
<1>3. \A e \in Events : TakenBy(e)' \subseteq TakenBy(e)
  BY <1>1 DEF TakenBy
<1> QED  BY <1>2, <1>3, ForgetsNames

LEMMA StopForgets == ASSUME DInv, Stops PROVE DInv'
<1>1. /\ handler' = [w \in Webhooks |-> IF handler[w] = "handling" THEN "done" ELSE handler[w]]
      /\ handled' = handled /\ faults' = faults + 1 /\ windows' = windows
  BY DEF Stops
<1>2. DedupOK' /\ windows' + faults' = windows + faults + 1
  BY <1>1 DEF DInv, DedupOK
<1>3. \A e \in Events : TakenBy(e)' \subseteq TakenBy(e)
  BY <1>1 DEF TakenBy, DInv, DedupOK
<1> QED  BY <1>2, <1>3, ForgetsNames

\* A rejected send whose answer was lost is a fault too.
LEMMA SendRaisesCounts == ASSUME DInv, NEW c \in Chats, SendRaises(c) PROVE DInv'
<1>1. /\ handler' = handler /\ handled' = handled /\ recent' = recent /\ inflight' = inflight
      /\ windows' = windows
  BY DEF SendRaises, tables
<1>2. DedupOK' /\ faults <= faults'
  BY <1>1 DEF SendRaises, DInv, DedupOK
<1>3. ASSUME NEW e \in Events, Named(e) PROVE Counted(e)'
  <2>1. TakenBy(e)' \subseteq TakenBy(e)
    BY <1>1 DEF TakenBy
  <2>2. Seen(e) + windows + faults <= Seen(e)' + windows' + faults'
    <3>1. Seen(e)' = Seen(e) /\ Seen(e) \in {0, 1}
      BY <1>1 DEF Seen
    <3>2. windows \in Nat /\ faults \in Nat /\ faults' \in Nat
      BY <1>2 DEF DInv, DedupOK
    <3> QED  BY <1>1, <1>2, <3>1, <3>2
  <2> QED  BY <1>2, <1>3, <2>1, <2>2, NoneTaken
<1> QED  BY <1>2, <1>3 DEF DInv

LEMMA DedupInit == WebhooksInit => DInv
<1> SUFFICES ASSUME WebhooksInit PROVE DInv
  OBVIOUS
<1>1. DedupOK
  BY DEF WebhooksInit, DedupOK
<1>2. ASSUME NEW e \in Events PROVE Counted(e)
  <2>1. TakenBy(e) = {}
    BY DEF TakenBy, WebhooksInit
  <2> QED  BY <2>1, FS_EmptySet DEF Counted, WebhooksInit, Seen
<1> QED  BY <1>1, <1>2 DEF DInv

LEMMA DedupStep == ASSUME DInv, [WebhooksNext]_webhookVars PROVE DInv'
<1>1. ASSUME NEW w \in Webhooks, Arrives(w) \/ Admits(w) \/ HandlerFails(w) PROVE DInv'
  BY <1>1, ArrivesStep, AdmitsCounts, HandlerFailsForgets
<1>2. ASSUME NEW c \in Chats, SendRaises(c) PROVE DInv'
  BY <1>2, SendRaisesCounts
<1>3. CASE WindowPasses \/ Stops
  BY <1>3, WindowForgets, StopForgets
<1>4. CASE \/ \E c \in Chats : TurnStarts(c) \/ ToolSends(c) \/ TurnEnds(c) \/ Accepted(c)
                               \/ SendReturns(c)
           \/ \E m \in Messages : FailureReported(m) \/ DeliveryReported(m)
           \/ CountersExpire \/ Starts \/ UNCHANGED webhookVars
  <2>1. UNCHANGED <<handler, handled, tables, bounds>>
    BY <1>4 DEF TurnStarts, ToolSends, TurnEnds, Accepted, SendReturns, FailureReported,
                DeliveryReported, CountersExpire, Starts, webhookVars
  <2> QED  BY <2>1, WebhooksUntouched
<1> QED  BY <1>1, <1>2, <1>3, <1>4 DEF WebhooksNext

\* Every webhook that took an event is accounted for, in every behaviour.
THEOREM TakenAreCounted == WebhooksSpec => []DInv
<1>1. DInv /\ [WebhooksNext]_webhookVars => DInv'
  BY DedupStep
<1> QED  BY <1>1, DedupInit, PTL DEF WebhooksSpec

\* _recent_request_ids and _inflight_request_ids let an event reach a session once, however
\* often and however concurrently its webhooks are posted; again only after the window of
\* WEBHOOK_DEDUP_TTL_SECONDS, a handler that failed or a restart.
THEOREM EventsAreHandledOnce == WebhooksSpec => []HandledOnce
<1>1. DInv => HandledOnce
  <2> SUFFICES ASSUME DInv, NEW e \in Events, Named(e)
               PROVE  Cardinality({w \in handled : Event[w] = e}) <= 1 + windows + faults
    BY DEF HandledOnce, Named
  <2>1. IsFiniteSet(TakenBy(e)) /\ Cardinality(TakenBy(e)) <= Seen(e) + windows + faults
    BY DEF DInv, Counted
  <2>2. {w \in handled : Event[w] = e} \in SUBSET TakenBy(e)
    BY DEF TakenBy, DInv, DedupOK
  <2>3. /\ IsFiniteSet({w \in handled : Event[w] = e})
        /\ Cardinality({w \in handled : Event[w] = e}) <= Cardinality(TakenBy(e))
    BY <2>1, <2>2, FS_Subset
  <2>4. /\ Cardinality({w \in handled : Event[w] = e}) \in Nat
        /\ Cardinality(TakenBy(e)) \in Nat
    BY <2>1, <2>3, FS_CardinalityType
  <2>5. Seen(e) \in {0, 1} /\ windows \in Nat /\ faults \in Nat
    BY DEF Seen, DInv, DedupOK
  <2> QED  BY <2>1, <2>3, <2>4, <2>5
<1> QED  BY <1>1, TakenAreCounted, PTL
-----------------------------------------------------------------------------
(* FreshCounters counters *)

\* Where resets are complete, a counter is at most the failures since the last one, and
\* only under a name that a reset clears.
FreshCounters ==
  \A k \in Keys : counter[k] <= failures /\ (counter[k] > 0 => k \in traffic.sync)

FInv ==
  /\ traffic \in Traffic /\ counter \in [Keys -> Nat] /\ stale \subseteq Keys /\ failures \in Nat
  /\ ResetsAreComplete => FreshCounters

\* Attempts is one more than the counter of one of the names.
LEMMA AttemptsAreCounted ==
  ASSUME counter \in [Keys -> Nat], NEW keys \in SUBSET Keys, NEW k \in keys
  PROVE  Attempts(keys) \in Nat /\ \E i \in keys : Attempts(keys) = counter[i] + 1
<1> DEFINE S == {counter[j] : j \in keys}
<1>1. \E x \in S : \A y \in S : x >= y
  BY HighestExists
<1>2. Max(S) \in S
  BY <1>1 DEF Max
<1> QED  BY <1>2 DEF Attempts

\* A reset clears every counter there is.
LEMMA ResetFreshens ==
  ASSUME FInv, NEW keys, Clear(keys), ReplyIsFresh, traffic' = traffic,
         ResetsAreComplete => traffic.sync \subseteq keys
  PROVE  FInv'
<1>1. /\ counter' = [k \in Keys |-> IF k \in keys THEN 0 ELSE counter[k]]
      /\ stale' = stale \ keys /\ failures' = 0
  BY DEF Clear, ReplyIsFresh
<1>2. ResetsAreComplete' = ResetsAreComplete
  BY DEF ResetsAreComplete
<1>3. ASSUME ResetsAreComplete, NEW k \in Keys PROVE counter'[k] = 0
  BY <1>1, <1>3 DEF FInv, FreshCounters
<1>4. ResetsAreComplete => FreshCounters'
  BY <1>1, <1>3 DEF FreshCounters
<1> QED  BY <1>1, <1>2, <1>4 DEF FInv

\* A failure raises counters and the count of failures together.
LEMMA FailureIsCounted ==
  ASSUME FInv, NEW keys \in SUBSET Keys, ResetsAreComplete => keys \subseteq traffic.sync,
         NEW c, NEW kind, Wakes(keys, c, kind), traffic' = traffic
  PROVE  FInv'
<1>1. /\ counter' = [k \in Keys |-> IF k \in keys THEN Attempts(keys) ELSE counter[k]]
      /\ stale' \subseteq Keys /\ failures' = failures + 1
  BY DEF Wakes, Record, FInv
<1>2. \A k \in keys : Attempts(keys) \in Nat /\ \E i \in keys : Attempts(keys) = counter[i] + 1
  BY AttemptsAreCounted DEF FInv
<1>3. counter' \in [Keys -> Nat]
  BY <1>1, <1>2 DEF FInv
<1>4. ResetsAreComplete' = ResetsAreComplete
  BY DEF ResetsAreComplete
<1>5. ASSUME ResetsAreComplete, NEW k \in Keys
      PROVE  counter'[k] <= failures' /\ (counter'[k] > 0 => k \in traffic'.sync)
  <2>1. \A i \in Keys : counter[i] \in Nat /\ counter[i] <= failures
    BY <1>5 DEF FInv, FreshCounters
  <2>2. CASE k \in keys
    <3>1. PICK i \in keys : Attempts(keys) = counter[i] + 1
      BY <1>2, <2>2
    <3>2. counter'[k] = counter[i] + 1 /\ i \in Keys
      BY <1>1, <2>2, <3>1
    <3> QED  BY <1>1, <1>5, <2>1, <2>2, <3>2 DEF FInv
  <2>3. CASE k \notin keys
    <3>1. counter'[k] = counter[k] /\ (counter[k] > 0 => k \in traffic.sync)
      BY <1>1, <1>5, <2>3 DEF FInv, FreshCounters
    <3> QED  BY <1>1, <2>1, <3>1 DEF FInv
  <2> QED  BY <2>2, <2>3
<1>6. ResetsAreComplete => FreshCounters'
  BY <1>5 DEF FreshCounters
<1> QED  BY <1>1, <1>3, <1>4, <1>6 DEF FInv

LEMMA CountersUntouched ==
  ASSUME FInv, UNCHANGED <<traffic, counter, stale, failures>>
  PROVE  FInv'
BY DEF FInv, FreshCounters, ResetsAreComplete

LEMMA FreshInit == WebhooksInit => FInv
BY DEF WebhooksInit, FInv, FreshCounters

LEMMA FreshCountersStep == ASSUME FInv, [WebhooksNext]_webhookVars PROVE FInv'
<1>1. ASSUME NEW w \in Webhooks, Admits(w) PROVE FInv'
  <2>1. traffic' = traffic
    BY <1>1 DEF Admits
  <2>2. CASE Resets
    BY <2>1, <2>2, ResetFreshens DEF Resets, ClearedNames
  <2>3. CASE UNCHANGED budget
    BY <2>1, <2>3, CountersUntouched DEF budget
  <2> QED  BY <1>1, <2>2, <2>3 DEF Admits, TextReceived, MailReceived, ReactionReceived,
                                    SlackReceived, ExternalEvent
<1>2. ASSUME NEW c \in Chats, SendRaises(c) PROVE FInv'
  <2>1. traffic' = traffic
    BY <1>2 DEF SendRaises
  <2>2. CASE traffic.channel = "message"
    <3>1. Wakes(traffic.sync, c, "recovery")
      BY <1>2, <2>2 DEF SendRaises
    <3>2. traffic.sync \in SUBSET Keys
      BY MessageAssumption DEF FInv
    <3> QED  BY <2>1, <3>1, <3>2, FailureIsCounted
  <2>3. CASE traffic.channel # "message"
    BY <1>2, <2>1, <2>3, CountersUntouched DEF SendRaises, budget
  <2> QED  BY <2>2, <2>3
<1>3. ASSUME NEW m \in Messages, FailureReported(m) PROVE FInv'
  <2>1. PICK keys \in traffic.failed, c \in Chats : Wakes(keys, c, "failure")
    BY <1>3 DEF FailureReported
  <2>2. keys \in SUBSET Keys
    BY <2>1, MessageAssumption DEF FInv
  <2>3. ResetsAreComplete => keys \subseteq traffic.sync
    BY <2>1 DEF ResetsAreComplete
  <2>4. traffic' = traffic
    BY <1>3 DEF FailureReported
  <2> QED  BY <2>1, <2>2, <2>3, <2>4, FailureIsCounted
<1>4. ASSUME NEW m \in Messages, DeliveryReported(m) PROVE FInv'
  <2>1. PICK keys \in traffic.delivered : Clear(keys)
    BY <1>4 DEF DeliveryReported
  <2>2. ResetsAreComplete => traffic.sync \subseteq keys
    BY <2>1 DEF ResetsAreComplete
  <2>3. traffic' = traffic /\ ReplyIsFresh
    BY <1>4 DEF DeliveryReported
  <2> QED  BY <2>1, <2>2, <2>3, ResetFreshens
<1>5. ASSUME Clear(Keys) /\ ReplyIsFresh /\ traffic' = traffic PROVE FInv'
  <2>1. traffic.sync \subseteq Keys
    BY MessageAssumption DEF FInv
  <2> QED  BY <1>5, <2>1, ResetFreshens
<1>6. CASE CountersExpire
  <2>1. CASE Clear(stale) /\ UNCHANGED <<wakes, failures>>
    BY <1>6, <2>1 DEF CountersExpire, Clear, FInv, FreshCounters, ResetsAreComplete
  <2> QED  BY <1>5, <1>6, <2>1 DEF CountersExpire
<1>7. CASE Stops
  BY <1>5, <1>7 DEF Stops
<1>8. CASE \/ \E w \in Webhooks : Arrives(w) \/ HandlerFails(w)
           \/ \E c \in Chats : TurnStarts(c) \/ ToolSends(c) \/ TurnEnds(c) \/ Accepted(c)
                               \/ SendReturns(c)
           \/ WindowPasses \/ Starts \/ UNCHANGED webhookVars
  <2>1. UNCHANGED <<traffic, counter, stale, failures>>
    BY <1>8 DEF budget, webhookVars, Arrives, HandlerFails, TurnStarts, ToolSends, TurnEnds,
                Accepted, SendReturns, WindowPasses, Starts
  <2> QED  BY <2>1, CountersUntouched
<1> QED  BY <1>1, <1>2, <1>3, <1>4, <1>6, <1>7, <1>8 DEF WebhooksNext

\* _clear_outbound_failures clears all that _record_outbound_failure wrote for the reply: where
\* messages and receipts name all that failures do, no counter holds failures from before the
\* last reset, so the thread goes quiet only when its budget is spent.
THEOREM CountersAreFresh == WebhooksSpec => []CountsAreFresh
<1>1. FInv /\ [WebhooksNext]_webhookVars => FInv'
  BY FreshCountersStep
<1>2. FInv => CountsAreFresh
  BY DEF FInv, FreshCounters, CountsAreFresh
<1> QED  BY <1>1, <1>2, FreshInit, PTL DEF WebhooksSpec
-----------------------------------------------------------------------------
(* The client *)

\* What the reader, the worker and the tools pass around.
Texts == {"item", "ended"}
Bodies == ItemKinds \cup {"ok", "error", "none", "completed", "failed"}
Lines == [type : Texts \cup {"reply", "ask", "resolved"}, turn : Calls, body : Bodies]
Maybe == Turns \cup {"none"}

Workers == [at : {"idle", "initialize", "thread", "ready", "inject", "turn"}, turn : Maybe]
StopRecords == [at : {"idle", "waiting", "sent"}, found : SUBSET Turns, awaited : SUBSET Turns,
          to : Maybe, count : Nat]
Sources == [host : Nat, turn : Maybe, state : {"idle", "active", "closed"}, bound : BOOLEAN]
ToolCalls == [at : {"none", "called", "captured", "refused", "acted"}, token : Nat \cup {"none"},
              seen : [host : Nat, turn : Maybe] \cup {"none"}]
Futures == {"none", "sent", "ok", "failed"}

ClientTypes ==
  /\ worker \in Workers
  /\ proc \in {"none", "running", "gone"} /\ reader \in {"reading", "closing", "cancelled", "done"}
  /\ closing \in {"open", "waiting", "stopping", "closed"} /\ epoch \in 0 .. MaxHosts
  /\ pipe \in Seq(Lines) /\ early \in [Turns -> Seq(Lines)]
  /\ host \in [Turns -> {"none", "working", "ended", "rejected", "gone"}]
  /\ reply \in [Calls -> Futures]
  /\ starting \subseteq Turns /\ bound \subseteq Turns /\ current \in Maybe
  /\ finished \subseteq Turns /\ unbound \subseteq Turns /\ late \subseteq Calls
  /\ got \in [Turns -> Seq(Bodies)] /\ sent \in [Turns -> Seq(ItemKinds)]
  /\ DOMAIN result = Turns
  /\ \A t \in Turns : result[t] = NoResult \/ result[t].kind \in {"failed", "answer"}
  /\ call \in [Turns -> {"idle", "starting", "waiting", "done"}]
  /\ ask \in [Turns -> {"none", "sent", "open", "unwinding", "over"}]
  /\ stop \in StopRecords /\ auth \in Sources /\ tool \in [Turns -> ToolCalls]
  /\ present \subseteq Turns

\* The worker runs one turn at a time.
OneTurn ==
  /\ worker.at = "idle" <=> worker.turn = "none"
  /\ worker.at \in {"initialize", "thread", "ready", "inject"} => call[worker.turn] = "idle"
  /\ worker.at = "turn" => call[worker.turn] # "idle"
  /\ \A t \in Turns : InFlight(t) => worker = [at |-> "turn", turn |-> t]

\* What a turn leaves behind belongs to a turn that was submitted.
Untried ==
  \A t \in Turns : call[t] = "idle" =>
    /\ host[t] = "none" /\ sent[t] = <<>> /\ got[t] = <<>> /\ early[t] = <<>>
    /\ result[t] = NoResult /\ ask[t] = "none" /\ t \notin present
    /\ reply[t] = "none"
\* Lines are about turns that were submitted; an error answers a turn that was rejected.
PipeInv ==
  \A i \in DOMAIN pipe :
    /\ pipe[i].type # "reply" => pipe[i].turn \in Turns /\ call[pipe[i].turn] # "idle"
    /\ pipe[i].type = "ask" => ask[pipe[i].turn] # "none"
    /\ pipe[i].type = "reply" /\ pipe[i].body # "ok" /\ pipe[i].turn \in Turns
         => host[pipe[i].turn] = "rejected"
\* A closed client has no output, and a turn that was rejected asks nothing.
HostInv ==
  /\ closing = "closed" => pipe = <<>> /\ proc = "none" /\ reader = "done"
                           /\ \A t \in Turns : host[t] \in {"none", "gone"}
  /\ reader = "reading" => closing = "open"
  /\ reader = "closing" => closing = "open"
  /\ reader = "cancelled" => closing # "open"
  /\ \A t \in Turns : host[t] = "rejected" => ask[t] = "none"

\* A turn's start is outstanding, or the turn is bound, or its capture was failed.
BindInv ==
  /\ starting \cap bound = {}
  /\ \A t \in starting : call[t] = "starting" /\ reply[t] \in {"sent", "failed"}
  /\ \A t \in bound : \/ call[t] = "starting" /\ reply[t] \in {"ok", "failed"}
                      \/ call[t] = "waiting"
  /\ \A t \in Turns :
       /\ call[t] = "starting" => reply[t] \in {"sent", "ok", "failed"}
       /\ reply[t] \in {"sent", "ok"} => call[t] = "starting"
       /\ call[t] = "starting" /\ reply[t] = "sent" => t \in starting
       /\ (call[t] = "starting" /\ reply[t] = "ok") \/ call[t] = "waiting"
            => t \in bound \/ result[t] # NoResult

\* The lines of a turn, in the order of the pipe, are its lines from one number to another.
OfTurn(line, t) == line.turn = t /\ line.type \in Texts
Numbers(f, lo, hi, s, t) ==
  /\ f \in [lo .. hi -> 1 .. Len(s)]
  /\ \A i, k \in lo .. hi : i < k => f[i] < f[k]
  /\ \A i \in lo .. hi : OfTurn(s[f[i]], t)
  /\ \A p \in 1 .. Len(s) : OfTurn(s[p], t) => \E i \in lo .. hi : f[i] = p
IsNth(line, t, i, s) ==
  IF i <= Len(s) THEN line = Line("item", t, s[i])
  ELSE line.turn = t /\ line.type = "ended"
Indexed(f, lo, hi, s, t, items) ==
  Numbers(f, lo, hi, s, t) /\ \A i \in lo .. hi : IsNth(s[f[i]], t, i, items)
Total(t) == IF host[t] = "ended" THEN Len(sent[t]) + 1 ELSE Len(sent[t])
Received(t) == Len(got[t]) + Len(early[t])
Tracked(t) ==
  InFlight(t) /\ result[t] = NoResult /\ reader = "reading"
  /\ ~(call[t] = "starting" /\ reply[t] = "failed")
Whole(t) ==
  /\ Len(got[t]) <= Len(sent[t]) /\ \A i \in 1 .. Len(got[t]) : got[t][i] = sent[t][i]
  /\ Received(t) <= Total(t)
  /\ \A i \in 1 .. Len(early[t]) : IsNth(early[t][i], t, Len(got[t]) + i, sent[t])
  /\ \E f : Indexed(f, Received(t) + 1, Total(t), pipe, t, sent[t])
  /\ t \in bound => early[t] = <<>>
NumberedInv == \A t \in Turns : Tracked(t) => Whole(t)

\* An answer was made when the app-server had ended the turn, from all of its items.
AnswerInv ==
  \A t \in Turns : result[t].kind = "answer" /\ ~(call[t] = "starting" /\ reply[t] = "failed") =>
    /\ host[t] \in {"ended", "gone"}
    /\ result[t].text = FinalMessage(sent[t]) /\ result[t].tools = Of(sent[t], "tool")

\* An open question is that of a turn which has no result yet.
AskInv ==
  /\ QuestionsOfLiveTurns
  /\ \A t \in Turns : ask[t] = "open" =>
       reader = "reading" /\ (result[t] = NoResult \/ t \in unbound)
\* While the reader reads: how turns ended, and that a question is never read for a turn
\* that somebody waited for and that is over.
LineInv ==
  reader = "reading" =>
    /\ \A t \in Turns :
         /\ call[t] = "starting" /\ reply[t] = "failed" => t \in unbound \/ host[t] = "rejected"
         /\ InFlight(t) /\ result[t] # NoResult => t \in finished \/ t \in unbound
         /\ call[t] = "done" /\ host[t] \in {"working", "ended"} => t \in finished \/ t \in unbound
    /\ \A i \in DOMAIN pipe : pipe[i].type = "ask" =>
         pipe[i].turn \in finished \cup unbound \/ InFlight(pipe[i].turn)

\* Nothing is read any more, and the waiters were failed.
Drained == reader = "closing" \/ (reader = "done" /\ closing # "waiting")
           \/ closing \in {"stopping", "closed"}
DrainInv ==
  Drained =>
    /\ \A c \in Calls : reply[c] = "sent" => c \in late
    /\ \A t \in Turns : call[t] = "waiting" /\ result[t] = NoResult => t \in late
    /\ \A t \in bound : result[t] # NoResult

\* What an interrupt found was under way when it arrived; an active source is that of the
\* turn the worker is at, and not of one that was stopped.
StopInv == stop.at # "idle" => stop.found \subseteq present
AuthInv ==
  /\ auth.host = epoch
  /\ auth.state = "active" => /\ worker = [at |-> "turn", turn |-> auth.turn]
                              /\ stop.count > 0 => auth.turn \notin present
ToolInv == \A t \in Turns \ Shell : tool[t].at = "captured" => tool[t].seen.turn = t

ClientInv ==
  /\ ClientTypes /\ OneTurn /\ Untried /\ PipeInv /\ HostInv /\ BindInv /\ NumberedInv /\ AnswerInv
  /\ AskInv /\ LineInv /\ DrainInv /\ StopInv /\ AuthInv /\ ToolInv
-----------------------------------------------------------------------------
\* A line at the end of the pipe gets the next number, if it is one of the turn's.
LEMMA IndexedAppend ==
  ASSUME NEW s \in Seq(Lines), NEW line \in Lines, NEW t, NEW lo \in Nat \ {0}, NEW hi \in Nat,
         lo <= hi + 1, NEW f, NEW x, Indexed(f, lo, hi, s, t, x)
  PROVE  /\ ~OfTurn(line, t) => Indexed(f, lo, hi, Append(s, line), t, x)
         /\ \A y : /\ OfTurn(line, t) /\ IsNth(line, t, hi + 1, y)
                   /\ \A l, i : i \in lo .. hi /\ IsNth(l, t, i, x) => IsNth(l, t, i, y)
                   => \E g : Indexed(g, lo, hi + 1, Append(s, line), t, y)
<1> DEFINE r == Append(s, line)
<1>1. /\ Len(s) \in Nat /\ Len(r) = Len(s) + 1 /\ r[Len(s) + 1] = line
      /\ \A i \in 1 .. Len(s) : r[i] = s[i]
  BY AppendProperties, LenProperties
<1> HIDE DEF r
<1>2. /\ f \in [lo .. hi -> 1 .. Len(s)]
      /\ \A i, k \in lo .. hi : i < k => f[i] < f[k]
      /\ \A i \in lo .. hi : OfTurn(s[f[i]], t)
      /\ \A p \in 1 .. Len(s) : OfTurn(s[p], t) => \E i \in lo .. hi : f[i] = p
  BY DEF Numbers, Indexed
<1>3. \A i \in lo .. hi : r[f[i]] = s[f[i]]
  BY <1>1, <1>2
<1>4. ASSUME ~OfTurn(line, t) PROVE Numbers(f, lo, hi, r, t)
  <2>1. f \in [lo .. hi -> 1 .. Len(r)]
    BY <1>1, <1>2
  <2>3. \A i \in lo .. hi : OfTurn(r[f[i]], t)
    BY <1>2, <1>3
  <2>2. ASSUME NEW p \in 1 .. Len(r), OfTurn(r[p], t) PROVE \E i \in lo .. hi : f[i] = p
    <3>1. p \in 1 .. Len(s) /\ r[p] = s[p]
      BY <1>1, <1>4, <2>2
    <3> QED  BY <1>2, <2>2, <3>1
  <2> QED  BY <1>2, <2>1, <2>2, <2>3 DEF Numbers
<1>5. ASSUME OfTurn(line, t)
      PROVE  \E g : /\ Numbers(g, lo, hi + 1, r, t) /\ r[g[hi + 1]] = line
                    /\ \A i \in lo .. hi : g[i] = f[i]
  <2> DEFINE g == [i \in lo .. hi + 1 |-> IF i <= hi THEN f[i] ELSE Len(s) + 1]
  <2>1. g \in [lo .. hi + 1 -> 1 .. Len(r)] /\ g[hi + 1] = Len(s) + 1
        /\ \A i \in lo .. hi : g[i] = f[i]
    BY <1>1, <1>2
  <2>2. ASSUME NEW i \in lo .. hi + 1, NEW k \in lo .. hi + 1, i < k PROVE g[i] < g[k]
    BY <1>1, <1>2, <2>2
  <2>3. ASSUME NEW p \in 1 .. Len(r), OfTurn(r[p], t) PROVE \E i \in lo .. hi + 1 : g[i] = p
    <3>1. CASE p = Len(s) + 1
      BY <2>1, <3>1
    <3>2. CASE p # Len(s) + 1
      <4>1. p \in 1 .. Len(s) /\ r[p] = s[p]
        BY <1>1, <3>2
      <4>2. PICK i \in lo .. hi : f[i] = p
        BY <1>2, <2>3, <4>1
      <4> QED  BY <2>1, <4>2
    <3> QED  BY <3>1, <3>2
  <2>4. ASSUME NEW i \in lo .. hi + 1 PROVE OfTurn(r[g[i]], t)
    BY <1>1, <1>2, <1>3, <1>5, <2>1
  <2>5. Numbers(g, lo, hi + 1, r, t)
    <3> HIDE DEF g
    <3> QED  BY <2>1, <2>2, <2>3, <2>4 DEF Numbers
  <2> HIDE DEF g
  <2> QED  BY <1>1, <2>1, <2>5
<1>6. \A i \in lo .. hi : IsNth(s[f[i]], t, i, x)
  BY DEF Indexed
<1>7. ~OfTurn(line, t) => Indexed(f, lo, hi, r, t, x)
  BY <1>3, <1>4, <1>6 DEF Indexed
<1>8. ASSUME NEW y, OfTurn(line, t), IsNth(line, t, hi + 1, y),
             \A l, i : i \in lo .. hi /\ IsNth(l, t, i, x) => IsNth(l, t, i, y)
      PROVE  \E g : Indexed(g, lo, hi + 1, r, t, y)
  <2>1. PICK g : /\ Numbers(g, lo, hi + 1, r, t) /\ r[g[hi + 1]] = line
                 /\ \A i \in lo .. hi : g[i] = f[i]
    BY <1>5, <1>8
  <2>2. ASSUME NEW i \in lo .. hi + 1 PROVE IsNth(r[g[i]], t, i, y)
    <3>1. CASE i = hi + 1
      BY <1>8, <2>1, <3>1
    <3>2. CASE i # hi + 1
      <4>1. i \in lo .. hi
        BY <3>2
      <4>2. r[g[i]] = s[f[i]]
        BY <1>3, <2>1, <4>1
      <4> QED  BY <1>6, <1>8, <4>1, <4>2
    <3> QED  BY <3>1, <3>2
  <2> QED  BY <2>1, <2>2 DEF Indexed
<1> QED  BY <1>7, <1>8 DEF r

\* The line at the head of the pipe has the first number, if it is one of the turn's.
LEMMA IndexedTail ==
  ASSUME NEW s \in Seq(Lines), s # <<>>, NEW t, NEW lo \in Nat \ {0}, NEW hi \in Nat,
         NEW f, NEW x, Indexed(f, lo, hi, s, t, x)
  PROVE  /\ ~OfTurn(Head(s), t) => \E g : Indexed(g, lo, hi, Tail(s), t, x)
         /\ OfTurn(Head(s), t) => /\ lo <= hi /\ IsNth(Head(s), t, lo, x)
                                  /\ \E g : Indexed(g, lo + 1, hi, Tail(s), t, x)
<1> DEFINE r == Tail(s)
<1>1. /\ Len(s) \in Nat /\ Len(s) # 0 /\ Len(r) = Len(s) - 1 /\ Head(s) = s[1]
      /\ \A i \in 1 .. Len(r) : r[i] = s[i + 1]
  BY HeadTailProperties, LenProperties, EmptySeq
<1> HIDE DEF r
<1>2. /\ f \in [lo .. hi -> 1 .. Len(s)]
      /\ \A i, k \in lo .. hi : i < k => f[i] < f[k]
      /\ \A i \in lo .. hi : OfTurn(s[f[i]], t)
      /\ \A p \in 1 .. Len(s) : OfTurn(s[p], t) => \E i \in lo .. hi : f[i] = p
  BY DEF Numbers, Indexed
<1>3. ASSUME NEW m \in {lo, lo + 1}, \A i \in m .. hi : f[i] # 1,
             \A i \in lo .. hi : i < m => f[i] = 1
      PROVE  \E g : /\ Numbers(g, m, hi, r, t)
                    /\ \A i \in m .. hi : r[g[i]] = s[f[i]]
  <2> DEFINE g == [i \in m .. hi |-> f[i] - 1]
  <2>1. \A i \in m .. hi : i \in lo .. hi /\ g[i] = f[i] - 1 /\ g[i] \in 1 .. Len(r)
    BY <1>1, <1>2, <1>3
  <2>2. g \in [m .. hi -> 1 .. Len(r)]
    BY <2>1
  <2>3. ASSUME NEW i \in m .. hi, NEW k \in m .. hi, i < k PROVE g[i] < g[k]
    <3>1. f[i] < f[k] /\ f[i] \in Nat /\ f[k] \in Nat
      BY <1>1, <1>2, <2>1, <2>3
    <3> QED  BY <2>1, <3>1
  <2>4. ASSUME NEW p \in 1 .. Len(r), OfTurn(r[p], t) PROVE \E i \in m .. hi : g[i] = p
    <3>1. p + 1 \in 1 .. Len(s) /\ r[p] = s[p + 1]
      BY <1>1
    <3>2. PICK i \in lo .. hi : f[i] = p + 1
      BY <1>2, <2>4, <3>1
    <3>3. i \in m .. hi
      BY <1>3, <3>2
    <3> QED  BY <2>1, <3>2, <3>3
  <2>5. \A i \in m .. hi : r[g[i]] = s[f[i]]
    BY <1>1, <1>2, <2>1
  <2>7. \A i \in m .. hi : OfTurn(r[g[i]], t)
    BY <1>2, <2>1, <2>5
  <2> HIDE DEF g
  <2>6. Numbers(g, m, hi, r, t)
    BY <2>2, <2>3, <2>4, <2>7 DEF Numbers
  <2> QED  BY <2>5, <2>6
<1>4. ASSUME ~OfTurn(Head(s), t) PROVE \A i \in lo .. hi : f[i] # 1
  BY <1>1, <1>2, <1>4
<1>5. ASSUME OfTurn(Head(s), t)
      PROVE  lo <= hi /\ f[lo] = 1 /\ \A i \in lo + 1 .. hi : f[i] # 1
  <2>1. PICK i \in lo .. hi : f[i] = 1
    BY <1>1, <1>2, <1>5
  <2>2. \A k \in lo .. hi : f[k] \in 1 .. Len(s)
    BY <1>2
  <2>3. i = lo
    <3>1. lo \in lo .. hi
      OBVIOUS
    <3>2. CASE lo < i
      BY <1>1, <1>2, <2>1, <2>2, <3>1, <3>2
    <3> QED  BY <3>2
  <2>4. \A k \in lo + 1 .. hi : k \in lo .. hi /\ lo < k
    OBVIOUS
  <2> QED  BY <1>2, <2>1, <2>3, <2>4
<1>6. \A i \in lo .. hi : ~(i < lo)
  OBVIOUS
<1>7. \A i \in lo .. hi : i < lo + 1 => i = lo
  OBVIOUS
<1>8. ASSUME ~OfTurn(Head(s), t)
      PROVE  \E g : Numbers(g, lo, hi, r, t) /\ \A i \in lo .. hi : r[g[i]] = s[f[i]]
  <2>1. lo \in {lo, lo + 1}
    OBVIOUS
  <2> QED  BY <1>3, <1>4, <1>6, <1>8, <2>1
<1>9. ASSUME OfTurn(Head(s), t)
      PROVE  \E g : Numbers(g, lo + 1, hi, r, t) /\ \A i \in lo + 1 .. hi : r[g[i]] = s[f[i]]
  <2>1. lo + 1 \in {lo, lo + 1}
    OBVIOUS
  <2> QED  BY <1>3, <1>5, <1>7, <1>9, <2>1
<1>10. \A i \in lo .. hi : IsNth(s[f[i]], t, i, x)
  BY DEF Indexed
<1>11. ASSUME ~OfTurn(Head(s), t) PROVE \E g : Indexed(g, lo, hi, r, t, x)
  <2>1. PICK g : Numbers(g, lo, hi, r, t) /\ \A i \in lo .. hi : r[g[i]] = s[f[i]]
    BY <1>8, <1>11
  <2>2. \A i \in lo .. hi : IsNth(r[g[i]], t, i, x)
    BY <1>10, <2>1
  <2> QED  BY <2>1, <2>2 DEF Indexed
<1>12. ASSUME OfTurn(Head(s), t)
       PROVE  /\ lo <= hi /\ IsNth(Head(s), t, lo, x)
              /\ \E g : Indexed(g, lo + 1, hi, r, t, x)
  <2>1. PICK g : Numbers(g, lo + 1, hi, r, t) /\ \A i \in lo + 1 .. hi : r[g[i]] = s[f[i]]
    BY <1>9, <1>12
  <2>2. \A i \in lo + 1 .. hi : IsNth(r[g[i]], t, i, x)
    <3> TAKE i \in lo + 1 .. hi
    <3>1. i \in lo .. hi
      OBVIOUS
    <3> QED  BY <1>10, <2>1, <3>1
  <2>3. lo <= hi /\ lo \in lo .. hi /\ s[f[lo]] = Head(s)
    BY <1>1, <1>5, <1>12
  <2>4. IsNth(Head(s), t, lo, x)
    BY <1>10, <2>3
  <2>5. \E h : Indexed(h, lo + 1, hi, r, t, x)
    BY <2>1, <2>2 DEF Indexed
  <2> QED  BY <2>3, <2>4, <2>5
<1> QED  BY <1>11, <1>12 DEF r
-----------------------------------------------------------------------------
\* Names and results are told apart.
LEMMA ResultKinds == NoResult.kind = "none" /\ Failed.kind = "failed" /\ NoResult # Failed
BY DEF NoResult, Failed

LEMMA Names ==
  /\ Turns \subseteq Calls /\ {"initialize", "thread", "inject", "interrupt"} \subseteq Calls
  /\ "none" \notin Turns /\ "initialize" \notin Turns /\ "thread" \notin Turns
  /\ "inject" \notin Turns /\ "interrupt" \notin Turns
  /\ "none" \in Maybe /\ \A t \in Turns : t \in Maybe /\ t # "none"
  /\ \A m \in Maybe : m = "none" \/ m \in Turns
  /\ MaxHosts \in Nat /\ MaxStops \in Nat
BY ClientAssumption DEF Calls, Maybe

LEMMA NumberedKept ==
  ASSUME NumberedInv, UNCHANGED <<sent, got, pipe>>,
         \A t \in Turns : Tracked(t)' =>
           /\ Tracked(t) /\ early'[t] = early[t] /\ (t \in bound' => t \in bound)
           /\ (host'[t] = "ended" <=> host[t] = "ended")
  PROVE  NumberedInv'
<1> SUFFICES ASSUME NEW t \in Turns, Tracked(t)' PROVE Whole(t)'
  BY DEF NumberedInv
<1>1. /\ Whole(t) /\ early'[t] = early[t] /\ (t \in bound' => t \in bound)
      /\ (host'[t] = "ended" <=> host[t] = "ended")
      /\ sent' = sent /\ got' = got /\ pipe' = pipe
  BY DEF NumberedInv
<1>2. Received(t)' = Received(t) /\ Total(t)' = Total(t)
  BY <1>1 DEF Received, Total
<1> QED  BY <1>1, <1>2 DEF Whole

LEMMA Appended ==
  ASSUME NEW s \in Seq(Lines), NEW line \in Lines, NEW r, r = Append(s, line)
  PROVE  /\ r \in Seq(Lines) /\ r # <<>>
         /\ \A i \in DOMAIN r : (i \in DOMAIN s /\ r[i] = s[i]) \/ r[i] = line
<1>1. /\ r \in Seq(Lines) /\ Len(s) \in Nat /\ Len(r) = Len(s) + 1 /\ r[Len(s) + 1] = line
      /\ \A i \in 1 .. Len(s) : r[i] = s[i]
  BY AppendProperties, LenProperties
<1>2. DOMAIN r = 1 .. Len(s) + 1 /\ DOMAIN s = 1 .. Len(s)
  BY <1>1, LenProperties
<1> QED  BY <1>1, <1>2

LEMMA ReadOff ==
  ASSUME NEW s \in Seq(Lines), s # <<>>, NEW r, r = Tail(s)
  PROVE  /\ r \in Seq(Lines) /\ 1 \in DOMAIN s /\ Head(s) = s[1] /\ Head(s) \in Lines
         /\ \A i \in DOMAIN r : \E k \in DOMAIN s : r[i] = s[k]
<1>1. /\ r \in Seq(Lines) /\ Len(s) \in Nat /\ Len(s) # 0 /\ Len(r) = Len(s) - 1
      /\ Head(s) = s[1] /\ Head(s) \in Lines
      /\ \A i \in 1 .. Len(r) : r[i] = s[i + 1]
  BY HeadTailProperties, LenProperties, EmptySeq
<1>2. DOMAIN r = 1 .. Len(s) - 1 /\ DOMAIN s = 1 .. Len(s)
  BY <1>1, LenProperties
<1>3. ASSUME NEW i \in DOMAIN r PROVE \E k \in DOMAIN s : r[i] = s[k]
  <2>1. i + 1 \in DOMAIN s /\ r[i] = s[i + 1]
    BY <1>1, <1>2
  <2> QED  BY <2>1
<1> QED  BY <1>1, <1>2, <1>3

\* A line that is none of a turn's comes or goes.
Other(t) ==
  \/ \E line \in Lines : ~OfTurn(line, t) /\ pipe' = Append(pipe, line)
  \/ pipe # <<>> /\ ~OfTurn(Head(pipe), t) /\ pipe' = Tail(pipe)

LEMMA Counts ==
  ASSUME ClientTypes, NEW t \in Turns
  PROVE  /\ Received(t) \in Nat /\ Total(t) \in Nat /\ Len(got[t]) \in Nat /\ Len(early[t]) \in Nat
         /\ Len(sent[t]) \in Nat /\ Received(t) = Len(got[t]) + Len(early[t])
         /\ Total(t) \in {Len(sent[t]), Len(sent[t]) + 1}
         /\ (Total(t) = Len(sent[t]) + 1 <=> host[t] = "ended")
<1>1. Len(got[t]) \in Nat /\ Len(early[t]) \in Nat /\ Len(sent[t]) \in Nat
  BY LenProperties DEF ClientTypes
<1>2. Received(t) \in Nat /\ Received(t) = Len(got[t]) + Len(early[t])
  BY <1>1 DEF Received, ClientTypes
<1>3. CASE host[t] = "ended"
  BY <1>1, <1>2, <1>3 DEF Total, ClientTypes
<1>4. CASE host[t] # "ended"
  BY <1>1, <1>2, <1>4 DEF Total, ClientTypes
<1> QED  BY <1>3, <1>4

LEMMA Reindexed ==
  ASSUME ClientTypes, NEW t \in Turns, Whole(t), Other(t)
  PROVE  \E g : Indexed(g, Received(t) + 1, Total(t), pipe', t, sent[t])
<1>1. PICK f : Indexed(f, Received(t) + 1, Total(t), pipe, t, sent[t])
  BY DEF Whole
<1>2. /\ Received(t) + 1 \in Nat \ {0} /\ Total(t) \in Nat /\ Received(t) + 1 <= Total(t) + 1
      /\ pipe \in Seq(Lines)
  BY Counts DEF Whole, ClientTypes
<1>3. CASE \E line \in Lines : ~OfTurn(line, t) /\ pipe' = Append(pipe, line)
  BY <1>1, <1>2, <1>3, IndexedAppend
<1>4. CASE pipe # <<>> /\ ~OfTurn(Head(pipe), t) /\ pipe' = Tail(pipe)
  BY <1>1, <1>2, <1>4, IndexedTail
<1> QED  BY <1>3, <1>4 DEF Other

LEMMA WholeAlong ==
  ASSUME ClientTypes, NEW t \in Turns, Whole(t), Other(t),
         sent'[t] = sent[t], got'[t] = got[t], early'[t] = early[t], t \in bound' => t \in bound,
         host'[t] = "ended" <=> host[t] = "ended"
  PROVE  Whole(t)'
<1>1. Received(t)' = Received(t) /\ Total(t)' = Total(t)
  BY DEF Received, Total
<1>2. PICK g : Indexed(g, Received(t) + 1, Total(t), pipe', t, sent[t])
  BY Reindexed
<1>3. \E f : Indexed(f, Received(t)' + 1, Total(t)', pipe', t, sent'[t])
  BY <1>1, <1>2
<1>4. /\ Len(got[t]) <= Len(sent[t]) /\ \A i \in 1 .. Len(got[t]) : got[t][i] = sent[t][i]
      /\ Received(t) <= Total(t)
      /\ \A i \in 1 .. Len(early[t]) : IsNth(early[t][i], t, Len(got[t]) + i, sent[t])
      /\ t \in bound => early[t] = <<>>
  BY DEF Whole
<1> QED  BY <1>1, <1>3, <1>4 DEF Whole

BodyOf(lines) == [i \in DOMAIN lines |-> lines[i].body]
Ends(lines) == lines # <<>> /\ Last(lines).type = "ended"

LEMMA BodyOfLines ==
  ASSUME NEW lines \in Seq(Lines)
  PROVE  /\ BodyOf(lines) \in Seq(Bodies) /\ Len(BodyOf(lines)) = Len(lines)
         /\ \A i \in 1 .. Len(lines) : BodyOf(lines)[i] = lines[i].body
<1>1. /\ Len(lines) \in Nat /\ DOMAIN lines = 1 .. Len(lines)
      /\ \A i \in 1 .. Len(lines) : lines[i] \in Lines
  BY LenProperties
<1>2. \A i \in 1 .. Len(lines) : lines[i].body \in Bodies
  BY <1>1 DEF Lines
<1>3. [i \in 1 .. Len(lines) |-> lines[i].body] \in Seq(Bodies)
  BY <1>1, <1>2, IsASeq
<1>4. BodyOf(lines) = [i \in 1 .. Len(lines) |-> lines[i].body]
  BY <1>1 DEF BodyOf
<1> QED  BY <1>1, <1>3, <1>4, LenProperties

\* The items of a turn, and the bodies of n of its lines after them.
Joins(items, a, lines, n) ==
  /\ items \in Seq(Bodies) /\ Len(items) = Len(a) + n
  /\ \A i \in 1 .. Len(a) : items[i] = a[i]
  /\ \A i \in 1 .. n : items[Len(a) + i] = lines[i].body

LEMMA Concatenated ==
  ASSUME NEW a \in Seq(Bodies), NEW b \in Seq(Bodies)
  PROVE  /\ a \o b \in Seq(Bodies) /\ Len(a \o b) = Len(a) + Len(b)
         /\ \A i \in 1 .. Len(a) : (a \o b)[i] = a[i]
         /\ \A i \in 1 .. Len(b) : (a \o b)[Len(a) + i] = b[i]
BY ConcatProperties, LenProperties

LEMMA Joined ==
  ASSUME NEW a \in Seq(Bodies), NEW b \in Seq(Bodies), NEW lines, NEW n \in Nat, Len(b) = n,
         \A i \in 1 .. n : b[i] = lines[i].body
  PROVE  Joins(a \o b, a, lines, n)
<1>1. /\ a \o b \in Seq(Bodies) /\ Len(a \o b) = Len(a) + Len(b)
      /\ \A i \in 1 .. Len(a) : (a \o b)[i] = a[i]
      /\ \A i \in 1 .. Len(b) : (a \o b)[Len(a) + i] = b[i]
  BY Concatenated
<1> QED  BY <1>1 DEF Joins

LEMMA FrontOf ==
  ASSUME NEW b \in Seq(Bodies), NEW lines, NEW n \in Nat, Len(b) = n, n # 0,
         \A i \in 1 .. n : b[i] = lines[i].body
  PROVE  /\ Front(b) \in Seq(Bodies) /\ Len(Front(b)) = n - 1
         /\ \A i \in 1 .. n - 1 : Front(b)[i] = lines[i].body
<1>1. 1 \in Int /\ n - 1 \in Int /\ \A i \in 1 .. n - 1 : b[i] \in Bodies
  BY LenProperties
<1>2. /\ SubSeq(b, 1, n - 1) \in Seq(Bodies)
      /\ Len(SubSeq(b, 1, n - 1)) = IF 1 <= n - 1 THEN n - 1 - 1 + 1 ELSE 0
      /\ \A i \in 1 .. n - 1 - 1 + 1 : SubSeq(b, 1, n - 1)[i] = b[1 + i - 1]
  BY <1>1, SubSeqProperties
<1>3. ASSUME NEW i \in 1 .. n - 1 PROVE SubSeq(b, 1, n - 1)[i] = lines[i].body
  <2>1. i \in 1 .. n - 1 - 1 + 1 /\ 1 + i - 1 = i /\ i \in 1 .. n
    OBVIOUS
  <2> QED  BY <1>2, <2>1
<1>4. Front(b) = SubSeq(b, 1, n - 1)
  BY DEF Front
<1> QED  BY <1>2, <1>3, <1>4

\* What a turn has captured after some of its lines were delivered.
Captured(t, lines) ==
  /\ got' \in [Turns -> Seq(Bodies)] /\ \A u \in Turns \ {t} : got'[u] = got[u]
  /\ Joins(got'[t], got[t], lines, IF Ends(lines) THEN Len(lines) - 1 ELSE Len(lines))

LEMMA DeliverCaptures ==
  ASSUME ClientTypes, NEW t \in Turns, NEW lines \in Seq(Lines), Deliver(t, lines)
  PROVE  /\ Captured(t, lines)
         /\ Ends(lines) => got'[t] = got[t] \o Front(BodyOf(lines))
         /\ ~Ends(lines) => got'[t] = got[t] \o BodyOf(lines)
<1> DEFINE items == got[t] \o (IF Ends(lines) THEN Front(BodyOf(lines)) ELSE BodyOf(lines))
<1>1. got' = [got EXCEPT ![t] = items] /\ got \in [Turns -> Seq(Bodies)]
  BY DEF Deliver, Ends, BodyOf, ClientTypes
<1>2. Len(lines) \in Nat /\ got[t] \in Seq(Bodies) /\ (Ends(lines) => Len(lines) # 0)
  BY <1>1, LenProperties, EmptySeq DEF Ends
<1>3. CASE Ends(lines)
  <2>1. /\ Front(BodyOf(lines)) \in Seq(Bodies) /\ Len(Front(BodyOf(lines))) = Len(lines) - 1
        /\ \A i \in 1 .. Len(lines) - 1 : Front(BodyOf(lines))[i] = lines[i].body
    <3>1. /\ BodyOf(lines) \in Seq(Bodies) /\ Len(BodyOf(lines)) = Len(lines)
          /\ \A i \in 1 .. Len(lines) : BodyOf(lines)[i] = lines[i].body
      BY BodyOfLines
    <3>2. Len(lines) \in Nat /\ Len(lines) # 0
      BY <1>2, <1>3
    <3> HIDE DEF items
    <3> QED  BY <3>1, <3>2, FrontOf
  <2>2. items = got[t] \o Front(BodyOf(lines)) /\ Len(lines) - 1 \in Nat
    BY <1>2, <1>3
  <2>3. Joins(items, got[t], lines, Len(lines) - 1)
    BY <1>2, <2>1, <2>2, Joined
  <2> HIDE DEF items
  <2>5. items \in Seq(Bodies)
    BY <2>3 DEF Joins
  <2>4. got'[t] = items /\ got' \in [Turns -> Seq(Bodies)] /\ \A u \in Turns \ {t} : got'[u] = got[u]
    BY <1>1, <2>5
  <2> QED  BY <1>3, <2>2, <2>3, <2>4 DEF Captured
<1>4. CASE ~Ends(lines)
  <2>1. items = got[t] \o BodyOf(lines)
    BY <1>4
  <2>3. Joins(items, got[t], lines, Len(lines))
    BY <1>2, <2>1, BodyOfLines, Joined
  <2> HIDE DEF items
  <2>5. items \in Seq(Bodies)
    BY <2>3 DEF Joins
  <2>4. got'[t] = items /\ got' \in [Turns -> Seq(Bodies)] /\ \A u \in Turns \ {t} : got'[u] = got[u]
    BY <1>1, <2>5
  <2> QED  BY <1>4, <2>1, <2>3, <2>4 DEF Captured
<1> QED  BY <1>3, <1>4

LEMMA DeliverSettles ==
  ASSUME ClientTypes, NEW t \in Turns, NEW lines \in Seq(Lines), Deliver(t, lines)
  PROVE  /\ ~Ends(lines) => UNCHANGED <<finished, ask, result>>
         /\ Ends(lines) =>
              /\ finished' = finished \cup {t}
              /\ ask' = Cancelled({t})
              /\ DOMAIN result' = Turns /\ \A u \in Turns \ {t} : result'[u] = result[u]
              /\ result[t] # NoResult => result'[t] = result[t]
              /\ result[t] = NoResult =>
                   \/ result'[t] = Failed
                   \/ result'[t] = [kind |-> "answer", text |-> FinalMessage(got'[t]),
                                    tools |-> Of(got'[t], "tool")]
<1>1. Ends(lines) => got'[t] = got[t] \o Front(BodyOf(lines))
  BY DeliverCaptures
<1>2. CASE ~Ends(lines)
  BY <1>2 DEF Deliver, Ends
<1>3. CASE Ends(lines)
  <2>1. /\ finished' = finished \cup {t} /\ ask' = Cancelled({t})
        /\ result' = IF result[t] = NoResult
                     THEN [result EXCEPT ![t] = ResultOf(got'[t], Last(BodyOf(lines)))] ELSE result
    BY <1>1, <1>3 DEF Deliver, Ends, BodyOf
  <2>2. DOMAIN result = Turns
    BY DEF ClientTypes
  <2>3. \A st : \/ ResultOf(got'[t], st) = Failed
                \/ ResultOf(got'[t], st) = [kind |-> "answer", text |-> FinalMessage(got'[t]),
                                            tools |-> Of(got'[t], "tool")]
    BY DEF ResultOf
  <2>4. CASE result[t] = NoResult
    <3>1. result' = [result EXCEPT ![t] = ResultOf(got'[t], Last(BodyOf(lines)))]
      BY <2>1, <2>4
    <3> DEFINE r == ResultOf(got'[t], Last(BodyOf(lines)))
    <3>2. r = Failed \/ r = [kind |-> "answer", text |-> FinalMessage(got'[t]),
                                            tools |-> Of(got'[t], "tool")]
      BY <2>3
    <3> HIDE DEF r
    <3>3. result'[t] = r /\ DOMAIN result' = Turns /\ \A u \in Turns \ {t} : result'[u] = result[u]
      BY <2>2, <3>1 DEF r
    <3> QED  BY <2>1, <2>4, <3>2, <3>3, <1>3
  <2>5. CASE result[t] # NoResult
    BY <2>1, <2>2, <2>5, <1>3
  <2> QED  BY <2>4, <2>5
<1> QED  BY <1>2, <1>3

LEMMA EndResolves ==
  ASSUME ClientTypes, NEW t \in Turns, NEW lines \in Seq(Lines), Deliver(t, lines), Ends(lines),
         result[t] = NoResult
  PROVE  result'[t] # NoResult
<1>1. \/ result'[t] = Failed
      \/ result'[t] = [kind |-> "answer", text |-> FinalMessage(got'[t]), tools |-> Of(got'[t], "tool")]
  BY DeliverSettles
<1> QED  BY <1>1, ResultKinds

\* The lines that wait for a turn, or the next one in the pipe, are its next items.
Follows(a, x, lines, t, tot) ==
  /\ Len(a) <= Len(x) /\ \A i \in 1 .. Len(a) : a[i] = x[i]
  /\ Len(a) + Len(lines) <= tot
  /\ \A i \in 1 .. Len(lines) : IsNth(lines[i], t, Len(a) + i, x)
Reaches(items, a, x, lines, tot) ==
  /\ Ends(lines) => items = x /\ tot = Len(x) + 1
  /\ ~Ends(lines) => /\ Len(items) = Len(a) + Len(lines) /\ Len(items) <= Len(x)
                     /\ \A i \in 1 .. Len(items) : items[i] = x[i]

LEMMA NextItems ==
  ASSUME NEW a \in Seq(Bodies), NEW x \in Seq(ItemKinds), NEW lines \in Seq(Lines), NEW t, NEW items,
         NEW tot \in {Len(x), Len(x) + 1}, Follows(a, x, lines, t, tot),
         Joins(items, a, lines, IF Ends(lines) THEN Len(lines) - 1 ELSE Len(lines))
  PROVE  Reaches(items, a, x, lines, tot)
<1> USE DEF Follows
<1> DEFINE n == IF Ends(lines) THEN Len(lines) - 1 ELSE Len(lines)
<1>1. Len(a) \in Nat /\ Len(x) \in Nat /\ Len(lines) \in Nat
  BY LenProperties
<1>2. /\ items \in Seq(Bodies) /\ Len(items) = Len(a) + n
      /\ \A i \in 1 .. Len(a) : items[i] = a[i]
      /\ \A i \in 1 .. n : items[Len(a) + i] = lines[i].body
  BY DEF Joins
<1>3. Ends(lines) => /\ Len(lines) # 0 /\ lines[Len(lines)].type = "ended"
                     /\ Len(a) + Len(lines) = Len(x) + 1 /\ tot = Len(x) + 1
  <2> SUFFICES ASSUME Ends(lines)
               PROVE  /\ Len(lines) # 0 /\ lines[Len(lines)].type = "ended"
                      /\ Len(a) + Len(lines) = Len(x) + 1 /\ tot = Len(x) + 1
    OBVIOUS
  <2>1. Len(lines) # 0 /\ lines[Len(lines)].type = "ended"
    BY EmptySeq DEF Ends, Last
  <2>2. IsNth(lines[Len(lines)], t, Len(a) + Len(lines), x)
    BY <1>1, <2>1
  <2>3. ~(Len(a) + Len(lines) <= Len(x))
    BY <2>1, <2>2 DEF IsNth, Line
  <2> QED  BY <1>1, <2>1, <2>3
<1>4. Len(a) + n <= Len(x) /\ n \in Nat
  <2>1. CASE Ends(lines)
    BY <1>1, <1>3, <2>1
  <2>2. CASE ~Ends(lines) /\ Len(lines) = 0
    BY <1>1, <2>2
  <2>3. CASE ~Ends(lines) /\ Len(lines) # 0
    <3>1. lines[Len(lines)].type # "ended"
      BY <2>3, EmptySeq DEF Ends, Last
    <3>2. IsNth(lines[Len(lines)], t, Len(a) + Len(lines), x)
      BY <1>1, <2>3
    <3>3. Len(a) + Len(lines) <= Len(x)
      BY <3>1, <3>2 DEF IsNth
    <3> QED  BY <1>1, <2>3, <3>3
  <2> QED  BY <2>1, <2>2, <2>3
<1>5. n <= Len(lines)
  BY <1>1, <1>3
<1> HIDE DEF n
<1>6. ASSUME NEW i \in 1 .. Len(items) PROVE items[i] = x[i]
  <2>1. CASE i <= Len(a)
    BY <1>1, <1>2, <2>1
  <2>2. CASE ~(i <= Len(a))
    <3> DEFINE k == i - Len(a)
    <3>1. k \in 1 .. n /\ k \in 1 .. Len(lines) /\ i = Len(a) + k /\ Len(a) + k <= Len(x)
      BY <1>1, <1>2, <1>4, <1>5, <2>2
    <3> HIDE DEF k
    <3>2. IsNth(lines[k], t, Len(a) + k, x)
      BY <3>1
    <3>3. lines[k].body = x[Len(a) + k]
      BY <3>1, <3>2 DEF IsNth, Line
    <3> QED  BY <1>2, <3>1, <3>3
  <2> QED  BY <2>1, <2>2
<1>7. ~Ends(lines) => n = Len(lines)
  BY DEF n
<1>8. Ends(lines) => items = x
  <2> SUFFICES ASSUME Ends(lines) PROVE items = x
    OBVIOUS
  <2>1. Len(items) = Len(x)
    BY <1>1, <1>2, <1>3 DEF n
  <2>2. x \in Seq(Bodies)
    BY SeqMonotonic DEF Bodies
  <2> QED  BY <1>2, <1>6, <2>1, <2>2, SeqEqual
<1> QED  BY <1>2, <1>3, <1>4, <1>6, <1>7, <1>8 DEF Reaches

\* A delivery of the next items leaves the captured items a prefix of what was sent.
LEMMA DeliverContinues ==
  ASSUME ClientTypes, NEW t \in Turns, NEW lines \in Seq(Lines), Deliver(t, lines),
         Follows(got[t], sent[t], lines, t, Total(t))
  PROVE  Reaches(got'[t], got[t], sent[t], lines, Total(t))
<1>1. /\ got[t] \in Seq(Bodies) /\ sent[t] \in Seq(ItemKinds)
      /\ Total(t) \in {Len(sent[t]), Len(sent[t]) + 1}
  BY Counts DEF ClientTypes
<1>2. Joins(got'[t], got[t], lines, IF Ends(lines) THEN Len(lines) - 1 ELSE Len(lines))
  BY DeliverCaptures DEF Captured
<1> QED  BY <1>1, <1>2, NextItems

\* What a delivery to a turn does to the client's state.
Settled(t) ==
  /\ got' \in [Turns -> Seq(Bodies)] /\ \A u \in Turns \ {t} : got'[u] = got[u]
  /\ DOMAIN result' = Turns /\ \A u \in Turns \ {t} : result'[u] = result[u]
  /\ ask' \in [Turns -> {"none", "sent", "open", "unwinding", "over"}]
  /\ \A u \in Turns : ask'[u] = ask[u] \/ (ask[u] = "open" /\ ask'[u] = "unwinding")
  /\ finished' \in {finished, finished \cup {t}}
  /\ \/ result'[t] = result[t]
     \/ /\ result[t] = NoResult /\ result'[t].kind \in {"failed", "answer"}
        /\ t \in finished' /\ ask'[t] # "open"

LEMMA DeliverSettled ==
  ASSUME ClientTypes, NEW t \in Turns, NEW lines \in Seq(Lines), Deliver(t, lines)
  PROVE  Settled(t)
<1>1. got' \in [Turns -> Seq(Bodies)] /\ \A u \in Turns \ {t} : got'[u] = got[u]
  BY DeliverCaptures DEF Captured
<1>2. /\ DOMAIN result = Turns /\ ask \in [Turns -> {"none", "sent", "open", "unwinding", "over"}]
  BY DEF ClientTypes
<1>3. CASE ~Ends(lines)
  BY <1>1, <1>2, <1>3, DeliverSettles DEF Settled
<1>4. CASE Ends(lines)
  <2>1. /\ finished' = finished \cup {t} /\ ask' = Cancelled({t})
        /\ DOMAIN result' = Turns /\ \A u \in Turns \ {t} : result'[u] = result[u]
        /\ result[t] # NoResult => result'[t] = result[t]
        /\ result[t] = NoResult => result'[t].kind \in {"failed", "answer"}
    <3>1. result[t] = NoResult =>
            \/ result'[t] = Failed
            \/ result'[t] = [kind |-> "answer", text |-> FinalMessage(got'[t]),
                             tools |-> Of(got'[t], "tool")]
      BY <1>4, DeliverSettles
    <3>2. result[t] = NoResult => result'[t].kind \in {"failed", "answer"}
      BY <3>1, ResultKinds
    <3> QED  BY <1>4, <3>2, DeliverSettles
  <2>2. /\ ask' \in [Turns -> {"none", "sent", "open", "unwinding", "over"}]
        /\ \A u \in Turns : ask'[u] = ask[u] \/ (ask[u] = "open" /\ ask'[u] = "unwinding")
        /\ ask'[t] # "open"
    BY <1>2, <2>1 DEF Cancelled
  <2> QED  BY <1>1, <2>1, <2>2 DEF Settled
<1> QED  BY <1>3, <1>4

\* The reader takes the next line.
ReadsOne ==
  reader = "reading" /\ pipe # <<>> /\ pipe' = Tail(pipe) /\ UNCHANGED reader /\ ReaderUnchanged

LEMMA HeadLine ==
  ASSUME ClientInv, ReadsOne
  PROVE  /\ reader = "reading" /\ closing = "open"
         /\ pipe' \in Seq(Lines) /\ pipe # <<>> /\ pipe' = Tail(pipe)
         /\ Head(pipe) \in Lines /\ Head(pipe).turn \in Calls
         /\ \A i \in DOMAIN pipe' : \E k \in DOMAIN pipe : pipe'[i] = pipe[k]
         /\ Head(pipe).type # "reply" => Head(pipe).turn \in Turns /\ call[Head(pipe).turn] # "idle"
         /\ Head(pipe).type = "ask" =>
              /\ ask[Head(pipe).turn] # "none"
              /\ Head(pipe).turn \in finished \cup unbound \/ InFlight(Head(pipe).turn)
         /\ Head(pipe).type = "reply" /\ Head(pipe).body # "ok" /\ Head(pipe).turn \in Turns
              => host[Head(pipe).turn] = "rejected"
<1>1. /\ 1 \in DOMAIN pipe /\ Head(pipe) = pipe[1] /\ Head(pipe) \in Lines /\ Tail(pipe) \in Seq(Lines)
      /\ \A i \in DOMAIN pipe' : \E k \in DOMAIN pipe : pipe'[i] = pipe[k]
  <2>1. pipe \in Seq(Lines) /\ pipe # <<>> /\ pipe' = Tail(pipe)
    BY DEF ClientInv, ClientTypes, ReadsOne
  <2>2. /\ 1 \in DOMAIN pipe /\ Head(pipe) = pipe[1] /\ Head(pipe) \in Lines /\ Tail(pipe) \in Seq(Lines)
        /\ \A i \in DOMAIN Tail(pipe) : \E k \in DOMAIN pipe : Tail(pipe)[i] = pipe[k]
    BY <2>1, ReadOff
  <2> QED  BY <2>1, <2>2
<1>2. Head(pipe).turn \in Calls
  BY <1>1 DEF Lines
<1> QED  BY <1>1, <1>2 DEF ClientInv, PipeInv, LineInv, HostInv, ReadsOne

\* The answer a delivery makes is the whole of what the app-server sent.
LEMMA AnswerIs ==
  ASSUME ClientTypes, NEW t \in Turns, NEW lines \in Seq(Lines), Deliver(t, lines),
         Follows(got[t], sent[t], lines, t, Total(t)), result[t] = NoResult, result'[t].kind = "answer"
  PROVE  /\ host[t] = "ended"
         /\ result'[t].text = FinalMessage(sent[t]) /\ result'[t].tools = Of(sent[t], "tool")
<1>1. Ends(lines)
  BY DeliverSettles, ResultKinds
<1>2. got'[t] = sent[t] /\ host[t] = "ended"
  BY <1>1, DeliverContinues, Counts DEF Reaches
<1>3. result'[t] = [kind |-> "answer", text |-> FinalMessage(got'[t]), tools |-> Of(got'[t], "tool")]
  BY <1>1, DeliverSettles, ResultKinds
<1> QED  BY <1>2, <1>3

\* The next line of a turn in the pipe, when none waits before it, is its next item.
LEMMA NextFollows ==
  ASSUME ClientTypes, NEW t \in Turns, Whole(t), t \in bound, pipe # <<>>, OfTurn(Head(pipe), t)
  PROVE  Follows(got[t], sent[t], <<Head(pipe)>>, t, Total(t))
<1>1. /\ Received(t) \in Nat /\ Total(t) \in Nat /\ Len(got[t]) \in Nat
      /\ Received(t) = Len(got[t]) + Len(early[t]) /\ pipe \in Seq(Lines)
  BY Counts DEF ClientTypes
<1>2. PICK f : Indexed(f, Received(t) + 1, Total(t), pipe, t, sent[t])
  BY DEF Whole
<1>3. Received(t) + 1 \in Nat \ {0}
  BY <1>1 DEF ClientTypes
<1>4. Received(t) + 1 <= Total(t) /\ IsNth(Head(pipe), t, Received(t) + 1, sent[t])
  BY <1>1, <1>2, <1>3, IndexedTail
<1>5. early[t] = <<>> /\ Len(early[t]) = 0
  BY EmptySeq DEF Whole
<1>6. Received(t) = Len(got[t])
  BY <1>1, <1>5
<1>7. /\ Len(got[t]) <= Len(sent[t]) /\ \A i \in 1 .. Len(got[t]) : got[t][i] = sent[t][i]
  BY DEF Whole
<1> DEFINE lines == <<Head(pipe)>>
<1>8. Len(lines) = 1 /\ lines[1] = Head(pipe)
  OBVIOUS
<1> HIDE DEF lines
<1>9. \A i \in 1 .. Len(lines) : i = 1 /\ Len(got[t]) + i = Received(t) + 1
  BY <1>6, <1>8
<1>10. \A i \in 1 .. Len(lines) : IsNth(lines[i], t, Len(got[t]) + i, sent[t])
  BY <1>4, <1>8, <1>9
<1>11. Len(got[t]) + Len(lines) <= Total(t)
  BY <1>4, <1>6, <1>8
<1>12. Follows(got[t], sent[t], lines, t, Total(t))
  BY <1>7, <1>10, <1>11 DEF Follows
<1> QED  BY <1>12 DEF lines

\* A part of the invariant stays true when nothing it speaks of changes.
LEMMA Framed ==
  ASSUME ClientInv
  PROVE  /\ UNCHANGED <<worker, call>> => OneTurn'
         /\ UNCHANGED <<call, host, sent, got, early, result, ask, present, reply>> => Untried'
         /\ UNCHANGED <<pipe, call, host, ask>> => PipeInv'
         /\ UNCHANGED <<closing, pipe, proc, reader, host, ask>> => HostInv'
         /\ UNCHANGED <<starting, bound, call, reply, result>> => BindInv'
         /\ UNCHANGED <<result, call, reply, host, sent>> => AnswerInv'
         /\ UNCHANGED <<ask, call, unbound, result, reader>> => AskInv'
         /\ UNCHANGED <<call, reply, result, reader, unbound, host, finished, pipe>> => LineInv'
         /\ UNCHANGED <<reader, closing, reply, call, result, late, bound>> => DrainInv'
         /\ UNCHANGED <<stop, present>> => StopInv'
         /\ UNCHANGED <<auth, epoch, worker, stop, present>> => AuthInv'
         /\ UNCHANGED tool => ToolInv'
         /\ UNCHANGED <<sent, got, pipe, early, bound, host, call, result, reader,
                        reply>> => NumberedInv'
<1>1. UNCHANGED <<worker, call>> => OneTurn'
  BY DEF ClientInv, OneTurn, InFlight
<1>2. UNCHANGED <<call, host, sent, got, early, result, ask, present, reply>> => Untried'
  BY DEF ClientInv, Untried
<1>3. UNCHANGED <<pipe, call, host, ask>> => PipeInv'
  BY DEF ClientInv, PipeInv
<1>4. UNCHANGED <<closing, pipe, proc, reader, host, ask>> => HostInv'
  BY DEF ClientInv, HostInv
<1>5. UNCHANGED <<starting, bound, call, reply, result>> => BindInv'
  BY DEF ClientInv, BindInv
<1>6. UNCHANGED <<result, call, reply, host, sent>> => AnswerInv'
  BY DEF ClientInv, AnswerInv
<1>7. UNCHANGED <<ask, call, unbound, result, reader>> => AskInv'
  BY DEF ClientInv, AskInv, QuestionsOfLiveTurns, InFlight
<1>8. UNCHANGED <<call, reply, result, reader, unbound, host, finished, pipe>> => LineInv'
  BY DEF ClientInv, LineInv, InFlight
<1>9. UNCHANGED <<reader, closing, reply, call, result, late, bound>> => DrainInv'
  BY DEF ClientInv, DrainInv, Drained
<1>10. UNCHANGED <<stop, present>> => StopInv'
  BY DEF ClientInv, StopInv
<1>11. UNCHANGED <<auth, epoch, worker, stop, present>> => AuthInv'
  BY DEF ClientInv, AuthInv
<1>12. UNCHANGED tool => ToolInv'
  BY DEF ClientInv, ToolInv
<1>13. UNCHANGED <<sent, got, pipe, early, bound, host, call, result, reader, reply>> => NumberedInv'
  BY NumberedKept DEF ClientInv, Tracked, InFlight
<1> QED  BY <1>1, <1>2, <1>3, <1>4, <1>5, <1>6, <1>7, <1>8, <1>9, <1>10, <1>11, <1>12, <1>13
-----------------------------------------------------------------------------
(* The tools of a turn *)

LEMMA CallToolStep ==
  ASSUME ClientInv, NEW t \in Turns, CallTool(t)
  PROVE  ClientInv'
<1>1. /\ tool[t].at = "none"
      /\ tool'[t].at = "called"
      /\ \A u \in Turns \ {t} : tool'[u] = tool[u]
      /\ UNCHANGED <<worker, proc, reader, closing, epoch, pipe, host, reply, starting, bound,
                     current, early, finished, got, result, call, ask, stop, auth, sent, scene,
                     present, late, unbound>>
  BY Names, ResultKinds DEF ClientInv, ClientTypes, CallTool, conn, rpc, ghost
<1>2. ClientTypes'
  <2>1. tool' \in [Turns -> ToolCalls]
    BY Names DEF ClientInv, ClientTypes, CallTool, ToolCalls, Sources, conn, rpc, ghost
  <2> QED  BY <1>1, <2>1, Names, ResultKinds DEF ClientInv, ClientTypes
<1>3. OneTurn' /\ Untried' /\ PipeInv' /\ HostInv' /\ BindInv' /\ AnswerInv' /\ AskInv'
     /\ LineInv' /\ DrainInv' /\ StopInv' /\ AuthInv' /\ NumberedInv'
  BY <1>1, Framed
<1>4. ToolInv'
  BY ZenonT(60), <1>1, Names, ResultKinds DEF ClientInv, ToolInv, ClientTypes, AuthInv
<1> QED  BY <1>2, <1>3, <1>4 DEF ClientInv

LEMMA CaptureStep ==
  ASSUME ClientInv, NEW t \in Turns, Capture(t)
  PROVE  ClientInv'
<1>1. /\ tool[t].at = "called"
      /\ tool'[t].at = "captured" => OwnSource(t) /\ tool'[t].seen.turn = auth.turn
      /\ \A u \in Turns \ {t} : tool'[u] = tool[u]
      /\ UNCHANGED <<worker, proc, reader, closing, epoch, pipe, host, reply, starting, bound,
                     current, early, finished, got, result, call, ask, stop, auth, sent, scene,
                     present, late, unbound>>
  BY Names, ResultKinds DEF ClientInv, ClientTypes, Capture, ToolCalls, conn, rpc, ghost
<1>2. ClientTypes'
  <2>1. tool' \in [Turns -> ToolCalls]
    <3>1. [host |-> auth.host, turn |-> auth.turn] \in [host : Nat, turn : Maybe]
      BY DEF ClientInv, ClientTypes, Sources
    <3>2. tool[t] \in ToolCalls /\ tool \in [Turns -> ToolCalls]
      BY DEF ClientInv, ClientTypes
    <3>3. \A a \in {"captured", "refused"}, s \in [host : Nat, turn : Maybe] :
            [tool[t] EXCEPT !.at = a, !.seen = s] \in ToolCalls
      BY <3>2 DEF ToolCalls
    <3>4. PICK a \in {"captured", "refused"}, s \in [host : Nat, turn : Maybe] :
            tool' = [tool EXCEPT ![t].at = a, ![t].seen = s]
      BY <3>1 DEF Capture
    <3>5. tool' = [tool EXCEPT ![t] = [tool[t] EXCEPT !.at = a, !.seen = s]]
      BY <3>2, <3>4
    <3> QED  BY <3>2, <3>3, <3>5
  <2> QED  BY <1>1, <2>1, Names, ResultKinds DEF ClientInv, ClientTypes
<1>3. OneTurn' /\ Untried' /\ PipeInv' /\ HostInv' /\ BindInv' /\ AnswerInv' /\ AskInv'
     /\ LineInv' /\ DrainInv' /\ StopInv' /\ AuthInv' /\ NumberedInv'
  BY <1>1, Framed
<1>4. ToolInv'
  <2>1. \A u \in Turns \ Shell : tool'[u].at = "captured" => tool'[u].seen.turn = u
    <3> SUFFICES ASSUME NEW u \in Turns, u \notin Shell, tool'[u].at = "captured"
                 PROVE  tool'[u].seen.turn = u
      OBVIOUS
    <3>1. CASE u = t
      BY <1>1, <3>1 DEF OwnSource
    <3>2. CASE u # t
      BY <1>1, <3>2 DEF ClientInv, ToolInv
    <3> QED  BY <3>1, <3>2
  <2> QED  BY <2>1, <1>1 DEF ToolInv
<1> QED  BY <1>2, <1>3, <1>4 DEF ClientInv

LEMMA ActStep ==
  ASSUME ClientInv, NEW t \in Turns, Act(t)
  PROVE  ClientInv'
<1>1. /\ tool[t].at = "captured"
      /\ tool'[t].at # "captured"
      /\ \A u \in Turns \ {t} : tool'[u] = tool[u]
      /\ UNCHANGED <<worker, proc, reader, closing, epoch, pipe, host, reply, starting, bound,
                     current, early, finished, got, result, call, ask, stop, auth, sent, scene,
                     present, late, unbound>>
  BY Names, ResultKinds DEF ClientInv, ClientTypes, Act, ToolCalls, conn, rpc, ghost
<1>2. ClientTypes'
  <2>1. tool' \in [Turns -> ToolCalls]
    <3>2. tool[t] \in ToolCalls /\ tool \in [Turns -> ToolCalls]
      BY DEF ClientInv, ClientTypes
    <3>3. \A a \in {"acted", "refused"} : [tool[t] EXCEPT !.at = a] \in ToolCalls
      BY <3>2 DEF ToolCalls
    <3>4. PICK a \in {"acted", "refused"} : tool' = [tool EXCEPT ![t] = [tool[t] EXCEPT !.at = a]]
      BY DEF Act
    <3> QED  BY <3>2, <3>3, <3>4
  <2> QED  BY <1>1, <2>1, Names, ResultKinds DEF ClientInv, ClientTypes
<1>3. OneTurn' /\ Untried' /\ PipeInv' /\ HostInv' /\ BindInv' /\ AnswerInv' /\ AskInv'
     /\ LineInv' /\ DrainInv' /\ StopInv' /\ AuthInv' /\ NumberedInv'
  BY <1>1, Framed
<1>4. ToolInv'
  BY ZenonT(60), <1>1, Names, ResultKinds DEF ClientInv, ToolInv, ClientTypes, AuthInv
<1> QED  BY <1>2, <1>3, <1>4 DEF ClientInv

-----------------------------------------------------------------------------
(* The app-server *)

LEMMA HostItemStep ==
  ASSUME ClientInv, NEW t \in Turns, NEW k \in ItemKinds, HostItem(t, k)
  PROVE  ClientInv'
<1>1. /\ proc = "running" /\ host[t] = "working"
      /\ pipe' = Append(pipe, Line("item", t, k)) /\ Line("item", t, k) \in Lines
      /\ sent'[t] = Append(sent[t], k) /\ \A u \in Turns \ {t} : sent'[u] = sent[u]
      /\ UNCHANGED <<worker, proc, reader, closing, epoch, host, reply, starting, bound,
                     current, early, finished, got, result, call, ask, stop, auth, tool, scene,
                     present, late, unbound>>
  BY Names, ResultKinds DEF ClientInv, ClientTypes, HostItem, Emits, HostUnchanged, Line, Lines,
      Texts, Bodies, conn, rpc, ghost
<1>2. ClientTypes'
  <2>1. pipe' \in Seq(Lines)
    BY Names DEF ClientInv, ClientTypes, HostItem, Emits, HostUnchanged, Line, Lines, Texts,
        Bodies, conn, rpc, ghost
  <2>2. sent' \in [Turns -> Seq(ItemKinds)]
    BY Names DEF ClientInv, ClientTypes, HostItem, Emits, HostUnchanged, Line, Lines, Texts,
        Bodies, conn, rpc, ghost
  <2> QED  BY <1>1, <2>1, <2>2, Names, ResultKinds DEF ClientInv, ClientTypes
<1>3. OneTurn' /\ BindInv' /\ AskInv' /\ DrainInv' /\ StopInv' /\ AuthInv' /\ ToolInv'
  BY <1>1, Framed
<1>4. Untried'
  BY <1>1, Names, ResultKinds DEF ClientInv, Untried, ClientTypes, OneTurn, BindInv
<1>5. PipeInv'
  <2>1. \A i \in DOMAIN pipe' : (i \in DOMAIN pipe /\ pipe'[i] = pipe[i]) \/ pipe'[i] = Line("item", t, k)
    BY <1>1, Appended DEF ClientInv, ClientTypes
  <2>2. \A i \in DOMAIN pipe :
          /\ pipe[i].type # "reply" => pipe[i].turn \in Turns /\ call'[pipe[i].turn] # "idle"
          /\ pipe[i].type = "ask" => ask'[pipe[i].turn] # "none"
          /\ pipe[i].type = "reply" /\ pipe[i].body # "ok" /\ pipe[i].turn \in Turns
               => host'[pipe[i].turn] = "rejected"
    BY <1>1 DEF ClientInv, PipeInv
  <2> DEFINE L == Line("item", t, k)
  <2>3. /\ L.type # "reply" => L.turn \in Turns /\ call'[L.turn] # "idle"
        /\ L.type = "ask" => ask'[L.turn] # "none"
        /\ L.type = "reply" /\ L.body # "ok" /\ L.turn \in Turns => host'[L.turn] = "rejected"
    BY <1>1 DEF ClientInv, Untried, Line
  <2> HIDE DEF L
  <2> QED  BY <2>1, <2>2, <2>3 DEF PipeInv, L
<1>6. HostInv'
  BY <1>1, Names, ResultKinds DEF ClientInv, HostInv, ClientTypes, OneTurn, Untried
<1>7. AnswerInv'
  <2> SUFFICES ASSUME NEW u \in Turns, result'[u].kind = "answer",
                      ~(call'[u] = "starting" /\ reply'[u] = "failed")
               PROVE  /\ host'[u] \in {"ended", "gone"}
                      /\ result'[u].text = FinalMessage(sent'[u])
                      /\ result'[u].tools = Of(sent'[u], "tool")
    BY DEF AnswerInv
  <2>1. /\ host[u] \in {"ended", "gone"}
        /\ result[u].text = FinalMessage(sent[u]) /\ result[u].tools = Of(sent[u], "tool")
    BY <1>1 DEF ClientInv, AnswerInv
  <2>2. u # t
    BY <1>1, <2>1
  <2> QED  BY <1>1, <2>1, <2>2
<1>8. LineInv'
  <2> SUFFICES ASSUME reader' = "reading"
               PROVE  /\ \A u \in Turns :
                           /\ call'[u] = "starting" /\ reply'[u] = "failed"
                                => u \in unbound' \/ host'[u] = "rejected"
                           /\ InFlight(u)' /\ result'[u] # NoResult => u \in finished' \/ u \in unbound'
                           /\ call'[u] = "done" /\ host'[u] \in {"working", "ended"}
                                => u \in finished' \/ u \in unbound'
                      /\ \A i \in DOMAIN pipe' : pipe'[i].type = "ask" =>
                           pipe'[i].turn \in finished' \cup unbound' \/ InFlight(pipe[i].turn)'
    BY DEF LineInv
  <2>1. \A i \in DOMAIN pipe' : (i \in DOMAIN pipe /\ pipe'[i] = pipe[i]) \/ pipe'[i] = Line("item", t, k)
    BY <1>1, Appended DEF ClientInv, ClientTypes
  <2>2. \A u \in Turns : host'[u] = "ended" => host[u] \in {"working", "ended"}
    BY <1>1
  <2>3. \A i \in DOMAIN pipe' : pipe'[i].type = "ask" =>
          pipe'[i].turn \in finished' \cup unbound' \/ InFlight(pipe[i].turn)'
    BY <1>1, <2>1 DEF ClientInv, LineInv, InFlight, Line
  <2> QED  BY <1>1, <2>2, <2>3 DEF ClientInv, LineInv, InFlight
<1>9. NumberedInv'
  <2> SUFFICES ASSUME NEW u \in Turns, Tracked(u)' PROVE Whole(u)'
    BY DEF NumberedInv
  <2>1. Whole(u) /\ ClientTypes
    BY <1>1 DEF ClientInv, NumberedInv, Tracked, InFlight
  <2>2. CASE ~OfTurn(Line("item", t, k), u)
    <3>1. Other(u)
      BY <1>1, <2>2 DEF Other
    <3> QED  BY <1>1, <2>1, <2>2, <3>1, WholeAlong DEF OfTurn, Line, Texts
  <2>3. CASE OfTurn(Line("item", t, k), u)
    <3>1. u = t
      BY <2>3 DEF OfTurn, Line
    <3>2. /\ Len(sent'[t]) = Len(sent[t]) + 1 /\ sent'[t][Len(sent[t]) + 1] = k
          /\ \A i \in 1 .. Len(sent[t]) : sent'[t][i] = sent[t][i]
      BY <1>1, AppendProperties, LenProperties DEF ClientInv, ClientTypes
    <3>9. Total(t)' = Total(t) + 1 /\ Total(t) = Len(sent[t]) /\ Total(t)' = Len(sent'[t])
      BY <1>1, <3>2 DEF Total
    <3>3. Total(t) \in Nat /\ Received(t)' = Received(t) /\ Received(t) \in Nat
      BY <1>1, <2>1, Counts DEF Received
    <3>11. /\ Len(got[t]) \in Nat /\ Len(early[t]) \in Nat
           /\ Received(t) = Len(got[t]) + Len(early[t])
      BY <2>1, Counts
    <3>4. IsNth(Line("item", t, k), t, Total(t) + 1, sent'[t])
      BY <3>2, <3>3, <3>9 DEF IsNth, Line
    <3>5. \A l, i : i \in 1 .. Total(t) /\ IsNth(l, t, i, sent[t]) => IsNth(l, t, i, sent'[t])
      BY <3>2, <3>3, <3>9 DEF IsNth
    <3>6. Received(t) <= Total(t)
      BY <2>1, <3>1 DEF Whole
    <3>7. \E g : Indexed(g, Received(t) + 1, Total(t) + 1, pipe', t, sent'[t])
      <4>1. PICK f : Indexed(f, Received(t) + 1, Total(t), pipe, t, sent[t])
        BY <2>1, <3>1 DEF Whole
      <4>2. \A l, i : i \in Received(t) + 1 .. Total(t) /\ IsNth(l, t, i, sent[t]) => IsNth(l, t, i, sent'[t])
        <5> TAKE l, i
        <5>1. i \in Received(t) + 1 .. Total(t) => i \in 1 .. Total(t)
          BY <3>3
        <5> QED  BY <3>5, <5>1
      <4>3. /\ Received(t) + 1 \in Nat \ {0} /\ Total(t) \in Nat /\ Received(t) + 1 <= Total(t) + 1
            /\ pipe \in Seq(Lines)
        BY <2>1, <3>3, <3>6 DEF ClientTypes
      <4> QED  BY <1>1, <2>3, <3>1, <3>4, <4>1, <4>2, <4>3, IndexedAppend
    <3>8. /\ Len(got[t]) <= Len(sent'[t]) /\ \A i \in 1 .. Len(got[t]) : got[t][i] = sent'[t][i]
          /\ \A i \in 1 .. Len(early[t]) : IsNth(early[t][i], t, Len(got[t]) + i, sent'[t])
          /\ t \in bound => early[t] = <<>>
      <4>1. /\ Len(got[t]) <= Len(sent[t]) /\ \A i \in 1 .. Len(got[t]) : got[t][i] = sent[t][i]
            /\ \A i \in 1 .. Len(early[t]) : IsNth(early[t][i], t, Len(got[t]) + i, sent[t])
            /\ t \in bound => early[t] = <<>>
        BY <2>1, <3>1 DEF Whole
      <4>2. Len(got[t]) <= Len(sent'[t]) /\ \A i \in 1 .. Len(got[t]) : i \in 1 .. Len(sent[t])
        BY <3>2, <3>3, <3>9, <3>11, <4>1
      <4>3. \A i \in 1 .. Len(early[t]) : Len(got[t]) + i \in 1 .. Total(t)
        BY <2>1, <3>3, <3>6, <3>11 DEF ClientTypes
      <4>4. \A i \in 1 .. Len(early[t]) : IsNth(early[t][i], t, Len(got[t]) + i, sent'[t])
        BY <3>5, <4>1, <4>3
      <4> QED  BY <3>2, <4>1, <4>2, <4>4
    <3>10. UNCHANGED <<got, early, bound>> /\ Received(t)' <= Total(t)'
      <4>1. Total(t) <= Total(t) + 1
        BY <3>3
      <4>2. UNCHANGED <<got, early, bound>>
        BY <1>1
      <4> QED  BY <3>3, <3>6, <3>9, <4>1, <4>2
    <3> QED  BY <3>1, <3>3, <3>7, <3>8, <3>9, <3>10 DEF Whole
  <2> QED  BY <2>2, <2>3
<1> QED  BY <1>2, <1>3, <1>4, <1>5, <1>6, <1>7, <1>8, <1>9 DEF ClientInv

LEMMA HostEndsStep ==
  ASSUME ClientInv, NEW t \in Turns, NEW s \in {"completed", "failed"}, HostEnds(t, s)
  PROVE  ClientInv'
<1>1. /\ proc = "running" /\ host[t] = "working"
      /\ pipe' = Append(pipe, Line("ended", t, s)) /\ Line("ended", t, s) \in Lines
      /\ host'[t] = "ended" /\ \A u \in Turns \ {t} : host'[u] = host[u]
      /\ UNCHANGED <<worker, proc, reader, closing, epoch, reply, starting, bound, current,
                     early, finished, got, result, call, ask, stop, auth, tool, sent, scene,
                     present, late, unbound>>
  BY Names, ResultKinds DEF ClientInv, ClientTypes, HostEnds, Emits, HostUnchanged, Line, Lines,
      Texts, Bodies, conn, rpc, ghost
<1>2. ClientTypes'
  <2>1. pipe' \in Seq(Lines)
    BY Names DEF ClientInv, ClientTypes, HostEnds, Emits, HostUnchanged, Line, Lines, Texts,
        Bodies, conn, rpc, ghost
  <2>2. host' \in [Turns -> {"none", "working", "ended", "rejected", "gone"}]
    BY Names DEF ClientInv, ClientTypes, HostEnds, Emits, HostUnchanged, Line, Lines, Texts,
        Bodies, conn, rpc, ghost
  <2> QED  BY <1>1, <2>1, <2>2, Names, ResultKinds DEF ClientInv, ClientTypes
<1>3. OneTurn' /\ BindInv' /\ AskInv' /\ DrainInv' /\ StopInv' /\ AuthInv' /\ ToolInv'
  BY <1>1, Framed
<1>4. Untried'
  BY <1>1, Names, ResultKinds DEF ClientInv, Untried, ClientTypes, OneTurn, BindInv
<1>5. PipeInv'
  <2>1. \A i \in DOMAIN pipe' : (i \in DOMAIN pipe /\ pipe'[i] = pipe[i]) \/ pipe'[i] = Line("ended", t, s)
    BY <1>1, Appended DEF ClientInv, ClientTypes
  <2>2. \A i \in DOMAIN pipe :
          /\ pipe[i].type # "reply" => pipe[i].turn \in Turns /\ call'[pipe[i].turn] # "idle"
          /\ pipe[i].type = "ask" => ask'[pipe[i].turn] # "none"
          /\ pipe[i].type = "reply" /\ pipe[i].body # "ok" /\ pipe[i].turn \in Turns
               => host'[pipe[i].turn] = "rejected"
    BY <1>1 DEF ClientInv, PipeInv
  <2> DEFINE L == Line("ended", t, s)
  <2>3. /\ L.type # "reply" => L.turn \in Turns /\ call'[L.turn] # "idle"
        /\ L.type = "ask" => ask'[L.turn] # "none"
        /\ L.type = "reply" /\ L.body # "ok" /\ L.turn \in Turns => host'[L.turn] = "rejected"
    BY <1>1 DEF ClientInv, Untried, Line
  <2> HIDE DEF L
  <2> QED  BY <2>1, <2>2, <2>3 DEF PipeInv, L
<1>6. HostInv'
  BY <1>1, Names, ResultKinds DEF ClientInv, HostInv, ClientTypes, OneTurn, Untried
<1>7. AnswerInv'
  <2> SUFFICES ASSUME NEW u \in Turns, result'[u].kind = "answer",
                      ~(call'[u] = "starting" /\ reply'[u] = "failed")
               PROVE  /\ host'[u] \in {"ended", "gone"}
                      /\ result'[u].text = FinalMessage(sent'[u])
                      /\ result'[u].tools = Of(sent'[u], "tool")
    BY DEF AnswerInv
  <2>1. /\ host[u] \in {"ended", "gone"}
        /\ result[u].text = FinalMessage(sent[u]) /\ result[u].tools = Of(sent[u], "tool")
    BY <1>1 DEF ClientInv, AnswerInv
  <2> QED  BY <1>1, <2>1
<1>8. LineInv'
  <2> SUFFICES ASSUME reader' = "reading"
               PROVE  /\ \A u \in Turns :
                           /\ call'[u] = "starting" /\ reply'[u] = "failed"
                                => u \in unbound' \/ host'[u] = "rejected"
                           /\ InFlight(u)' /\ result'[u] # NoResult => u \in finished' \/ u \in unbound'
                           /\ call'[u] = "done" /\ host'[u] \in {"working", "ended"}
                                => u \in finished' \/ u \in unbound'
                      /\ \A i \in DOMAIN pipe' : pipe'[i].type = "ask" =>
                           pipe'[i].turn \in finished' \cup unbound' \/ InFlight(pipe[i].turn)'
    BY DEF LineInv
  <2>1. \A i \in DOMAIN pipe' : (i \in DOMAIN pipe /\ pipe'[i] = pipe[i]) \/ pipe'[i] = Line("ended", t, s)
    BY <1>1, Appended DEF ClientInv, ClientTypes
  <2>2. \A u \in Turns : host'[u] = "ended" => host[u] \in {"working", "ended"}
    BY <1>1
  <2>3. \A i \in DOMAIN pipe' : pipe'[i].type = "ask" =>
          pipe'[i].turn \in finished' \cup unbound' \/ InFlight(pipe[i].turn)'
    BY <1>1, <2>1 DEF ClientInv, LineInv, InFlight, Line
  <2> QED  BY <1>1, <2>2, <2>3 DEF ClientInv, LineInv, InFlight
<1>9. NumberedInv'
  <2> SUFFICES ASSUME NEW u \in Turns, Tracked(u)' PROVE Whole(u)'
    BY DEF NumberedInv
  <2>1. Whole(u) /\ ClientTypes
    BY <1>1 DEF ClientInv, NumberedInv, Tracked, InFlight
  <2>2. CASE ~OfTurn(Line("ended", t, s), u)
    <3>1. Other(u)
      BY <1>1, <2>2 DEF Other
    <3> QED  BY <1>1, <2>1, <2>2, <3>1, WholeAlong DEF OfTurn, Line, Texts
  <2>3. CASE OfTurn(Line("ended", t, s), u)
    <3>1. u = t
      BY <2>3 DEF OfTurn, Line
    <3>9. Total(t)' = Total(t) + 1 /\ Total(t) = Len(sent[t]) /\ sent' = sent
      BY <1>1 DEF Total
    <3>3. Total(t) \in Nat /\ Received(t)' = Received(t) /\ Received(t) \in Nat
      BY <1>1, <2>1, Counts DEF Received
    <3>11. /\ Len(got[t]) \in Nat /\ Len(early[t]) \in Nat
           /\ Received(t) = Len(got[t]) + Len(early[t])
      BY <2>1, Counts
    <3>4. IsNth(Line("ended", t, s), t, Total(t) + 1, sent'[t])
      BY <3>3, <3>9 DEF IsNth, Line
    <3>5. \A l, i : i \in 1 .. Total(t) /\ IsNth(l, t, i, sent[t]) => IsNth(l, t, i, sent'[t])
      BY <3>9
    <3>6. Received(t) <= Total(t)
      BY <2>1, <3>1 DEF Whole
    <3>7. \E g : Indexed(g, Received(t) + 1, Total(t) + 1, pipe', t, sent'[t])
      <4>1. PICK f : Indexed(f, Received(t) + 1, Total(t), pipe, t, sent[t])
        BY <2>1, <3>1 DEF Whole
      <4>2. \A l, i : i \in Received(t) + 1 .. Total(t) /\ IsNth(l, t, i, sent[t]) => IsNth(l, t, i, sent'[t])
        <5> TAKE l, i
        <5>1. i \in Received(t) + 1 .. Total(t) => i \in 1 .. Total(t)
          BY <3>3
        <5> QED  BY <3>5, <5>1
      <4>3. /\ Received(t) + 1 \in Nat \ {0} /\ Total(t) \in Nat /\ Received(t) + 1 <= Total(t) + 1
            /\ pipe \in Seq(Lines)
        BY SMTT(30), <2>1, <3>3, <3>6 DEF ClientTypes
      <4> QED  BY <1>1, <2>3, <3>1, <3>4, <4>1, <4>2, <4>3, IndexedAppend
    <3>8. /\ Len(got[t]) <= Len(sent'[t]) /\ \A i \in 1 .. Len(got[t]) : got[t][i] = sent'[t][i]
          /\ \A i \in 1 .. Len(early[t]) : IsNth(early[t][i], t, Len(got[t]) + i, sent'[t])
          /\ t \in bound => early[t] = <<>>
      BY <2>1, <3>1, <3>9 DEF Whole
    <3>10. UNCHANGED <<got, early, bound>> /\ Received(t)' <= Total(t)'
      <4>1. Total(t) <= Total(t) + 1
        BY <3>3
      <4>2. UNCHANGED <<got, early, bound>>
        BY <1>1
      <4> QED  BY <3>3, <3>6, <3>9, <4>1, <4>2
    <3> QED  BY <3>1, <3>3, <3>7, <3>8, <3>9, <3>10 DEF Whole
  <2> QED  BY <2>2, <2>3
<1> QED  BY <1>2, <1>3, <1>4, <1>5, <1>6, <1>7, <1>8, <1>9 DEF ClientInv

LEMMA HostAsksStep ==
  ASSUME ClientInv, NEW t \in Turns, HostAsks(t)
  PROVE  ClientInv'
<1>1. /\ proc = "running" /\ host[t] \in {"working", "ended"}
      /\ ask[t] = "none"
      /\ pipe' = Append(pipe, Line("ask", t, "none")) /\ Line("ask", t, "none") \in Lines
      /\ ask'[t] = "sent" /\ \A u \in Turns \ {t} : ask'[u] = ask[u]
      /\ UNCHANGED <<worker, proc, reader, closing, epoch, host, reply, starting, bound,
                     current, early, finished, got, result, call, stop, auth, tool, sent, scene,
                     present, late, unbound>>
  BY Names, ResultKinds DEF ClientInv, ClientTypes, HostAsks, Emits, Line, Lines, Texts, Bodies,
      conn, rpc, ghost
<1>2. ClientTypes'
  <2>1. pipe' \in Seq(Lines)
    BY Names DEF ClientInv, ClientTypes, HostAsks, Emits, Line, Lines, Texts, Bodies, conn, rpc,
        ghost
  <2>2. ask' \in [Turns -> {"none", "sent", "open", "unwinding", "over"}]
    BY Names DEF ClientInv, ClientTypes, HostAsks, Emits, Line, Lines, Texts, Bodies, conn, rpc,
        ghost
  <2> QED  BY <1>1, <2>1, <2>2, Names, ResultKinds DEF ClientInv, ClientTypes
<1>3. OneTurn' /\ BindInv' /\ AnswerInv' /\ DrainInv' /\ StopInv' /\ AuthInv' /\ ToolInv'
  BY <1>1, Framed
<1>4. Untried'
  BY <1>1, Names, ResultKinds DEF ClientInv, Untried, ClientTypes, OneTurn, BindInv
<1>5. PipeInv'
  <2>1. \A i \in DOMAIN pipe' : (i \in DOMAIN pipe /\ pipe'[i] = pipe[i]) \/ pipe'[i] = Line("ask", t, "none")
    BY SMTT(30), <1>1, Appended DEF ClientInv, ClientTypes
  <2>2. \A i \in DOMAIN pipe :
          /\ pipe[i].type # "reply" => pipe[i].turn \in Turns /\ call'[pipe[i].turn] # "idle"
          /\ pipe[i].type = "ask" => ask'[pipe[i].turn] # "none"
          /\ pipe[i].type = "reply" /\ pipe[i].body # "ok" /\ pipe[i].turn \in Turns
               => host'[pipe[i].turn] = "rejected"
    BY <1>1 DEF ClientInv, PipeInv
  <2> DEFINE L == Line("ask", t, "none")
  <2>3. /\ L.type # "reply" => L.turn \in Turns /\ call'[L.turn] # "idle"
        /\ L.type = "ask" => ask'[L.turn] # "none"
        /\ L.type = "reply" /\ L.body # "ok" /\ L.turn \in Turns => host'[L.turn] = "rejected"
    BY <1>1 DEF ClientInv, Untried, Line
  <2> HIDE DEF L
  <2> QED  BY <2>1, <2>2, <2>3 DEF PipeInv, L
<1>6. HostInv'
  BY <1>1, Names, ResultKinds DEF ClientInv, HostInv, ClientTypes, OneTurn, Untried
<1>7. AskInv'
  BY SMTT(30), <1>1, Names, ResultKinds DEF ClientInv, AskInv, ClientTypes, BindInv, OneTurn, Untried,
      HostInv, PipeInv, DrainInv, LineInv, QuestionsOfLiveTurns, InFlight, Drained
<1>8. LineInv'
  <2> SUFFICES ASSUME reader' = "reading"
               PROVE  /\ \A u \in Turns :
                           /\ call'[u] = "starting" /\ reply'[u] = "failed"
                                => u \in unbound' \/ host'[u] = "rejected"
                           /\ InFlight(u)' /\ result'[u] # NoResult => u \in finished' \/ u \in unbound'
                           /\ call'[u] = "done" /\ host'[u] \in {"working", "ended"}
                                => u \in finished' \/ u \in unbound'
                      /\ \A i \in DOMAIN pipe' : pipe'[i].type = "ask" =>
                           pipe'[i].turn \in finished' \cup unbound' \/ InFlight(pipe[i].turn)'
    BY DEF LineInv
  <2>1. \A i \in DOMAIN pipe' : (i \in DOMAIN pipe /\ pipe'[i] = pipe[i]) \/ pipe'[i] = Line("ask", t, "none")
    BY SMTT(30), <1>1, Appended DEF ClientInv, ClientTypes
  <2>2. \A u \in Turns : host'[u] = "ended" => host[u] \in {"working", "ended"}
    BY <1>1
  <2>3. \A i \in DOMAIN pipe' : pipe'[i].type = "ask" =>
          pipe'[i].turn \in finished' \cup unbound' \/ InFlight(pipe[i].turn)'
    <3>1. t \in finished \cup unbound \/ InFlight(t)
      BY <1>1 DEF ClientInv, LineInv, Untried, ClientTypes, InFlight
    <3> QED  BY <1>1, <2>1, <3>1 DEF ClientInv, LineInv, InFlight, Line
  <2> QED  BY <1>1, <2>2, <2>3 DEF ClientInv, LineInv, InFlight
<1>9. NumberedInv'
  <2> SUFFICES ASSUME NEW u \in Turns, Tracked(u)' PROVE Whole(u)'
    BY DEF NumberedInv
  <2>1. Whole(u) /\ ClientTypes
    BY <1>1 DEF ClientInv, NumberedInv, Tracked, InFlight
  <2>2. CASE ~OfTurn(Line("ask", t, "none"), u)
    <3>1. Other(u)
      BY <1>1, <2>2 DEF Other
    <3> QED  BY <1>1, <2>1, <2>2, <3>1, WholeAlong DEF OfTurn, Line, Texts
  <2>3. ~OfTurn(Line("ask", t, "none"), u)
    BY DEF OfTurn, Line, Texts
  <2> QED  BY <2>2, <2>3
<1> QED  BY <1>2, <1>3, <1>4, <1>5, <1>6, <1>7, <1>8, <1>9 DEF ClientInv

LEMMA HostResolvesStep ==
  ASSUME ClientInv, NEW t \in Turns, HostResolves(t)
  PROVE  ClientInv'
<1>1. /\ proc = "running" /\ ask[t] = "open"
      /\ pipe' = Append(pipe, Line("resolved", t, "none")) /\ Line("resolved", t, "none") \in Lines
      /\ UNCHANGED <<worker, proc, reader, closing, epoch, host, reply, starting, bound,
                     current, early, finished, got, result, call, ask, stop, auth, tool, sent,
                     scene, present, late, unbound>>
  BY Names, ResultKinds DEF ClientInv, ClientTypes, HostResolves, Emits, HostUnchanged, Line,
      Lines, Texts, Bodies, conn, rpc, ghost
<1>2. ClientTypes'
  <2>1. pipe' \in Seq(Lines)
    BY Names DEF ClientInv, ClientTypes, HostResolves, Emits, HostUnchanged, Line, Lines, Texts,
        Bodies, conn, rpc, ghost
  <2> QED  BY <1>1, <2>1, Names, ResultKinds DEF ClientInv, ClientTypes
<1>3. OneTurn' /\ Untried' /\ BindInv' /\ AnswerInv' /\ AskInv' /\ DrainInv' /\ StopInv'
     /\ AuthInv' /\ ToolInv'
  BY <1>1, Framed
<1>4. PipeInv'
  <2>1. \A i \in DOMAIN pipe' : (i \in DOMAIN pipe /\ pipe'[i] = pipe[i]) \/ pipe'[i] = Line("resolved", t, "none")
    BY <1>1, Appended DEF ClientInv, ClientTypes
  <2>2. \A i \in DOMAIN pipe :
          /\ pipe[i].type # "reply" => pipe[i].turn \in Turns /\ call'[pipe[i].turn] # "idle"
          /\ pipe[i].type = "ask" => ask'[pipe[i].turn] # "none"
          /\ pipe[i].type = "reply" /\ pipe[i].body # "ok" /\ pipe[i].turn \in Turns
               => host'[pipe[i].turn] = "rejected"
    BY <1>1 DEF ClientInv, PipeInv
  <2> DEFINE L == Line("resolved", t, "none")
  <2>3. /\ L.type # "reply" => L.turn \in Turns /\ call'[L.turn] # "idle"
        /\ L.type = "ask" => ask'[L.turn] # "none"
        /\ L.type = "reply" /\ L.body # "ok" /\ L.turn \in Turns => host'[L.turn] = "rejected"
    BY <1>1 DEF ClientInv, Untried, Line
  <2> HIDE DEF L
  <2> QED  BY <2>1, <2>2, <2>3 DEF PipeInv, L
<1>5. HostInv'
  BY <1>1, Names, ResultKinds DEF ClientInv, HostInv, ClientTypes, OneTurn, Untried
<1>6. LineInv'
  <2> SUFFICES ASSUME reader' = "reading"
               PROVE  /\ \A u \in Turns :
                           /\ call'[u] = "starting" /\ reply'[u] = "failed"
                                => u \in unbound' \/ host'[u] = "rejected"
                           /\ InFlight(u)' /\ result'[u] # NoResult => u \in finished' \/ u \in unbound'
                           /\ call'[u] = "done" /\ host'[u] \in {"working", "ended"}
                                => u \in finished' \/ u \in unbound'
                      /\ \A i \in DOMAIN pipe' : pipe'[i].type = "ask" =>
                           pipe'[i].turn \in finished' \cup unbound' \/ InFlight(pipe[i].turn)'
    BY DEF LineInv
  <2>1. \A i \in DOMAIN pipe' : (i \in DOMAIN pipe /\ pipe'[i] = pipe[i]) \/ pipe'[i] = Line("resolved", t, "none")
    BY <1>1, Appended DEF ClientInv, ClientTypes
  <2>2. \A u \in Turns : host'[u] = "ended" => host[u] \in {"working", "ended"}
    BY <1>1
  <2>3. \A i \in DOMAIN pipe' : pipe'[i].type = "ask" =>
          pipe'[i].turn \in finished' \cup unbound' \/ InFlight(pipe[i].turn)'
    BY <1>1, <2>1 DEF ClientInv, LineInv, InFlight, Line
  <2> QED  BY <1>1, <2>2, <2>3 DEF ClientInv, LineInv, InFlight
<1>7. NumberedInv'
  <2> SUFFICES ASSUME NEW u \in Turns, Tracked(u)' PROVE Whole(u)'
    BY DEF NumberedInv
  <2>1. Whole(u) /\ ClientTypes
    BY <1>1 DEF ClientInv, NumberedInv, Tracked, InFlight
  <2>2. CASE ~OfTurn(Line("resolved", t, "none"), u)
    <3>1. Other(u)
      BY <1>1, <2>2 DEF Other
    <3> QED  BY <1>1, <2>1, <2>2, <3>1, WholeAlong DEF OfTurn, Line, Texts
  <2>3. ~OfTurn(Line("resolved", t, "none"), u)
    BY DEF OfTurn, Line, Texts
  <2> QED  BY <2>2, <2>3
<1> QED  BY <1>2, <1>3, <1>4, <1>5, <1>6, <1>7 DEF ClientInv

LEMMA HostRepliesStep ==
  ASSUME ClientInv, NEW c \in Calls, NEW b \in {"ok", "error"}, HostReplies(c, b)
  PROVE  ClientInv'
<1>1. /\ proc = "running"
      /\ pipe' = Append(pipe, Line("reply", c, b)) /\ Line("reply", c, b) \in Lines
      /\ \A u \in Turns : host'[u] = IF u = c /\ b = "error" THEN "rejected" ELSE host[u]
      /\ c \in Turns /\ b = "error" => host[c] = "working" /\ ask[c] = "none"
      /\ UNCHANGED <<worker, proc, reader, closing, epoch, reply, starting, bound, current,
                     early, finished, got, result, call, ask, stop, auth, tool, sent, scene,
                     present, late, unbound>>
  BY Names, ResultKinds DEF ClientInv, ClientTypes, HostReplies, Emits, HostUnchanged, Line,
      Lines, Texts, Bodies, conn, rpc, ghost
<1>2. ClientTypes'
  <2>1. pipe' \in Seq(Lines)
    BY Names DEF ClientInv, ClientTypes, HostReplies, Emits, HostUnchanged, Line, Lines, Texts,
        Bodies, conn, rpc, ghost
  <2>2. host' \in [Turns -> {"none", "working", "ended", "rejected", "gone"}]
    BY Names DEF ClientInv, ClientTypes, HostReplies, Emits, HostUnchanged, Line, Lines, Texts,
        Bodies, conn, rpc, ghost
  <2> QED  BY <1>1, <2>1, <2>2, Names, ResultKinds DEF ClientInv, ClientTypes
<1>3. OneTurn' /\ BindInv' /\ AskInv' /\ DrainInv' /\ StopInv' /\ AuthInv' /\ ToolInv'
  BY <1>1, Framed
<1>4. Untried'
  BY <1>1, Names, ResultKinds DEF ClientInv, Untried, ClientTypes, OneTurn, BindInv
<1>5. PipeInv'
  <2>1. \A i \in DOMAIN pipe' : (i \in DOMAIN pipe /\ pipe'[i] = pipe[i]) \/ pipe'[i] = Line("reply", c, b)
    BY <1>1, Appended DEF ClientInv, ClientTypes
  <2>2. \A i \in DOMAIN pipe :
          /\ pipe[i].type # "reply" => pipe[i].turn \in Turns /\ call'[pipe[i].turn] # "idle"
          /\ pipe[i].type = "ask" => ask'[pipe[i].turn] # "none"
          /\ pipe[i].type = "reply" /\ pipe[i].body # "ok" /\ pipe[i].turn \in Turns
               => host'[pipe[i].turn] = "rejected"
    BY <1>1 DEF ClientInv, PipeInv
  <2> DEFINE L == Line("reply", c, b)
  <2>3. /\ L.type # "reply" => L.turn \in Turns /\ call'[L.turn] # "idle"
        /\ L.type = "ask" => ask'[L.turn] # "none"
        /\ L.type = "reply" /\ L.body # "ok" /\ L.turn \in Turns => host'[L.turn] = "rejected"
    BY <1>1 DEF ClientInv, Untried, Line
  <2> HIDE DEF L
  <2> QED  BY <2>1, <2>2, <2>3 DEF PipeInv, L
<1>6. HostInv'
  BY <1>1, Names, ResultKinds DEF ClientInv, HostInv, ClientTypes, OneTurn, Untried
<1>7. AnswerInv'
  BY <1>1, Names, ResultKinds DEF ClientInv, AnswerInv, ClientTypes, BindInv, OneTurn, Untried,
      InFlight
<1>8. LineInv'
  <2> SUFFICES ASSUME reader' = "reading"
               PROVE  /\ \A u \in Turns :
                           /\ call'[u] = "starting" /\ reply'[u] = "failed"
                                => u \in unbound' \/ host'[u] = "rejected"
                           /\ InFlight(u)' /\ result'[u] # NoResult => u \in finished' \/ u \in unbound'
                           /\ call'[u] = "done" /\ host'[u] \in {"working", "ended"}
                                => u \in finished' \/ u \in unbound'
                      /\ \A i \in DOMAIN pipe' : pipe'[i].type = "ask" =>
                           pipe'[i].turn \in finished' \cup unbound' \/ InFlight(pipe[i].turn)'
    BY DEF LineInv
  <2>1. \A i \in DOMAIN pipe' : (i \in DOMAIN pipe /\ pipe'[i] = pipe[i]) \/ pipe'[i] = Line("reply", c, b)
    BY <1>1, Appended DEF ClientInv, ClientTypes
  <2>2. \A u \in Turns : host'[u] = "ended" => host[u] \in {"working", "ended"}
    BY <1>1
  <2>3. \A i \in DOMAIN pipe' : pipe'[i].type = "ask" =>
          pipe'[i].turn \in finished' \cup unbound' \/ InFlight(pipe[i].turn)'
    BY <1>1, <2>1 DEF ClientInv, LineInv, InFlight, Line
  <2> QED  BY <1>1, <2>2, <2>3 DEF ClientInv, LineInv, InFlight
<1>9. NumberedInv'
  <2> SUFFICES ASSUME NEW u \in Turns, Tracked(u)' PROVE Whole(u)'
    BY DEF NumberedInv
  <2>1. Whole(u) /\ ClientTypes
    BY <1>1 DEF ClientInv, NumberedInv, Tracked, InFlight
  <2>2. CASE ~OfTurn(Line("reply", c, b), u)
    <3>1. Other(u)
      BY <1>1, <2>2 DEF Other
    <3> QED  BY <1>1, <2>1, <2>2, <3>1, WholeAlong DEF OfTurn, Line, Texts
  <2>3. ~OfTurn(Line("reply", c, b), u)
    BY DEF OfTurn, Line, Texts
  <2> QED  BY <2>2, <2>3
<1> QED  BY <1>2, <1>3, <1>4, <1>5, <1>6, <1>7, <1>8, <1>9 DEF ClientInv

LEMMA HostExitsStep ==
  ASSUME ClientInv, HostExits
  PROVE  ClientInv'
<1>1. /\ proc' = "gone"
      /\ proc = "running"
      /\ UNCHANGED <<worker, reader, closing, epoch, pipe, host, reply, starting, bound,
                     current, early, finished, got, result, call, ask, stop, auth, tool, sent,
                     scene, present, late, unbound>>
  BY Names, ResultKinds DEF ClientInv, ClientTypes, HostExits, conn, rpc, ghost
<1>2. ClientTypes'
  <2> QED  BY <1>1, Names, ResultKinds DEF ClientInv, ClientTypes
<1>3. OneTurn' /\ Untried' /\ PipeInv' /\ BindInv' /\ AnswerInv' /\ AskInv' /\ LineInv'
     /\ DrainInv' /\ StopInv' /\ AuthInv' /\ ToolInv' /\ NumberedInv'
  BY <1>1, Framed
<1>4. HostInv'
  BY <1>1, Names, ResultKinds DEF ClientInv, HostInv, ClientTypes, OneTurn, Untried
<1> QED  BY <1>2, <1>3, <1>4 DEF ClientInv

-----------------------------------------------------------------------------
(* The reader and the handlers of requests *)

LEMMA ReaderEndsStep ==
  ASSUME ClientInv, ReaderEnds
  PROVE  ClientInv'
<1>1. /\ reader \in {"closing", "cancelled"}
      /\ reader' = "done"
      /\ UNCHANGED <<worker, proc, closing, epoch, pipe, host, reply, starting, bound, current,
                     early, finished, got, result, call, ask, stop, auth, tool, sent, scene,
                     present, late, unbound>>
  BY Names, ResultKinds DEF ClientInv, ClientTypes, ReaderEnds, ReaderUnchanged, Handlers, conn,
      rpc, ghost
<1>2. ClientTypes'
  <2> QED  BY <1>1, Names, ResultKinds DEF ClientInv, ClientTypes
<1>3. OneTurn' /\ Untried' /\ PipeInv' /\ BindInv' /\ AnswerInv' /\ StopInv' /\ AuthInv'
     /\ ToolInv'
  BY <1>1, Framed
<1>4. HostInv'
  BY <1>1, Names, ResultKinds DEF ClientInv, HostInv, ClientTypes, OneTurn, Untried
<1>5. AskInv'
  BY <1>1, Names, ResultKinds DEF ClientInv, AskInv, ClientTypes, BindInv, OneTurn, Untried,
      HostInv, PipeInv, DrainInv, LineInv, QuestionsOfLiveTurns, InFlight, Drained
<1>6. LineInv'
  BY <1>1, Names, ResultKinds DEF ClientInv, LineInv, ClientTypes, BindInv, OneTurn, Untried,
      HostInv, PipeInv, AskInv, InFlight
<1>7. DrainInv'
  BY <1>1, Names, ResultKinds DEF ClientInv, DrainInv, ClientTypes, BindInv, OneTurn, HostInv,
      Untried, Drained, InFlight
<1>8. NumberedInv'
  BY <1>1, NumberedKept, Names, ResultKinds DEF ClientInv, ClientTypes, BindInv, HostInv,
      OneTurn, Tracked, InFlight
<1> QED  BY <1>2, <1>3, <1>4, <1>5, <1>6, <1>7, <1>8 DEF ClientInv

LEMMA HandlerEndsStep ==
  ASSUME ClientInv, NEW t \in Turns, HandlerEnds(t)
  PROVE  ClientInv'
<1>1. /\ ask[t] = "unwinding"
      /\ ask'[t] = "over" /\ \A u \in Turns \ {t} : ask'[u] = ask[u]
      /\ UNCHANGED <<worker, proc, reader, closing, epoch, pipe, host, reply, starting, bound,
                     current, early, finished, got, result, call, stop, auth, tool, sent, scene,
                     present, late, unbound>>
  BY Names, ResultKinds DEF ClientInv, ClientTypes, HandlerEnds, conn, rpc, ghost
<1>2. ClientTypes'
  <2>1. ask' \in [Turns -> {"none", "sent", "open", "unwinding", "over"}]
    BY Names DEF ClientInv, ClientTypes, HandlerEnds, conn, rpc, ghost
  <2> QED  BY <1>1, <2>1, Names, ResultKinds DEF ClientInv, ClientTypes
<1>3. OneTurn' /\ BindInv' /\ AnswerInv' /\ LineInv' /\ DrainInv' /\ StopInv' /\ AuthInv'
     /\ ToolInv' /\ NumberedInv'
  BY <1>1, Framed
<1>4. Untried'
  <2> SUFFICES ASSUME NEW u \in Turns, call'[u] = "idle"
               PROVE  /\ host'[u] = "none" /\ sent'[u] = <<>> /\ got'[u] = <<>> /\ early'[u] = <<>>
                      /\ result'[u] = NoResult /\ ask'[u] = "none" /\ u \notin present'
                      /\ reply'[u] = "none"
    BY DEF Untried
  <2>1. call[u] = "idle" /\ reply[u] = "none" /\ ask[u] = "none" /\ u \notin bound
        /\ host[u] = "none" /\ sent[u] = <<>> /\ got[u] = <<>> /\ early[u] = <<>>
        /\ result[u] = NoResult /\ u \notin present
    BY <1>1 DEF ClientInv, Untried, BindInv
  <2> QED  BY <1>1, <2>1, Names
<1>5. PipeInv'
  BY <1>1, Names, ResultKinds DEF ClientInv, PipeInv, ClientTypes, OneTurn, HostInv, Untried
<1>6. HostInv'
  BY <1>1, Names, ResultKinds DEF ClientInv, HostInv, ClientTypes, OneTurn, Untried
<1>7. AskInv'
  BY <1>1, Names, ResultKinds DEF ClientInv, AskInv, ClientTypes, BindInv, OneTurn, Untried,
      HostInv, PipeInv, DrainInv, LineInv, QuestionsOfLiveTurns, InFlight, Drained
<1> QED  BY <1>2, <1>3, <1>4, <1>5, <1>6, <1>7 DEF ClientInv

LEMMA HumanAnswersStep ==
  ASSUME ClientInv, NEW t \in Turns, HumanAnswers(t)
  PROVE  ClientInv'
<1>1. /\ ask[t] = "open"
      /\ ask'[t] = "over" /\ \A u \in Turns \ {t} : ask'[u] = ask[u]
      /\ UNCHANGED <<worker, proc, reader, closing, epoch, pipe, host, reply, starting, bound,
                     current, early, finished, got, result, call, stop, auth, tool, sent, scene,
                     present, late, unbound>>
  BY Names, ResultKinds DEF ClientInv, ClientTypes, HumanAnswers, conn, rpc, ghost
<1>2. ClientTypes'
  <2>1. ask' \in [Turns -> {"none", "sent", "open", "unwinding", "over"}]
    BY Names DEF ClientInv, ClientTypes, HumanAnswers, conn, rpc, ghost
  <2> QED  BY <1>1, <2>1, Names, ResultKinds DEF ClientInv, ClientTypes
<1>3. OneTurn' /\ BindInv' /\ AnswerInv' /\ LineInv' /\ DrainInv' /\ StopInv' /\ AuthInv'
     /\ ToolInv' /\ NumberedInv'
  BY <1>1, Framed
<1>4. Untried'
  BY <1>1, Names, ResultKinds DEF ClientInv, Untried, ClientTypes, OneTurn, BindInv
<1>5. PipeInv'
  BY <1>1, Names, ResultKinds DEF ClientInv, PipeInv, ClientTypes, OneTurn, HostInv, Untried
<1>6. HostInv'
  BY <1>1, Names, ResultKinds DEF ClientInv, HostInv, ClientTypes, OneTurn, Untried
<1>7. AskInv'
  BY SMTT(30), <1>1, Names, ResultKinds DEF ClientInv, AskInv, ClientTypes, BindInv, OneTurn, Untried,
      HostInv, PipeInv, DrainInv, LineInv, QuestionsOfLiveTurns, InFlight, Drained
<1> QED  BY <1>2, <1>3, <1>4, <1>5, <1>6, <1>7 DEF ClientInv

LEMMA ReaderFailsStep ==
  ASSUME ClientInv, ReaderFails
  PROVE  ClientInv'
<1>1. /\ reader = "reading"
      /\ reader' \in {"done", "closing"}
      /\ reader' = "done" => \A u \in Turns : ask[u] \notin {"open", "unwinding"}
      /\ \A u \in Turns : ask'[u] = IF ask[u] = "open" THEN "unwinding" ELSE ask[u]
      /\ \A c \in Calls : reply'[c] = IF reply[c] = "sent" THEN "failed" ELSE reply[c]
      /\ \A u \in Turns : result'[u] = IF u \in bound /\ result[u] = NoResult THEN Failed ELSE result[u]
      /\ UNCHANGED <<worker, proc, closing, epoch, pipe, host, starting, bound, current, early,
                     finished, got, call, stop, auth, tool, sent, scene, present, late,
                     unbound>>
  BY Names, ResultKinds DEF ClientInv, ClientTypes, ReaderFails, FailAll, Cancelled, Handlers,
      ReaderUnchanged, conn, rpc, ghost
<1>2. ClientTypes'
  <2>1. reply' \in [Calls -> Futures]
    BY Names DEF ClientInv, ClientTypes, ReaderFails, FailAll, Cancelled, Handlers,
        ReaderUnchanged, Futures, conn, rpc, ghost
  <2>2. DOMAIN result' = Turns
    BY Names DEF ClientInv, ClientTypes, ReaderFails, FailAll, Cancelled, Handlers,
        ReaderUnchanged, conn, rpc, ghost
  <2>3. ask' \in [Turns -> {"none", "sent", "open", "unwinding", "over"}]
    BY Names DEF ClientInv, ClientTypes, ReaderFails, FailAll, Cancelled, Handlers,
        ReaderUnchanged, conn, rpc, ghost
  <2> QED  BY Zenon, <1>1, <2>1, <2>2, <2>3, Names, ResultKinds DEF ClientInv, ClientTypes
<1>3. OneTurn' /\ StopInv' /\ AuthInv' /\ ToolInv'
  BY <1>1, Framed
<1>4. Untried'
  BY <1>1, Names, ResultKinds DEF ClientInv, Untried, ClientTypes, OneTurn, BindInv
<1>5. PipeInv'
  BY <1>1, Names, ResultKinds DEF ClientInv, PipeInv, ClientTypes, OneTurn, HostInv, Untried
<1>6. HostInv'
  BY <1>1, Names, ResultKinds DEF ClientInv, HostInv, ClientTypes, OneTurn, Untried
<1>7. BindInv'
  BY <1>1, Names, ResultKinds DEF ClientInv, BindInv, ClientTypes, OneTurn, HostInv, Untried,
      InFlight
<1>8. AnswerInv'
  BY <1>1, Names, ResultKinds DEF ClientInv, AnswerInv, ClientTypes, BindInv, OneTurn, Untried,
      InFlight
<1>9. AskInv'
  BY <1>1, Names, ResultKinds DEF ClientInv, AskInv, ClientTypes, BindInv, OneTurn, Untried,
      HostInv, PipeInv, DrainInv, LineInv, QuestionsOfLiveTurns, InFlight, Drained
<1>10. LineInv'
  BY <1>1, Names, ResultKinds DEF ClientInv, LineInv, ClientTypes, BindInv, OneTurn, Untried,
      HostInv, PipeInv, AskInv, InFlight
<1>11. DrainInv'
  <2> SUFFICES ASSUME Drained'
               PROVE  /\ \A c \in Calls : reply'[c] = "sent" => c \in late'
                      /\ \A u \in Turns : call'[u] = "waiting" /\ result'[u] = NoResult => u \in late'
                      /\ \A u \in bound' : result'[u] # NoResult
    BY DEF DrainInv
  <2>1. \A c \in Calls : reply'[c] # "sent"
    BY <1>1
  <2>2. \A u \in bound : u \in Turns /\ result'[u] # NoResult
    BY <1>1, ResultKinds DEF ClientInv, ClientTypes
  <2>3. \A u \in Turns : call[u] = "waiting" => u \in bound \/ result[u] # NoResult
    BY DEF ClientInv, BindInv
  <2> QED  BY <1>1, <2>1, <2>2, <2>3
<1>12. NumberedInv'
  BY <1>1, NumberedKept, Names, ResultKinds DEF ClientInv, ClientTypes, BindInv, HostInv,
      OneTurn, Tracked, InFlight
<1> QED  BY <1>2, <1>3, <1>4, <1>5, <1>6, <1>7, <1>8, <1>9, <1>10, <1>11, <1>12 DEF ClientInv

-----------------------------------------------------------------------------
(* The caller of a turn *)

LEMMA ResumeStep ==
  ASSUME ClientInv, NEW t \in Turns, Resume(t)
  PROVE  ClientInv'
<1>1. /\ current' \in Maybe
      /\ call[t] = "starting" /\ reply[t] \in {"ok", "failed"}
      /\ starting' = starting \ {t}
      /\ reply'[t] = "none" /\ \A c \in Calls \ {t} : reply'[c] = reply[c]
      /\ \A u \in Turns : early'[u] = IF starting \ {t} = {} THEN <<>> ELSE early[u]
      /\ \A u \in Turns \ {t} : result'[u] = result[u] /\ call'[u] = call[u] /\ (u \in bound' <=> u \in bound)
      /\ \/ reply[t] = "failed" /\ call'[t] = "done" /\ bound' = bound \ {t} /\ result'[t] = Failed
         \/ reply[t] = "ok" /\ result[t] # NoResult /\ call'[t] = "done" /\ bound' = bound \ {t} /\ result'[t] = result[t]
         \/ reply[t] = "ok" /\ result[t] = NoResult /\ call'[t] = "waiting" /\ bound' = bound /\ result'[t] = result[t]
      /\ UNCHANGED <<worker, proc, reader, closing, epoch, pipe, host, finished, got, ask, stop,
                     auth, tool, sent, scene, present, late, unbound>>
  BY Names, ResultKinds DEF ClientInv, ClientTypes, Resume, Finish, Kept, conn, rpc, ghost
<1>2. ClientTypes'
  <2>1. reply' \in [Calls -> Futures]
    BY Names DEF ClientInv, ClientTypes, Resume, Finish, Kept, Futures, conn, rpc, ghost
  <2>2. early' \in [Turns -> Seq(Lines)]
    BY Names DEF ClientInv, ClientTypes, Resume, Finish, Kept, conn, rpc, ghost
  <2>3. DOMAIN result' = Turns
    BY Names DEF ClientInv, ClientTypes, Resume, Finish, Kept, conn, rpc, ghost
  <2>4. call' \in [Turns -> {"idle", "starting", "waiting", "done"}]
    BY ZenonT(60), Names DEF ClientInv, ClientTypes, Resume, Finish, Kept, conn, rpc, ghost
  <2> QED  BY ZenonT(60), <1>1, <2>1, <2>2, <2>3, <2>4, Names, ResultKinds DEF ClientInv, ClientTypes
<1>3. HostInv' /\ StopInv' /\ AuthInv' /\ ToolInv'
  BY <1>1, Framed
<1>4. OneTurn'
  BY <1>1, Names, ResultKinds DEF ClientInv, OneTurn, ClientTypes, BindInv, Workers, InFlight
<1>5. Untried'
  BY SMTT(30), <1>1, Names, ResultKinds DEF ClientInv, Untried, ClientTypes, OneTurn, BindInv
<1>6. PipeInv'
  BY SMTT(30), <1>1, Names, ResultKinds DEF ClientInv, PipeInv, ClientTypes, OneTurn, HostInv, Untried
<1>7. BindInv'
  <2>1. /\ starting' \cap bound' = {}
        /\ \A u \in starting' : u # t /\ u \in starting /\ u \notin bound
        /\ \A u \in bound' : u \in bound /\ u \in Turns
    BY <1>1 DEF ClientInv, BindInv, ClientTypes
  <2>2. \A u \in Turns \ {t} : reply'[u] = reply[u] /\ call'[u] = call[u] /\ result'[u] = result[u]
                                /\ (u \in bound' <=> u \in bound) /\ (u \in starting' <=> u \in starting)
    BY <1>1, Names
  <2>3. \A u \in starting' : call'[u] = "starting" /\ reply'[u] \in {"sent", "failed"}
    BY ZenonT(60), <2>1, <2>2 DEF ClientInv, BindInv, ClientTypes
  <2>4. \A u \in bound' : \/ call'[u] = "starting" /\ reply'[u] \in {"ok", "failed"}
                          \/ call'[u] = "waiting"
    <3> TAKE u \in bound'
    <3>1. CASE u = t
      BY <1>1, <3>1
    <3>2. CASE u # t
      BY <2>1, <2>2, <3>2 DEF ClientInv, BindInv
    <3> QED  BY <3>1, <3>2
  <2>5. \A u \in Turns :
          /\ call'[u] = "starting" => reply'[u] \in {"sent", "ok", "failed"}
          /\ reply'[u] \in {"sent", "ok"} => call'[u] = "starting"
          /\ call'[u] = "starting" /\ reply'[u] = "sent" => u \in starting'
          /\ (call'[u] = "starting" /\ reply'[u] = "ok") \/ call'[u] = "waiting"
               => u \in bound' \/ result'[u] # NoResult
    <3> TAKE u \in Turns
    <3>1. CASE u = t
      BY <1>1, <3>1, ResultKinds DEF ClientInv, BindInv
    <3>2. CASE u # t
      BY <2>2, <3>2 DEF ClientInv, BindInv
    <3> QED  BY <3>1, <3>2
  <2> QED  BY <2>1, <2>3, <2>4, <2>5 DEF BindInv
<1>8. AnswerInv'
  <2> SUFFICES ASSUME NEW u \in Turns, result'[u].kind = "answer",
                      ~(call'[u] = "starting" /\ reply'[u] = "failed")
               PROVE  /\ host'[u] \in {"ended", "gone"}
                      /\ result'[u].text = FinalMessage(sent'[u])
                      /\ result'[u].tools = Of(sent'[u], "tool")
    BY DEF AnswerInv
  <2>1. result'[u] = result[u] /\ host'[u] = host[u] /\ sent'[u] = sent[u]
        /\ ~(call[u] = "starting" /\ reply[u] = "failed")
    BY <1>1, ResultKinds DEF ClientInv, ClientTypes, OneTurn, InFlight
  <2> QED  BY <2>1 DEF ClientInv, AnswerInv
<1>9. AskInv'
  <2>1. ASSUME NEW u \in Turns, ask'[u] = "open"
        PROVE  (InFlight(u)' \/ u \in unbound') /\ reader' = "reading"
               /\ (result'[u] = NoResult \/ u \in unbound')
    <3>1. CASE u = t
      <4>1. t \in unbound \/ (result[t] = NoResult /\ InFlight(t))
        BY <1>1, <2>1, <3>1 DEF ClientInv, AskInv, QuestionsOfLiveTurns, InFlight
      <4>2. reply[t] = "failed" => t \in unbound
        BY <1>1, <2>1, <3>1 DEF ClientInv, AskInv, HostInv, QuestionsOfLiveTurns, LineInv,
            DrainInv
      <4>3. reader' = "reading"
        BY <1>1, <2>1, <3>1 DEF ClientInv, AskInv
      <4>4. InFlight(t)' \/ t \in unbound
        BY <1>1, <4>1, <4>2 DEF InFlight
      <4>5. result'[t] = NoResult \/ t \in unbound
        BY <1>1, <4>1, <4>2
      <4>6. unbound' = unbound
        BY <1>1
      <4> QED  BY <3>1, <4>3, <4>4, <4>5, <4>6
    <3>2. CASE u # t
      BY <1>1, <2>1, <3>2 DEF ClientInv, AskInv, QuestionsOfLiveTurns, InFlight
    <3> QED  BY <3>1, <3>2
  <2> QED  BY <2>1 DEF AskInv, QuestionsOfLiveTurns
<1>10. LineInv'
  <2> SUFFICES ASSUME reader' = "reading"
               PROVE  /\ \A u \in Turns :
                           /\ call'[u] = "starting" /\ reply'[u] = "failed"
                                => u \in unbound' \/ host'[u] = "rejected"
                           /\ call'[u] \in {"starting", "waiting"} /\ result'[u] # NoResult
                                => u \in finished' \/ u \in unbound'
                           /\ call'[u] = "done" /\ host'[u] \in {"working", "ended"}
                                => u \in finished' \/ u \in unbound'
                      /\ \A i \in DOMAIN pipe' : pipe'[i].type = "ask" =>
                           \/ pipe'[i].turn \in finished' \cup unbound'
                           \/ call'[pipe'[i].turn] \in {"starting", "waiting"}
    BY DEF LineInv, InFlight
  <2>2. InFlight(t) /\ (call'[t] = "done" => t \in finished \cup unbound \/ host[t] = "rejected")
    BY <1>1 DEF ClientInv, LineInv, InFlight
  <2>1. ASSUME NEW i \in DOMAIN pipe', pipe'[i].type = "ask"
        PROVE  \/ pipe'[i].turn \in finished' \cup unbound'
               \/ call'[pipe'[i].turn] \in {"starting", "waiting"}
    <3>1. pipe[i].turn \in Turns /\ (pipe[i].turn \in finished \cup unbound \/ InFlight(pipe[i].turn))
      BY <1>1, <2>1 DEF ClientInv, PipeInv, LineInv
    <3>3. ask[pipe[i].turn] # "none"
      BY <1>1, <2>1 DEF ClientInv, PipeInv
    <3>4. host[pipe[i].turn] # "rejected"
      BY <3>1, <3>3 DEF ClientInv, HostInv
    <3> QED  BY <1>1, <2>2, <3>1, <3>4 DEF InFlight
  <2>3. ASSUME NEW u \in Turns
        PROVE  /\ call'[u] = "starting" /\ reply'[u] = "failed"
                    => u \in unbound' \/ host'[u] = "rejected"
               /\ call'[u] \in {"starting", "waiting"} /\ result'[u] # NoResult
                    => u \in finished' \/ u \in unbound'
               /\ call'[u] = "done" /\ host'[u] \in {"working", "ended"}
                    => u \in finished' \/ u \in unbound'
    <3>1. CASE u = t
      BY <1>1, <2>2, <3>1
    <3>2. CASE u # t
      <4>1. u \in Calls
        BY Names
      <4>2. /\ call'[u] = call[u] /\ reply'[u] = reply[u] /\ result'[u] = result[u]
            /\ UNCHANGED <<unbound, finished, host, reader>>
        BY <1>1, <3>2, <4>1
      <4> QED  BY <4>2 DEF ClientInv, LineInv, InFlight
    <3> QED  BY <3>1, <3>2
  <2> QED  BY <2>1, <2>3
<1>11. DrainInv'
  <2> SUFFICES ASSUME Drained'
               PROVE  /\ \A c \in Calls : reply'[c] = "sent" => c \in late'
                      /\ \A u \in Turns : call'[u] = "waiting" /\ result'[u] = NoResult => u \in late'
                      /\ \A u \in bound' : result'[u] # NoResult
    BY DEF DrainInv
  <2>1. Drained
    BY <1>1 DEF Drained
  <2>2. \A c \in Calls : reply'[c] = "sent" => reply[c] = "sent"
    BY <1>1
  <2>3. \A u \in bound' : u \in bound /\ result'[u] # NoResult
    BY <1>1, <2>1, ResultKinds DEF ClientInv, DrainInv, ClientTypes
  <2>4. ASSUME NEW u \in Turns, call'[u] = "waiting", result'[u] = NoResult PROVE u \in late'
    <3>1. CASE u # t
      BY <1>1, <2>1, <2>4, <3>1 DEF ClientInv, DrainInv
    <3>2. CASE u = t
      BY <1>1, <2>1, <2>4, <3>2 DEF ClientInv, DrainInv, BindInv
    <3> QED  BY <3>1, <3>2
  <2> QED  BY <1>1, <2>1, <2>2, <2>3, <2>4 DEF ClientInv, DrainInv
<1>12. NumberedInv'
  <2>1. ASSUME NEW u \in Turns, Tracked(u)'
        PROVE  /\ Tracked(u) /\ early'[u] = early[u] /\ (u \in bound' => u \in bound)
               /\ (host'[u] = "ended" <=> host[u] = "ended")
    <3>1. Tracked(u) /\ (u \in bound' <=> u \in bound) /\ host' = host
      BY <1>1, <2>1, Names, ResultKinds DEF ClientInv, ClientTypes, BindInv, OneTurn, Tracked,
          InFlight
    <3>2. u \in bound \/ u \in starting'
      BY <1>1, <2>1, <3>1, Names DEF ClientInv, BindInv, Tracked, InFlight, ClientTypes, Futures
    <3>3. u \in bound => early[u] = <<>>
      BY <3>1 DEF ClientInv, NumberedInv, Whole
    <3> QED  BY <1>1, <3>1, <3>2, <3>3
  <2> QED  BY <1>1, <2>1, NumberedKept DEF ClientInv
<1> QED  BY <1>2, <1>3, <1>4, <1>5, <1>6, <1>7, <1>8, <1>9, <1>10, <1>11, <1>12 DEF ClientInv

LEMMA CollectStep ==
  ASSUME ClientInv, NEW t \in Turns, Collect(t)
  PROVE  ClientInv'
<1>1. /\ current' \in Maybe
      /\ call[t] = "waiting" /\ result[t] # NoResult
      /\ bound' = bound \ {t}
      /\ call'[t] = "done" /\ \A u \in Turns \ {t} : call'[u] = call[u]
      /\ UNCHANGED <<worker, proc, reader, closing, epoch, pipe, host, reply, starting, early,
                     finished, got, result, ask, stop, auth, tool, sent, scene, present, late,
                     unbound>>
  BY Names, ResultKinds DEF ClientInv, ClientTypes, Collect, Finish, conn, rpc, ghost
<1>2. ClientTypes'
  <2>1. call' \in [Turns -> {"idle", "starting", "waiting", "done"}]
    BY Names DEF ClientInv, ClientTypes, Collect, Finish, conn, rpc, ghost
  <2> QED  BY <1>1, <2>1, Names, ResultKinds DEF ClientInv, ClientTypes
<1>3. HostInv' /\ StopInv' /\ AuthInv' /\ ToolInv'
  BY <1>1, Framed
<1>4. OneTurn'
  BY <1>1, Names, ResultKinds DEF ClientInv, OneTurn, ClientTypes, BindInv, Workers, InFlight
<1>5. Untried'
  BY SMTT(30), <1>1, Names, ResultKinds DEF ClientInv, Untried, ClientTypes, OneTurn, BindInv
<1>6. PipeInv'
  BY <1>1, Names, ResultKinds DEF ClientInv, PipeInv, ClientTypes, OneTurn, HostInv, Untried
<1>7. BindInv'
  BY <1>1, Names, ResultKinds DEF ClientInv, BindInv, ClientTypes, OneTurn, HostInv, Untried,
      InFlight
<1>8. AnswerInv'
  BY <1>1, Names, ResultKinds DEF ClientInv, AnswerInv, ClientTypes, BindInv, OneTurn, Untried,
      InFlight
<1>9. AskInv'
  <2>1. ASSUME NEW u \in Turns, ask'[u] = "open"
        PROVE  (InFlight(u)' \/ u \in unbound') /\ reader' = "reading"
               /\ (result'[u] = NoResult \/ u \in unbound')
    <3>1. CASE u = t
      BY <1>1, <2>1, <3>1 DEF ClientInv, AskInv, QuestionsOfLiveTurns
    <3>2. CASE u # t
      BY <1>1, <2>1, <3>2 DEF ClientInv, AskInv, QuestionsOfLiveTurns, InFlight
    <3> QED  BY <3>1, <3>2
  <2> QED  BY <2>1 DEF AskInv, QuestionsOfLiveTurns
<1>10. LineInv'
  <2> SUFFICES ASSUME reader' = "reading"
               PROVE  /\ \A u \in Turns :
                           /\ call'[u] = "starting" /\ reply'[u] = "failed"
                                => u \in unbound' \/ host'[u] = "rejected"
                           /\ call'[u] \in {"starting", "waiting"} /\ result'[u] # NoResult
                                => u \in finished' \/ u \in unbound'
                           /\ call'[u] = "done" /\ host'[u] \in {"working", "ended"}
                                => u \in finished' \/ u \in unbound'
                      /\ \A i \in DOMAIN pipe' : pipe'[i].type = "ask" =>
                           \/ pipe'[i].turn \in finished' \cup unbound'
                           \/ call'[pipe'[i].turn] \in {"starting", "waiting"}
    BY DEF LineInv, InFlight
  <2>1. ASSUME NEW i \in DOMAIN pipe', pipe'[i].type = "ask"
        PROVE  \/ pipe'[i].turn \in finished' \cup unbound'
               \/ call'[pipe'[i].turn] \in {"starting", "waiting"}
    <3>1. pipe[i].turn \in Turns /\ (pipe[i].turn \in finished \cup unbound \/ InFlight(pipe[i].turn))
      BY <1>1, <2>1 DEF ClientInv, PipeInv, LineInv
    <3>2. InFlight(t) /\ t \in finished \cup unbound
      BY <1>1 DEF ClientInv, LineInv, InFlight
    <3> QED  BY <1>1, <3>1, <3>2 DEF InFlight
  <2> QED  BY <1>1, <2>1 DEF ClientInv, LineInv, InFlight
<1>11. DrainInv'
  BY <1>1, Names, ResultKinds DEF ClientInv, DrainInv, ClientTypes, BindInv, OneTurn, HostInv,
      Untried, Drained, InFlight
<1>12. NumberedInv'
  BY <1>1, NumberedKept, Names, ResultKinds DEF ClientInv, ClientTypes, BindInv, HostInv,
      OneTurn, Tracked, InFlight
<1> QED  BY <1>2, <1>3, <1>4, <1>5, <1>6, <1>7, <1>8, <1>9, <1>10, <1>11, <1>12 DEF ClientInv

-----------------------------------------------------------------------------
(* disconnect() *)

LEMMA CloseStep ==
  ASSUME ClientInv, Close
  PROVE  ClientInv'
<1>1. /\ closing = "open"
      /\ reader' = IF reader \in {"reading", "closing"} THEN "cancelled" ELSE reader
      /\ \A u \in Turns : ask'[u] = IF ask[u] = "open" THEN "unwinding" ELSE ask[u]
      /\ \/ /\ \A u \in Turns : ask[u] \notin {"open", "unwinding"}
            /\ closing' = "stopping" /\ bound' = {}
            /\ \A c \in Calls : reply'[c] = IF reply[c] = "sent" THEN "failed" ELSE reply[c]
            /\ \A u \in Turns : result'[u] = IF u \in bound /\ result[u] = NoResult THEN Failed ELSE result[u]
         \/ /\ closing' = "waiting" /\ result' = result /\ bound' = bound
            /\ reply' = reply
      /\ auth'.host = auth.host /\ auth'.state # "active"
      /\ UNCHANGED <<worker, proc, epoch, pipe, host, starting, current, early, finished, got,
                     call, stop, tool, sent, scene, present, late, unbound>>
  BY Names, ResultKinds DEF ClientInv, ClientTypes, Close, HostRetired, Closed, AuthInv,
      Sources, Disconnect, FailAll, Cancelled, Handlers, conn, rpc, ghost
<1>2. ClientTypes'
  <2>1. ask' \in [Turns -> {"none", "sent", "open", "unwinding", "over"}]
    BY Names DEF ClientInv, ClientTypes, Close, HostRetired, Closed, AuthInv, Sources,
        Disconnect, FailAll, Cancelled, Handlers, conn, rpc, ghost
  <2>2. DOMAIN result' = Turns
    BY Names DEF ClientInv, ClientTypes, Close, HostRetired, Closed, AuthInv, Sources,
        Disconnect, FailAll, Cancelled, Handlers, conn, rpc, ghost
  <2>3. reply' \in [Calls -> Futures]
    BY Names DEF ClientInv, ClientTypes, Close, HostRetired, Closed, AuthInv, Sources,
        Disconnect, FailAll, Cancelled, Handlers, Futures, conn, rpc, ghost
  <2>4. auth' \in Sources
    BY Names DEF ClientInv, ClientTypes, Close, HostRetired, Closed, AuthInv, Sources,
        Disconnect, FailAll, Cancelled, Handlers, conn, rpc, ghost
  <2> QED  BY Zenon, <1>1, <2>1, <2>2, <2>3, <2>4, Names, ResultKinds DEF ClientInv, ClientTypes
<1>3. OneTurn' /\ StopInv' /\ ToolInv'
  BY <1>1, Framed
<1>4. Untried'
  <2> SUFFICES ASSUME NEW u \in Turns, call'[u] = "idle"
               PROVE  /\ host'[u] = "none" /\ sent'[u] = <<>> /\ got'[u] = <<>> /\ early'[u] = <<>>
                      /\ result'[u] = NoResult /\ ask'[u] = "none" /\ u \notin present'
                      /\ reply'[u] = "none"
    BY DEF Untried
  <2>1. call[u] = "idle" /\ reply[u] = "none" /\ ask[u] = "none" /\ u \notin bound
        /\ host[u] = "none" /\ sent[u] = <<>> /\ got[u] = <<>> /\ early[u] = <<>>
        /\ result[u] = NoResult /\ u \notin present
    BY <1>1 DEF ClientInv, Untried, BindInv
  <2> QED  BY <1>1, <2>1, Names
<1>5. PipeInv'
  BY <1>1, Names, ResultKinds DEF ClientInv, PipeInv, ClientTypes, OneTurn, HostInv, Untried
<1>6. HostInv'
  BY <1>1, Names, ResultKinds DEF ClientInv, HostInv, ClientTypes, OneTurn, Untried
<1>7. BindInv'
  BY <1>1, Names, ResultKinds DEF ClientInv, BindInv, ClientTypes, OneTurn, HostInv, Untried,
      InFlight
<1>8. AnswerInv'
  BY <1>1, Names, ResultKinds DEF ClientInv, AnswerInv, ClientTypes, BindInv, OneTurn, Untried,
      InFlight
<1>9. AskInv'
  <2>1. \A u \in Turns : ask'[u] # "open"
    BY <1>1
  <2> QED  BY <2>1 DEF AskInv, QuestionsOfLiveTurns
<1>10. LineInv'
  BY <1>1, Names, ResultKinds DEF ClientInv, LineInv, ClientTypes, BindInv, OneTurn, Untried,
      HostInv, PipeInv, AskInv, InFlight
<1>11. DrainInv'
  <2> SUFFICES ASSUME Drained'
               PROVE  /\ \A c \in Calls : reply'[c] = "sent" => c \in late'
                      /\ \A u \in Turns : call'[u] = "waiting" /\ result'[u] = NoResult => u \in late'
                      /\ \A u \in bound' : result'[u] # NoResult
    BY DEF DrainInv
  <2>3. \A u \in Turns : call[u] = "waiting" => u \in bound \/ result[u] # NoResult
    BY DEF ClientInv, BindInv
  <2>4. CASE closing' = "stopping" /\ closing = "open"
    <3>1. \A c \in Calls : reply'[c] # "sent"
      BY <1>1, <2>4
    <3>2. \A u \in bound : u \in Turns /\ result'[u] # NoResult
      BY <1>1, <2>4, ResultKinds DEF ClientInv, ClientTypes
    <3>4. bound' = {} /\ \A u \in Turns : call'[u] = "waiting" => call[u] = "waiting"
      BY <1>1, <2>4
    <3>5. \A u \in Turns : result[u] # NoResult => result'[u] # NoResult
      BY <1>1, <2>4, ResultKinds
    <3> QED  BY <2>3, <3>1, <3>2, <3>4, <3>5
  <2>5. CASE closing' = "waiting"
    <3>1. Drained
      BY <1>1, <2>5 DEF Drained, ClientInv, ClientTypes, HostInv
    <3> QED  BY <1>1, <2>5, <3>1, Names DEF ClientInv, DrainInv
  <2> QED  BY <1>1, <2>4, <2>5
<1>12. AuthInv'
  BY <1>1, Names, ResultKinds DEF ClientInv, AuthInv, ClientTypes, OneTurn, Untried
<1>13. NumberedInv'
  BY <1>1, NumberedKept, Names, ResultKinds DEF ClientInv, ClientTypes, BindInv, HostInv,
      OneTurn, Tracked, InFlight
<1> QED  BY <1>2, <1>3, <1>4, <1>5, <1>6, <1>7, <1>8, <1>9, <1>10, <1>11, <1>12, <1>13
    DEF ClientInv

LEMMA FailWaitersStep ==
  ASSUME ClientInv, FailWaiters
  PROVE  ClientInv'
<1>1. /\ closing = "waiting"
      /\ closing' = "stopping" /\ bound' = {}
      /\ \A u \in Turns : ask[u] \notin {"open", "unwinding"}
      /\ \A c \in Calls : reply'[c] = IF reply[c] = "sent" THEN "failed" ELSE reply[c]
      /\ \A u \in Turns : result'[u] = IF u \in bound /\ result[u] = NoResult THEN Failed ELSE result[u]
      /\ UNCHANGED <<worker, proc, reader, epoch, pipe, host, starting, current, early,
                     finished, got, call, ask, stop, auth, tool, sent, scene, present, late,
                     unbound>>
  BY Names, ResultKinds DEF ClientInv, ClientTypes, FailWaiters, FailAll, Handlers, conn, rpc,
      ghost
<1>2. ClientTypes'
  <2>1. DOMAIN result' = Turns
    BY Names DEF ClientInv, ClientTypes, FailWaiters, FailAll, Handlers, conn, rpc, ghost
  <2>2. reply' \in [Calls -> Futures]
    BY Names DEF ClientInv, ClientTypes, FailWaiters, FailAll, Handlers, Futures, conn, rpc, ghost
  <2> QED  BY <1>1, <2>1, <2>2, Names, ResultKinds DEF ClientInv, ClientTypes
<1>3. OneTurn' /\ PipeInv' /\ StopInv' /\ AuthInv' /\ ToolInv'
  BY <1>1, Framed
<1>4. Untried'
  <2>1. \A u \in Turns : call[u] = "idle" => u \notin bound
    BY DEF ClientInv, BindInv
  <2> QED  BY <1>1, <2>1, Names DEF ClientInv, Untried
<1>5. HostInv'
  BY <1>1, Names, ResultKinds DEF ClientInv, HostInv, ClientTypes, OneTurn, Untried
<1>6. BindInv'
  BY <1>1, Names, ResultKinds DEF ClientInv, BindInv, ClientTypes, OneTurn, HostInv, Untried,
      InFlight
<1>7. AnswerInv'
  BY <1>1, Names, ResultKinds DEF ClientInv, AnswerInv, ClientTypes, BindInv, OneTurn, Untried,
      InFlight
<1>8. AskInv'
  BY <1>1, Names, ResultKinds DEF ClientInv, AskInv, ClientTypes, BindInv, OneTurn, Untried,
      HostInv, PipeInv, DrainInv, LineInv, QuestionsOfLiveTurns, InFlight, Drained
<1>9. LineInv'
  BY <1>1, Names, ResultKinds DEF ClientInv, LineInv, ClientTypes, BindInv, OneTurn, Untried,
      HostInv, PipeInv, AskInv, InFlight
<1>10. DrainInv'
  <2> SUFFICES ASSUME Drained'
               PROVE  /\ \A c \in Calls : reply'[c] = "sent" => c \in late'
                      /\ \A u \in Turns : call'[u] = "waiting" /\ result'[u] = NoResult => u \in late'
                      /\ \A u \in bound' : result'[u] # NoResult
    BY DEF DrainInv
  <2>1. \A c \in Calls : reply'[c] # "sent"
    BY <1>1
  <2>2. \A u \in bound : u \in Turns /\ result'[u] # NoResult
    BY <1>1, ResultKinds DEF ClientInv, ClientTypes
  <2>3. \A u \in Turns : call[u] = "waiting" => u \in bound \/ result[u] # NoResult
    BY DEF ClientInv, BindInv
  <2> QED  BY <1>1, <2>1, <2>2, <2>3
<1>11. NumberedInv'
  BY <1>1, NumberedKept, Names, ResultKinds DEF ClientInv, ClientTypes, BindInv, HostInv,
      OneTurn, Tracked, InFlight
<1> QED  BY <1>2, <1>3, <1>4, <1>5, <1>6, <1>7, <1>8, <1>9, <1>10, <1>11 DEF ClientInv

LEMMA ProcessStopsStep ==
  ASSUME ClientInv, ProcessStops
  PROVE  ClientInv'
<1>1. /\ closing = "stopping" /\ reader = "done"
      /\ closing' = "closed" /\ proc' = "none" /\ pipe' = <<>>
      /\ \A u \in Turns : host'[u] = IF host[u] = "none" THEN "none" ELSE "gone"
      /\ UNCHANGED <<worker, reader, epoch, reply, starting, bound, current, early, finished,
                     got, result, call, ask, stop, auth, tool, sent, scene, present, late,
                     unbound>>
  BY Names, ResultKinds DEF ClientInv, ClientTypes, ProcessStops, conn, rpc, ghost
<1>2. ClientTypes'
  <2>1. pipe' \in Seq(Lines)
    BY Names DEF ClientInv, ClientTypes, ProcessStops, conn, rpc, ghost
  <2>2. host' \in [Turns -> {"none", "working", "ended", "rejected", "gone"}]
    BY Names DEF ClientInv, ClientTypes, ProcessStops, conn, rpc, ghost
  <2> QED  BY <1>1, <2>1, <2>2, Names, ResultKinds DEF ClientInv, ClientTypes
<1>3. OneTurn' /\ BindInv' /\ AskInv' /\ StopInv' /\ AuthInv' /\ ToolInv'
  BY <1>1, Framed
<1>4. Untried'
  BY <1>1, Names, ResultKinds DEF ClientInv, Untried, ClientTypes, OneTurn, BindInv
<1>5. PipeInv'
  BY <1>1, Names, ResultKinds DEF ClientInv, PipeInv, ClientTypes, OneTurn, HostInv, Untried
<1>6. HostInv'
  BY ZenonT(60), <1>1, Names, ResultKinds DEF ClientInv, HostInv, ClientTypes, OneTurn, Untried
<1>7. AnswerInv'
  BY <1>1, Names, ResultKinds DEF ClientInv, AnswerInv, ClientTypes, BindInv, OneTurn, Untried,
      InFlight
<1>8. LineInv'
  BY <1>1, Names, ResultKinds DEF ClientInv, LineInv, ClientTypes, BindInv, OneTurn, Untried,
      HostInv, PipeInv, AskInv, InFlight
<1>9. DrainInv'
  BY <1>1, Names, ResultKinds DEF ClientInv, DrainInv, ClientTypes, BindInv, OneTurn, HostInv,
      Untried, Drained, InFlight
<1>10. NumberedInv'
  BY <1>1 DEF NumberedInv, Tracked
<1> QED  BY <1>2, <1>3, <1>4, <1>5, <1>6, <1>7, <1>8, <1>9, <1>10 DEF ClientInv

-----------------------------------------------------------------------------
(* interrupt() *)

LEMMA StopStep ==
  ASSUME ClientInv, Stop
  PROVE  ClientInv'
<1>1. /\ worker.at = "turn" /\ stop.at = "idle"
      /\ auth'.host = auth.host
      /\ auth'.state = "active" => auth' = auth /\ auth.turn # worker.turn
      /\ stop'.found = (bound \cap {current}) \cup starting
      /\ stop'.count = stop.count + 1
      /\ present' = {u \in Turns : InFlight(u)}
      /\ UNCHANGED <<worker, proc, reader, closing, epoch, pipe, host, reply, starting, bound,
                     current, early, finished, got, result, call, ask, tool, sent, scene, late,
                     unbound>>
  BY Names, ResultKinds DEF ClientInv, ClientTypes, Stop, Found, Retired, Closed, AuthInv,
      Sources, StopRecords, conn, rpc, ghost
<1>2. ClientTypes'
  <2>1. auth' \in Sources
    BY Names DEF ClientInv, ClientTypes, Stop, Found, Retired, Closed, AuthInv, Sources,
        StopRecords, conn, rpc, ghost
  <2>2. stop' \in StopRecords
    BY Names DEF ClientInv, ClientTypes, Stop, Found, Retired, Closed, AuthInv, Sources,
        StopRecords, conn, rpc, ghost
  <2> QED  BY <1>1, <2>1, <2>2, Names, ResultKinds DEF ClientInv, ClientTypes
<1>3. OneTurn' /\ PipeInv' /\ HostInv' /\ BindInv' /\ AnswerInv' /\ AskInv' /\ LineInv'
     /\ DrainInv' /\ ToolInv' /\ NumberedInv'
  BY <1>1, Framed
<1>4. Untried'
  BY <1>1, Names, ResultKinds DEF ClientInv, Untried, ClientTypes, OneTurn, BindInv
<1>5. StopInv'
  BY <1>1, Names, ResultKinds DEF ClientInv, StopInv, ClientTypes, BindInv, InFlight
<1>6. AuthInv'
  BY <1>1, Names, ResultKinds DEF ClientInv, AuthInv, ClientTypes, OneTurn, Untried
<1> QED  BY <1>2, <1>3, <1>4, <1>5, <1>6 DEF ClientInv

LEMMA StopSendsStep ==
  ASSUME ClientInv, NEW t \in Turns, StopSends(t)
  PROVE  ClientInv'
<1>1. /\ \A u \in Turns : reply'[u] = reply[u]
      /\ stop.at = "waiting"
      /\ t \in bound /\ result[t] = NoResult
      /\ stop'.found \subseteq stop.found /\ stop'.count = stop.count
      /\ \/ reply' = reply
         \/ reader # "done" /\ reply'["interrupt"] = "sent" /\ \A c \in Calls \ {"interrupt"} : reply'[c] = reply[c]
      /\ UNCHANGED <<worker, proc, reader, closing, epoch, pipe, host, starting, bound, current,
                     early, finished, got, result, call, ask, auth, tool, sent, scene, present,
                     late, unbound>>
  <2>1. /\ stop.at = "waiting" /\ t \in bound /\ result[t] = NoResult /\ stop \in StopRecords
        /\ UNCHANGED <<worker, proc, reader, closing, epoch, pipe, host, starting, bound,
                       current, early, finished, got, result, call, ask, auth, tool, sent,
                       scene, present, late, unbound>>
    BY DEF ClientInv, ClientTypes, StopSends, Targets, conn, rpc, ghost
  <2>2. CASE Accepts
    <3>1. /\ reply' = [reply EXCEPT !["interrupt"] = "sent"]
          /\ stop' = [stop EXCEPT !.at = "sent", !.to = t, !.found = @ \ {t}, !.awaited = {}]
      BY <2>2 DEF StopSends
    <3>2. stop'.found \subseteq stop.found /\ stop'.count = stop.count
      BY <2>1, <3>1 DEF StopRecords
    <3>3. reader # "done"
      BY <2>2 DEF Accepts
    <3>4. reply'["interrupt"] = "sent" /\ \A c \in Calls \ {"interrupt"} : reply'[c] = reply[c]
      BY <3>1, Names DEF ClientInv, ClientTypes
    <3> QED  BY <2>1, <3>2, <3>3, <3>4, Names
  <2>3. CASE ~Accepts
    <3>1. reply' = reply /\ stop' = [stop EXCEPT !.at = "idle"]
      BY <2>3 DEF StopSends
    <3> QED  BY <2>1, <3>1 DEF StopRecords
  <2> QED  BY <2>2, <2>3
<1>2. ClientTypes'
  <2>1. reply' \in [Calls -> Futures]
    BY ZenonT(60), Names DEF ClientInv, ClientTypes, StopSends, Targets, Accepts, StopRecords, Futures,
        conn, rpc, ghost
  <2>2. stop' \in StopRecords
    <3>1. stop \in StopRecords /\ t \in Maybe /\ {} \in SUBSET Turns
      BY Names DEF ClientInv, ClientTypes
    <3>2. [stop EXCEPT !.at = "idle"] \in StopRecords
      BY <3>1 DEF StopRecords
    <3>3. stop.found \ {t} \in SUBSET Turns
      BY <3>1 DEF StopRecords
    <3>4. [stop EXCEPT !.at = "sent", !.to = t, !.found = stop.found \ {t}, !.awaited = {}] \in StopRecords
      BY <3>1, <3>3 DEF StopRecords
    <3> QED  BY <3>2, <3>4 DEF StopSends
  <2> QED  BY <1>1, <2>1, <2>2, Names, ResultKinds DEF ClientInv, ClientTypes
<1>3. OneTurn' /\ PipeInv' /\ HostInv' /\ AskInv' /\ ToolInv'
  BY <1>1, Framed
<1>4. Untried'
  BY <1>1, Names, ResultKinds DEF ClientInv, Untried, ClientTypes, OneTurn, BindInv
<1>5. BindInv'
  BY <1>1, Names, ResultKinds DEF ClientInv, BindInv, ClientTypes, OneTurn, HostInv, Untried,
      InFlight
<1>6. AnswerInv'
  BY <1>1, Names, ResultKinds DEF ClientInv, AnswerInv, ClientTypes, BindInv, OneTurn, Untried,
      InFlight
<1>7. LineInv'
  BY <1>1, Names, ResultKinds DEF ClientInv, LineInv, ClientTypes, BindInv, OneTurn, Untried,
      HostInv, PipeInv, AskInv, InFlight
<1>8. DrainInv'
  BY <1>1, Names, ResultKinds DEF ClientInv, DrainInv, ClientTypes, BindInv, OneTurn, HostInv,
      Untried, Drained, InFlight
<1>9. StopInv'
  BY <1>1, Names, ResultKinds DEF ClientInv, StopInv, ClientTypes, BindInv, InFlight
<1>10. AuthInv'
  BY <1>1, Names, ResultKinds DEF ClientInv, AuthInv, ClientTypes, OneTurn, Untried
<1>11. NumberedInv'
  BY <1>1, NumberedKept, Names, ResultKinds DEF ClientInv, ClientTypes, BindInv, HostInv,
      OneTurn, Tracked, InFlight
<1> QED  BY <1>2, <1>3, <1>4, <1>5, <1>6, <1>7, <1>8, <1>9, <1>10, <1>11 DEF ClientInv

LEMMA StopEndsStep ==
  ASSUME ClientInv, StopEnds
  PROVE  ClientInv'
<1>1. /\ stop'.at = "idle" /\ stop'.count = stop.count
      /\ UNCHANGED <<worker, proc, reader, closing, epoch, pipe, host, reply, starting, bound,
                     current, early, finished, got, result, call, ask, auth, tool, sent, scene,
                     present, late, unbound>>
  BY Names, ResultKinds DEF ClientInv, ClientTypes, StopEnds, StopRecords, conn, rpc, ghost
<1>2. ClientTypes'
  <2>1. stop' \in StopRecords
    BY Names DEF ClientInv, ClientTypes, StopEnds, StopRecords, conn, rpc, ghost
  <2> QED  BY <1>1, <2>1, Names, ResultKinds DEF ClientInv, ClientTypes
<1>3. OneTurn' /\ Untried' /\ PipeInv' /\ HostInv' /\ BindInv' /\ AnswerInv' /\ AskInv'
     /\ LineInv' /\ DrainInv' /\ ToolInv' /\ NumberedInv'
  BY <1>1, Framed
<1>4. StopInv'
  BY <1>1, Names, ResultKinds DEF ClientInv, StopInv, ClientTypes, BindInv, InFlight
<1>5. AuthInv'
  BY <1>1, Names, ResultKinds DEF ClientInv, AuthInv, ClientTypes, OneTurn, Untried
<1> QED  BY <1>2, <1>3, <1>4, <1>5 DEF ClientInv

LEMMA StopResumesStep ==
  ASSUME ClientInv, StopResumes
  PROVE  ClientInv'
<1>1. /\ \A u \in Turns : reply'[u] = reply[u]
      /\ stop.at = "sent"
      /\ stop'.found = stop.found /\ stop'.count = stop.count
      /\ reply'["interrupt"] = "none" /\ \A c \in Calls \ {"interrupt"} : reply'[c] = reply[c]
      /\ \A u \in Turns : early'[u] = IF starting = {} THEN <<>> ELSE early[u]
      /\ UNCHANGED <<worker, proc, reader, closing, epoch, pipe, host, starting, bound, current,
                     finished, got, result, call, ask, auth, tool, sent, scene, present, late,
                     unbound>>
  BY Names, ResultKinds DEF ClientInv, ClientTypes, StopResumes, Kept, StopRecords, conn, rpc,
      ghost
<1>2. ClientTypes'
  <2>1. stop' \in StopRecords
    BY Names DEF ClientInv, ClientTypes, StopResumes, Kept, StopRecords, conn, rpc, ghost
  <2>2. reply' \in [Calls -> Futures]
    BY Names DEF ClientInv, ClientTypes, StopResumes, Kept, StopRecords, Futures, conn, rpc, ghost
  <2>3. early' \in [Turns -> Seq(Lines)]
    BY Names DEF ClientInv, ClientTypes, StopResumes, Kept, StopRecords, conn, rpc, ghost
  <2> QED  BY <1>1, <2>1, <2>2, <2>3, Names, ResultKinds DEF ClientInv, ClientTypes
<1>3. OneTurn' /\ PipeInv' /\ HostInv' /\ AskInv' /\ ToolInv'
  BY <1>1, Framed
<1>4. Untried'
  BY <1>1, Names, ResultKinds DEF ClientInv, Untried, ClientTypes, OneTurn, BindInv
<1>5. BindInv'
  BY <1>1, Names, ResultKinds DEF ClientInv, BindInv, ClientTypes, OneTurn, HostInv, Untried,
      InFlight
<1>6. AnswerInv'
  BY <1>1, Names, ResultKinds DEF ClientInv, AnswerInv, ClientTypes, BindInv, OneTurn, Untried,
      InFlight
<1>7. LineInv'
  BY <1>1, Names, ResultKinds DEF ClientInv, LineInv, ClientTypes, BindInv, OneTurn, Untried,
      HostInv, PipeInv, AskInv, InFlight
<1>8. DrainInv'
  BY <1>1, Names, ResultKinds DEF ClientInv, DrainInv, ClientTypes, BindInv, OneTurn, HostInv,
      Untried, Drained, InFlight
<1>9. StopInv'
  BY <1>1, Names, ResultKinds DEF ClientInv, StopInv, ClientTypes, BindInv, InFlight
<1>10. AuthInv'
  BY <1>1, Names, ResultKinds DEF ClientInv, AuthInv, ClientTypes, OneTurn, Untried
<1>11. NumberedInv'
  <2>1. ASSUME NEW u \in Turns, Tracked(u)'
        PROVE  /\ Tracked(u) /\ early'[u] = early[u] /\ (u \in bound' => u \in bound)
               /\ (host'[u] = "ended" <=> host[u] = "ended")
    <3>1. Tracked(u) /\ (u \in bound' <=> u \in bound) /\ host' = host
      BY <1>1, <2>1, Names, ResultKinds DEF ClientInv, ClientTypes, BindInv, OneTurn, Tracked,
          InFlight
    <3>2. u \in bound \/ u \in starting'
      BY <1>1, <2>1, <3>1, Names DEF ClientInv, BindInv, Tracked, InFlight, ClientTypes, Futures
    <3>3. u \in bound => early[u] = <<>>
      BY <3>1 DEF ClientInv, NumberedInv, Whole
    <3> QED  BY <1>1, <3>1, <3>2, <3>3
  <2> QED  BY <1>1, <2>1, NumberedKept DEF ClientInv
<1> QED  BY <1>2, <1>3, <1>4, <1>5, <1>6, <1>7, <1>8, <1>9, <1>10, <1>11 DEF ClientInv

LEMMA StopTimesOutStep ==
  ASSUME ClientInv, StopTimesOut
  PROVE  ClientInv'
<1>1. /\ closing = "open"
      /\ reader' = IF reader \in {"reading", "closing"} THEN "cancelled" ELSE reader
      /\ \A u \in Turns : ask'[u] = IF ask[u] = "open" THEN "unwinding" ELSE ask[u]
      /\ \/ /\ \A u \in Turns : ask[u] \notin {"open", "unwinding"}
            /\ closing' = "stopping" /\ bound' = {}
            /\ \A c \in Calls : reply'[c] = IF reply[c] = "sent" THEN "failed" ELSE reply[c]
            /\ \A u \in Turns : result'[u] = IF u \in bound /\ result[u] = NoResult THEN Failed ELSE result[u]
         \/ /\ closing' = "waiting" /\ result' = result /\ bound' = bound
            /\ reply'["interrupt"] = "none" /\ \A c \in Calls \ {"interrupt"} : reply'[c] = reply[c]
      /\ auth'.host = auth.host /\ auth'.state # "active"
      /\ stop'.at = "idle" /\ stop'.count = stop.count
      /\ \A u \in Turns : early'[u] = IF starting = {} THEN <<>> ELSE early[u]
      /\ UNCHANGED <<worker, proc, epoch, pipe, host, starting, current, finished, got, call,
                     tool, sent, scene, present, late, unbound>>
  BY SMTT(30), Names, ResultKinds DEF ClientInv, ClientTypes, StopTimesOut, Kept, HostRetired, Closed,
      AuthInv, Sources, StopRecords, Disconnect, FailAll, Cancelled, Handlers, conn, rpc, ghost
<1>2. ClientTypes'
  <2>1. ask' \in [Turns -> {"none", "sent", "open", "unwinding", "over"}]
    BY Names DEF ClientInv, ClientTypes, StopTimesOut, Kept, HostRetired, Closed, AuthInv,
        Sources, StopRecords, Disconnect, FailAll, Cancelled, Handlers, conn, rpc, ghost
  <2>2. DOMAIN result' = Turns
    BY Names DEF ClientInv, ClientTypes, StopTimesOut, Kept, HostRetired, Closed, AuthInv,
        Sources, StopRecords, Disconnect, FailAll, Cancelled, Handlers, conn, rpc, ghost
  <2>3. reply' \in [Calls -> Futures]
    <3>1. reply \in [Calls -> Futures]
      BY DEF ClientInv, ClientTypes
    <3>2. \/ reply' = [c \in Calls |-> IF reply[c] = "sent" THEN "failed" ELSE reply[c]]
          \/ reply' = [reply EXCEPT !["interrupt"] = "none"]
          \/ reply' = reply
      BY DEF StopTimesOut, Disconnect, FailAll
    <3>3. [c \in Calls |-> IF reply[c] = "sent" THEN "failed" ELSE reply[c]] \in [Calls -> Futures]
      BY <3>1 DEF Futures
    <3>4. [reply EXCEPT !["interrupt"] = "none"] \in [Calls -> Futures]
      BY <3>1 DEF Futures
    <3> QED  BY <3>1, <3>2, <3>3, <3>4
  <2>4. auth' \in Sources
    BY Names DEF ClientInv, ClientTypes, StopTimesOut, Kept, HostRetired, Closed, AuthInv,
        Sources, StopRecords, Disconnect, FailAll, Cancelled, Handlers, conn, rpc, ghost
  <2>5. stop' \in StopRecords
    BY Names DEF ClientInv, ClientTypes, StopTimesOut, Kept, HostRetired, Closed, AuthInv,
        Sources, StopRecords, Disconnect, FailAll, Cancelled, Handlers, conn, rpc, ghost
  <2>6. early' \in [Turns -> Seq(Lines)]
    BY Names DEF ClientInv, ClientTypes, StopTimesOut, Kept, HostRetired, Closed, AuthInv,
        Sources, StopRecords, Disconnect, FailAll, Cancelled, Handlers, conn, rpc, ghost
  <2> QED  BY ZenonT(60), <1>1, <2>1, <2>2, <2>3, <2>4, <2>5, <2>6, Names, ResultKinds DEF ClientInv,
      ClientTypes
<1>3. OneTurn' /\ ToolInv'
  BY <1>1, Framed
<1>4. Untried'
  <2> SUFFICES ASSUME NEW u \in Turns, call'[u] = "idle"
               PROVE  /\ host'[u] = "none" /\ sent'[u] = <<>> /\ got'[u] = <<>> /\ early'[u] = <<>>
                      /\ result'[u] = NoResult /\ ask'[u] = "none" /\ u \notin present'
                      /\ reply'[u] = "none"
    BY DEF Untried
  <2>1. call[u] = "idle" /\ reply[u] = "none" /\ ask[u] = "none" /\ u \notin bound
        /\ host[u] = "none" /\ sent[u] = <<>> /\ got[u] = <<>> /\ early[u] = <<>>
        /\ result[u] = NoResult /\ u \notin present
    BY <1>1 DEF ClientInv, Untried, BindInv
  <2> QED  BY <1>1, <2>1, Names
<1>5. PipeInv'
  BY <1>1, Names, ResultKinds DEF ClientInv, PipeInv, ClientTypes, OneTurn, HostInv, Untried
<1>6. HostInv'
  BY <1>1, Names, ResultKinds DEF ClientInv, HostInv, ClientTypes, OneTurn, Untried
<1>7. BindInv'
  <2>1. \A u \in Turns : reply'[u] = reply[u] \/ (reply[u] = "sent" /\ reply'[u] = "failed")
    <3> TAKE u \in Turns
    <3>1. u \in Calls /\ u # "interrupt"
      BY Names
    <3>2. CASE closing' = "stopping"
      <4>1. \A c \in Calls : reply'[c] = IF reply[c] = "sent" THEN "failed" ELSE reply[c]
        BY <1>1, <3>2
      <4>2. reply'[u] = IF reply[u] = "sent" THEN "failed" ELSE reply[u]
        BY <3>1, <4>1, Zenon
      <4> QED  BY <4>2
    <3>3. CASE closing' = "waiting"
      <4>1. \A c \in Calls \ {"interrupt"} : reply'[c] = reply[c]
        BY <1>1, <3>3
      <4> QED  BY <3>1, <4>1, Zenon
    <3> QED  BY <1>1, <3>2, <3>3
  <2>2. \A u \in bound' : u \in bound
    BY <1>1
  <2>3. \A u \in Turns : u \in bound \/ result[u] # NoResult => u \in bound' \/ result'[u] # NoResult
    BY <1>1, ResultKinds
  <2>4. starting' = starting /\ call' = call
    BY <1>1
  <2> QED  BY ZenonT(60), <2>1, <2>2, <2>3, <2>4 DEF ClientInv, BindInv, ClientTypes
<1>8. AnswerInv'
  BY <1>1, Names, ResultKinds DEF ClientInv, AnswerInv, ClientTypes, BindInv, OneTurn, Untried,
      InFlight
<1>9. AskInv'
  <2>1. \A u \in Turns : ask'[u] # "open"
    BY <1>1
  <2> QED  BY <2>1 DEF AskInv, QuestionsOfLiveTurns
<1>10. LineInv'
  BY <1>1, Names, ResultKinds DEF ClientInv, LineInv, ClientTypes, BindInv, OneTurn, Untried,
      HostInv, PipeInv, AskInv, InFlight
<1>11. DrainInv'
  <2> SUFFICES ASSUME Drained'
               PROVE  /\ \A c \in Calls : reply'[c] = "sent" => c \in late'
                      /\ \A u \in Turns : call'[u] = "waiting" /\ result'[u] = NoResult => u \in late'
                      /\ \A u \in bound' : result'[u] # NoResult
    BY DEF DrainInv
  <2>3. \A u \in Turns : call[u] = "waiting" => u \in bound \/ result[u] # NoResult
    BY DEF ClientInv, BindInv
  <2>4. CASE closing' = "stopping" /\ closing = "open"
    <3>1. \A c \in Calls : reply'[c] # "sent"
      BY <1>1, <2>4
    <3>2. \A u \in bound : u \in Turns /\ result'[u] # NoResult
      BY <1>1, <2>4, ResultKinds DEF ClientInv, ClientTypes
    <3>4. bound' = {} /\ \A u \in Turns : call'[u] = "waiting" => call[u] = "waiting"
      BY <1>1, <2>4
    <3>5. \A u \in Turns : result[u] # NoResult => result'[u] # NoResult
      BY <1>1, <2>4, ResultKinds
    <3> QED  BY <2>3, <3>1, <3>2, <3>4, <3>5
  <2>5. CASE closing' = "waiting"
    <3>1. Drained
      BY <1>1, <2>5 DEF Drained, ClientInv, ClientTypes, HostInv
    <3> QED  BY <1>1, <2>5, <3>1, Names DEF ClientInv, DrainInv
  <2> QED  BY <1>1, <2>4, <2>5
<1>12. StopInv'
  BY <1>1, Names, ResultKinds DEF ClientInv, StopInv, ClientTypes, BindInv, InFlight
<1>13. AuthInv'
  BY <1>1, Names, ResultKinds DEF ClientInv, AuthInv, ClientTypes, OneTurn, Untried
<1>14. NumberedInv'
  BY <1>1, NumberedKept, Names, ResultKinds DEF ClientInv, ClientTypes, BindInv, HostInv,
      OneTurn, Tracked, InFlight
<1> QED  BY <1>2, <1>3, <1>4, <1>5, <1>6, <1>7, <1>8, <1>9, <1>10, <1>11, <1>12, <1>13, <1>14
    DEF ClientInv

-----------------------------------------------------------------------------
(* The session's worker *)

LEMMA LaunchStep ==
  ASSUME ClientInv, NEW t \in Turns, Launch(t)
  PROVE  ClientInv'
<1>1. /\ current' \in Maybe
      /\ worker.at = "idle" /\ call[t] = "idle" /\ closing = "closed" /\ stop.at = "idle"
      /\ epoch' = epoch + 1 /\ epoch < MaxHosts
      /\ proc' = "running" /\ reader' = "reading" /\ closing' = "open"
      /\ starting' = {} /\ bound' = {} /\ finished' = {}
      /\ \A u \in Turns : early'[u] = <<>>
      /\ \A u \in Turns : reply'[u] = "none"
      /\ auth'.host = epoch' /\ auth'.state = "idle"
      /\ worker' = [at |-> "initialize", turn |-> t]
      /\ UNCHANGED <<pipe, host, got, result, call, ask, stop, tool, sent, scene, present, late,
                     unbound>>
  BY Names, ResultKinds DEF ClientInv, ClientTypes, Launch, NewHost, At, WorkerUnchanged, conn,
      rpc, ghost
<1>2. \A u \in Turns : call[u] \notin {"starting", "waiting"}
  BY <1>1, Names DEF ClientInv, OneTurn, InFlight
<1>3. ClientTypes'
  <2>1. worker' \in Workers
    BY Names DEF ClientInv, ClientTypes, Launch, NewHost, At, WorkerUnchanged, Workers, conn,
        rpc, ghost
  <2>2. reply' \in [Calls -> Futures]
    BY Names DEF ClientInv, ClientTypes, Launch, NewHost, At, WorkerUnchanged, Futures, conn,
        rpc, ghost
  <2>3. early' \in [Turns -> Seq(Lines)]
    BY Names DEF ClientInv, ClientTypes, Launch, NewHost, At, WorkerUnchanged, conn, rpc, ghost
  <2>4. auth' \in Sources
    BY Names DEF ClientInv, ClientTypes, Launch, NewHost, At, WorkerUnchanged, Sources, conn,
        rpc, ghost
  <2> QED  BY <1>1, <2>1, <2>2, <2>3, <2>4, Names, ResultKinds DEF ClientInv, ClientTypes
<1>4. PipeInv' /\ StopInv' /\ ToolInv'
  BY <1>1, Framed
<1>5. OneTurn'
  BY <1>1, <1>2, Names, ResultKinds DEF ClientInv, OneTurn, ClientTypes, BindInv, Workers,
      InFlight
<1>6. Untried'
  BY <1>1, <1>2, Names, ResultKinds DEF ClientInv, Untried, ClientTypes, OneTurn, BindInv
<1>7. HostInv'
  BY <1>1, <1>2, Names, ResultKinds DEF ClientInv, HostInv, ClientTypes, OneTurn, Untried
<1>8. BindInv'
  BY <1>1, <1>2, Names, ResultKinds DEF ClientInv, BindInv, ClientTypes, OneTurn, HostInv,
      Untried, InFlight
<1>9. AnswerInv'
  BY <1>1, <1>2, Names, ResultKinds DEF ClientInv, AnswerInv, ClientTypes, BindInv, OneTurn,
      Untried, InFlight
<1>10. AskInv'
  BY <1>1, <1>2, Names, ResultKinds DEF ClientInv, AskInv, ClientTypes, BindInv, OneTurn,
      Untried, HostInv, PipeInv, DrainInv, LineInv, QuestionsOfLiveTurns, InFlight, Drained
<1>11. LineInv'
  <2> SUFFICES ASSUME reader' = "reading"
               PROVE  /\ \A u \in Turns :
                           /\ call'[u] = "starting" /\ reply'[u] = "failed"
                                => u \in unbound' \/ host'[u] = "rejected"
                           /\ call'[u] \in {"starting", "waiting"} /\ result'[u] # NoResult
                                => u \in finished' \/ u \in unbound'
                           /\ call'[u] = "done" /\ host'[u] \in {"working", "ended"}
                                => u \in finished' \/ u \in unbound'
                      /\ \A i \in DOMAIN pipe' : pipe'[i].type = "ask" =>
                           \/ pipe'[i].turn \in finished' \cup unbound'
                           \/ call'[pipe'[i].turn] \in {"starting", "waiting"}
    BY DEF LineInv, InFlight
  <2>1. pipe' = <<>> /\ (\A u \in Turns : host'[u] \notin {"working", "ended"})
        /\ \A u \in Turns : call'[u] \notin {"starting", "waiting"}
    BY <1>1, <1>2 DEF ClientInv, HostInv
  <2> QED  BY <2>1
<1>12. DrainInv'
  BY <1>1, <1>2, Names, ResultKinds DEF ClientInv, DrainInv, ClientTypes, BindInv, OneTurn,
      HostInv, Untried, Drained, InFlight
<1>13. AuthInv'
  BY <1>1, <1>2, Names, ResultKinds DEF ClientInv, AuthInv, ClientTypes, OneTurn, Untried
<1>14. NumberedInv'
  BY <1>1, <1>2, NumberedKept, Names, ResultKinds DEF ClientInv, ClientTypes, BindInv, HostInv,
      OneTurn, Tracked, InFlight
<1> QED  BY <1>3, <1>4, <1>5, <1>6, <1>7, <1>8, <1>9, <1>10, <1>11, <1>12, <1>13, <1>14
    DEF ClientInv

LEMMA ReuseStep ==
  ASSUME ClientInv, NEW t \in Turns, Reuse(t)
  PROVE  ClientInv'
<1>1. /\ worker.at = "idle" /\ call[t] = "idle" /\ closing = "open"
      /\ worker' = [at |-> "ready", turn |-> t]
      /\ UNCHANGED <<proc, reader, closing, epoch, pipe, host, reply, starting, bound, current,
                     early, finished, got, result, call, ask, stop, auth, tool, sent, scene,
                     present, late, unbound>>
  BY Names, ResultKinds DEF ClientInv, ClientTypes, Reuse, Alive, At, WorkerUnchanged, conn,
      rpc, ghost
<1>2. \A u \in Turns : call[u] \notin {"starting", "waiting"}
  BY <1>1, Names DEF ClientInv, OneTurn, InFlight
<1>3. ClientTypes'
  <2>1. worker' \in Workers
    BY Names DEF ClientInv, ClientTypes, Reuse, Alive, At, WorkerUnchanged, Workers, conn, rpc,
        ghost
  <2> QED  BY <1>1, <2>1, Names, ResultKinds DEF ClientInv, ClientTypes
<1>4. Untried' /\ PipeInv' /\ HostInv' /\ BindInv' /\ AnswerInv' /\ AskInv' /\ LineInv'
     /\ DrainInv' /\ StopInv' /\ ToolInv' /\ NumberedInv'
  BY <1>1, Framed
<1>5. OneTurn'
  BY <1>1, <1>2, Names, ResultKinds DEF ClientInv, OneTurn, ClientTypes, BindInv, Workers,
      InFlight
<1>6. AuthInv'
  BY <1>1, <1>2, Names, ResultKinds DEF ClientInv, AuthInv, ClientTypes, OneTurn, Untried
<1> QED  BY <1>3, <1>4, <1>5, <1>6 DEF ClientInv

LEMMA DiscardStep ==
  ASSUME ClientInv, Discard
  PROVE  ClientInv'
<1>1. /\ worker.at = "idle" /\ closing = "open"
      /\ reader' = IF reader \in {"reading", "closing"} THEN "cancelled" ELSE reader
      /\ \A u \in Turns : ask'[u] = IF ask[u] = "open" THEN "unwinding" ELSE ask[u]
      /\ \/ /\ \A u \in Turns : ask[u] \notin {"open", "unwinding"}
            /\ closing' = "stopping" /\ bound' = {}
            /\ \A c \in Calls : reply'[c] = IF reply[c] = "sent" THEN "failed" ELSE reply[c]
            /\ \A u \in Turns : result'[u] = IF u \in bound /\ result[u] = NoResult THEN Failed ELSE result[u]
         \/ /\ closing' = "waiting" /\ result' = result /\ bound' = bound
            /\ reply' = reply
      /\ UNCHANGED <<worker, proc, epoch, pipe, host, starting, current, early, finished, got,
                     call, stop, auth, tool, sent, scene, present, late, unbound>>
  BY Names, ResultKinds DEF ClientInv, ClientTypes, Discard, WorkerUnchanged, Disconnect,
      FailAll, Cancelled, Handlers, conn, rpc, ghost
<1>2. \A u \in Turns : call[u] \notin {"starting", "waiting"}
  BY <1>1, Names DEF ClientInv, OneTurn, InFlight
<1>3. ClientTypes'
  <2>1. ask' \in [Turns -> {"none", "sent", "open", "unwinding", "over"}]
    BY Names DEF ClientInv, ClientTypes, Discard, WorkerUnchanged, Disconnect, FailAll,
        Cancelled, Handlers, conn, rpc, ghost
  <2>2. DOMAIN result' = Turns
    BY Names DEF ClientInv, ClientTypes, Discard, WorkerUnchanged, Disconnect, FailAll,
        Cancelled, Handlers, conn, rpc, ghost
  <2>3. reply' \in [Calls -> Futures]
    BY Names DEF ClientInv, ClientTypes, Discard, WorkerUnchanged, Disconnect, FailAll,
        Cancelled, Handlers, Futures, conn, rpc, ghost
  <2> QED  BY <1>1, <2>1, <2>2, <2>3, Names, ResultKinds DEF ClientInv, ClientTypes
<1>4. OneTurn' /\ StopInv' /\ AuthInv' /\ ToolInv'
  BY <1>1, Framed
<1>5. Untried'
  BY <1>1, <1>2, Names, ResultKinds DEF ClientInv, Untried, ClientTypes, OneTurn, BindInv
<1>6. PipeInv'
  BY <1>1, <1>2, Names, ResultKinds DEF ClientInv, PipeInv, ClientTypes, OneTurn, HostInv, Untried
<1>7. HostInv'
  BY <1>1, <1>2, Names, ResultKinds DEF ClientInv, HostInv, ClientTypes, OneTurn, Untried
<1>8. BindInv'
  BY <1>1, <1>2, Names, ResultKinds DEF ClientInv, BindInv, ClientTypes, OneTurn, HostInv,
      Untried, InFlight
<1>9. AnswerInv'
  BY <1>1, <1>2, Names, ResultKinds DEF ClientInv, AnswerInv, ClientTypes, BindInv, OneTurn,
      Untried, InFlight
<1>10. AskInv'
  <2>1. \A u \in Turns : ask'[u] # "open"
    BY <1>1
  <2> QED  BY <2>1 DEF AskInv, QuestionsOfLiveTurns
<1>11. LineInv'
  BY <1>1, <1>2, Names, ResultKinds DEF ClientInv, LineInv, ClientTypes, BindInv, OneTurn,
      Untried, HostInv, PipeInv, AskInv, InFlight
<1>12. DrainInv'
  <2> SUFFICES ASSUME Drained'
               PROVE  /\ \A c \in Calls : reply'[c] = "sent" => c \in late'
                      /\ \A u \in Turns : call'[u] = "waiting" /\ result'[u] = NoResult => u \in late'
                      /\ \A u \in bound' : result'[u] # NoResult
    BY DEF DrainInv
  <2>3. \A u \in Turns : call[u] = "waiting" => u \in bound \/ result[u] # NoResult
    BY DEF ClientInv, BindInv
  <2>4. CASE closing' = "stopping" /\ closing = "open"
    <3>1. \A c \in Calls : reply'[c] # "sent"
      BY <1>1, <2>4
    <3>2. \A u \in bound : u \in Turns /\ result'[u] # NoResult
      BY <1>1, <2>4, ResultKinds DEF ClientInv, ClientTypes
    <3>4. bound' = {} /\ \A u \in Turns : call'[u] = "waiting" => call[u] = "waiting"
      BY <1>1, <2>4
    <3>5. \A u \in Turns : result[u] # NoResult => result'[u] # NoResult
      BY <1>1, <2>4, ResultKinds
    <3> QED  BY <2>3, <3>1, <3>2, <3>4, <3>5
  <2>5. CASE closing' = "waiting"
    <3>1. Drained
      BY <1>1, <2>5 DEF Drained, ClientInv, ClientTypes, HostInv
    <3> QED  BY <1>1, <2>5, <3>1, Names DEF ClientInv, DrainInv
  <2> QED  BY <1>1, <2>4, <2>5
<1>13. NumberedInv'
  BY <1>1, <1>2, NumberedKept, Names, ResultKinds DEF ClientInv, ClientTypes, BindInv, HostInv,
      OneTurn, Tracked, InFlight
<1> QED  BY <1>3, <1>4, <1>5, <1>6, <1>7, <1>8, <1>9, <1>10, <1>11, <1>12, <1>13 DEF ClientInv

LEMMA OpensThreadStep ==
  ASSUME ClientInv, NEW t \in Turns, Opens("initialize", "thread", "initialize", t)
  PROVE  ClientInv'
<1>1. /\ \A u \in Turns : reply'[u] = reply[u]
      /\ worker = [at |-> "initialize", turn |-> t]
      /\ worker' = [at |-> "thread", turn |-> t]
      /\ reply'["thread"] = "sent" /\ \A c \in Calls \ {"thread"} : reply'[c] = reply[c]
      /\ late' = IF reader = "reading" THEN late ELSE late \cup {"thread"}
      /\ UNCHANGED <<proc, reader, closing, epoch, pipe, host, starting, bound, current, early,
                     finished, got, result, call, ask, stop, auth, tool, sent, scene, present,
                     unbound>>
  BY Names, ResultKinds DEF ClientInv, ClientTypes, Opens, Accepts, Sends, At, WorkerUnchanged,
      conn, rpc, ghost
<1>2. \A u \in Turns : call[u] \notin {"starting", "waiting"}
  BY <1>1, Names DEF ClientInv, OneTurn, InFlight
<1>3. ClientTypes'
  <2>1. worker' \in Workers
    BY Names DEF ClientInv, ClientTypes, Opens, Accepts, Sends, At, WorkerUnchanged, Workers,
        conn, rpc, ghost
  <2>2. reply' \in [Calls -> Futures]
    BY Names DEF ClientInv, ClientTypes, Opens, Accepts, Sends, At, WorkerUnchanged, Futures,
        conn, rpc, ghost
  <2> QED  BY <1>1, <2>1, <2>2, Names, ResultKinds DEF ClientInv, ClientTypes
<1>4. PipeInv' /\ HostInv' /\ AskInv' /\ StopInv' /\ ToolInv'
  BY <1>1, Framed
<1>5. OneTurn'
  BY <1>1, <1>2, Names, ResultKinds DEF ClientInv, OneTurn, ClientTypes, BindInv, Workers,
      InFlight
<1>6. Untried'
  BY <1>1, <1>2, Names, ResultKinds DEF ClientInv, Untried, ClientTypes, OneTurn, BindInv
<1>7. BindInv'
  BY <1>1, <1>2, Names, ResultKinds DEF ClientInv, BindInv, ClientTypes, OneTurn, HostInv,
      Untried, InFlight
<1>8. AnswerInv'
  BY <1>1, <1>2, Names, ResultKinds DEF ClientInv, AnswerInv, ClientTypes, BindInv, OneTurn,
      Untried, InFlight
<1>9. LineInv'
  BY <1>1, <1>2, Names, ResultKinds DEF ClientInv, LineInv, ClientTypes, BindInv, OneTurn,
      Untried, HostInv, PipeInv, AskInv, InFlight
<1>10. DrainInv'
  BY <1>1, <1>2, Names, ResultKinds DEF ClientInv, DrainInv, ClientTypes, BindInv, OneTurn,
      HostInv, Untried, Drained, InFlight
<1>11. AuthInv'
  BY <1>1, <1>2, Names, ResultKinds DEF ClientInv, AuthInv, ClientTypes, OneTurn, Untried
<1>12. NumberedInv'
  BY <1>1, <1>2, NumberedKept, Names, ResultKinds DEF ClientInv, ClientTypes, BindInv, HostInv,
      OneTurn, Tracked, InFlight
<1> QED  BY <1>3, <1>4, <1>5, <1>6, <1>7, <1>8, <1>9, <1>10, <1>11, <1>12 DEF ClientInv

LEMMA OpenedStep ==
  ASSUME ClientInv, NEW t \in Turns, Opened(t)
  PROVE  ClientInv'
<1>1. /\ worker = [at |-> "thread", turn |-> t]
      /\ worker' = [at |-> "ready", turn |-> t]
      /\ UNCHANGED <<proc, reader, closing, epoch, pipe, host, reply, starting, bound, current,
                     early, finished, got, result, call, ask, stop, auth, tool, sent, scene,
                     present, late, unbound>>
  BY Names, ResultKinds DEF ClientInv, ClientTypes, Opened, At, WorkerUnchanged, conn, rpc, ghost
<1>2. \A u \in Turns : call[u] \notin {"starting", "waiting"}
  BY <1>1, Names DEF ClientInv, OneTurn, InFlight
<1>3. ClientTypes'
  <2>1. worker' \in Workers
    BY Names DEF ClientInv, ClientTypes, Opened, At, WorkerUnchanged, Workers, conn, rpc, ghost
  <2> QED  BY <1>1, <2>1, Names, ResultKinds DEF ClientInv, ClientTypes
<1>4. Untried' /\ PipeInv' /\ HostInv' /\ BindInv' /\ AnswerInv' /\ AskInv' /\ LineInv'
     /\ DrainInv' /\ StopInv' /\ ToolInv' /\ NumberedInv'
  BY <1>1, Framed
<1>5. OneTurn'
  BY <1>1, <1>2, Names, ResultKinds DEF ClientInv, OneTurn, ClientTypes, BindInv, Workers,
      InFlight
<1>6. AuthInv'
  BY <1>1, <1>2, Names, ResultKinds DEF ClientInv, AuthInv, ClientTypes, OneTurn, Untried
<1> QED  BY <1>3, <1>4, <1>5, <1>6 DEF ClientInv

LEMMA ConnectFailsStep ==
  ASSUME ClientInv, NEW t \in Turns, ConnectFails(t)
  PROVE  ClientInv'
<1>1. /\ worker.turn = t /\ worker.at \in {"initialize", "thread"}
      /\ worker' = [at |-> "idle", turn |-> "none"]
      /\ call'[t] = "done" /\ \A u \in Turns \ {t} : call'[u] = call[u]
      /\ \/ UNCHANGED <<reader, ask, closing, reply, result, bound>>
         \/ /\ closing = "open" /\ closing' \in {"stopping", "waiting"} /\ reader' # "reading"
            /\ reader' = (IF reader \in {"reading", "closing"} THEN "cancelled" ELSE reader)
            /\ \A u \in Turns : ask'[u] = IF ask[u] = "open" THEN "unwinding" ELSE ask[u]
            /\ closing' = "waiting" => UNCHANGED <<result, bound, reply>>
            /\ closing' = "stopping" =>
                  /\ bound' = {}
                  /\ \A c \in Calls : reply'[c] = IF reply[c] = "sent" THEN "failed" ELSE reply[c]
                  /\ \A u \in Turns : result'[u] = IF u \in bound /\ result[u] = NoResult THEN Failed ELSE result[u]
      /\ UNCHANGED <<proc, epoch, pipe, host, starting, current, early, finished, got, stop,
                     auth, tool, sent, scene, present, late, unbound>>
  BY SMTT(30), Names, ResultKinds DEF ClientInv, ClientTypes, ConnectFails, Fails, WorkerUnchanged,
      Disconnect, FailAll, Cancelled, Handlers, conn, rpc, ghost
<1>2. \A u \in Turns : call[u] \notin {"starting", "waiting"}
  BY <1>1, Names DEF ClientInv, OneTurn, InFlight
<1>3. ClientTypes'
  <2>1. worker' \in Workers
    BY Names DEF ClientInv, ClientTypes, ConnectFails, Fails, WorkerUnchanged, Disconnect,
        FailAll, Cancelled, Handlers, Workers, conn, rpc, ghost
  <2>2. call' \in [Turns -> {"idle", "starting", "waiting", "done"}]
    BY Names DEF ClientInv, ClientTypes, ConnectFails, Fails, WorkerUnchanged, Disconnect,
        FailAll, Cancelled, Handlers, conn, rpc, ghost
  <2>3. ask' \in [Turns -> {"none", "sent", "open", "unwinding", "over"}]
    BY Names DEF ClientInv, ClientTypes, ConnectFails, Fails, WorkerUnchanged, Disconnect,
        FailAll, Cancelled, Handlers, conn, rpc, ghost
  <2>4. DOMAIN result' = Turns
    BY Names DEF ClientInv, ClientTypes, ConnectFails, Fails, WorkerUnchanged, Disconnect,
        FailAll, Cancelled, Handlers, conn, rpc, ghost
  <2>5. reply' \in [Calls -> Futures]
    BY Names DEF ClientInv, ClientTypes, ConnectFails, Fails, WorkerUnchanged, Disconnect,
        FailAll, Cancelled, Handlers, Futures, conn, rpc, ghost
  <2> QED  BY ZenonT(60), <1>1, <2>1, <2>2, <2>3, <2>4, <2>5, Names, ResultKinds DEF ClientInv, ClientTypes
<1>4. StopInv' /\ ToolInv'
  BY <1>1, Framed
<1>5. OneTurn'
  BY <1>1, <1>2, Names, ResultKinds DEF ClientInv, OneTurn, ClientTypes, BindInv, Workers,
      InFlight
<1>6. Untried'
  BY <1>1, <1>2, Names, ResultKinds DEF ClientInv, Untried, ClientTypes, OneTurn, BindInv
<1>7. PipeInv'
  BY <1>1, <1>2, Names, ResultKinds DEF ClientInv, PipeInv, ClientTypes, OneTurn, HostInv, Untried
<1>8. HostInv'
  BY <1>1, <1>2, Names, ResultKinds DEF ClientInv, HostInv, ClientTypes, OneTurn, Untried
<1>9. BindInv'
  BY <1>1, <1>2, Names, ResultKinds DEF ClientInv, BindInv, ClientTypes, OneTurn, HostInv,
      Untried, InFlight
<1>10. AnswerInv'
  BY <1>1, <1>2, Names, ResultKinds DEF ClientInv, AnswerInv, ClientTypes, BindInv, OneTurn,
      Untried, InFlight
<1>11. AskInv'
  BY <1>1, <1>2, Names, ResultKinds DEF ClientInv, AskInv, ClientTypes, BindInv, OneTurn,
      Untried, HostInv, PipeInv, DrainInv, LineInv, QuestionsOfLiveTurns, InFlight, Drained
<1>12. LineInv'
  <2> SUFFICES ASSUME reader' = "reading"
               PROVE  /\ \A u \in Turns :
                           /\ call'[u] = "starting" /\ reply'[u] = "failed"
                                => u \in unbound' \/ host'[u] = "rejected"
                           /\ call'[u] \in {"starting", "waiting"} /\ result'[u] # NoResult
                                => u \in finished' \/ u \in unbound'
                           /\ call'[u] = "done" /\ host'[u] \in {"working", "ended"}
                                => u \in finished' \/ u \in unbound'
                      /\ \A i \in DOMAIN pipe' : pipe'[i].type = "ask" =>
                           \/ pipe'[i].turn \in finished' \cup unbound'
                           \/ call'[pipe'[i].turn] \in {"starting", "waiting"}
    BY DEF LineInv, InFlight
  <2>1. \A u \in Turns : call'[u] \notin {"starting", "waiting"}
    BY <1>1, <1>2
  <2>2. \A i \in DOMAIN pipe' : pipe'[i].type = "ask" => pipe'[i].turn \in finished' \cup unbound'
    BY <1>1, <1>2 DEF ClientInv, LineInv, InFlight, PipeInv
  <2>3. reader = "reading" /\ t \in Turns /\ call[t] = "idle" /\ host' = host /\ host[t] = "none"
    BY <1>1 DEF ClientInv, OneTurn, Untried
  <2>4. \A u \in Turns : call'[u] = "done" /\ host'[u] \in {"working", "ended"} => u \in finished' \/ u \in unbound'
    BY <1>1, <2>3 DEF ClientInv, LineInv
  <2> QED  BY <2>1, <2>2, <2>4
<1>13. DrainInv'
  <2> SUFFICES ASSUME Drained'
               PROVE  /\ \A c \in Calls : reply'[c] = "sent" => c \in late'
                      /\ \A u \in Turns : call'[u] = "waiting" /\ result'[u] = NoResult => u \in late'
                      /\ \A u \in bound' : result'[u] # NoResult
    BY DEF DrainInv
  <2>3. \A u \in Turns : call[u] = "waiting" => u \in bound \/ result[u] # NoResult
    BY DEF ClientInv, BindInv
  <2>4. CASE closing' = "stopping" /\ closing = "open"
    <3>1. \A c \in Calls : reply'[c] # "sent"
      BY <1>1, <2>4
    <3>2. \A u \in bound : u \in Turns /\ result'[u] # NoResult
      BY <1>1, <2>4, ResultKinds DEF ClientInv, ClientTypes
    <3>4. bound' = {} /\ \A u \in Turns : call'[u] = "waiting" => call[u] = "waiting"
      BY <1>1, <2>4
    <3>5. \A u \in Turns : result[u] # NoResult => result'[u] # NoResult
      BY <1>1, <2>4, ResultKinds
    <3> QED  BY <2>3, <3>1, <3>2, <3>4, <3>5
  <2>5. CASE closing' = "waiting"
    <3>1. Drained
      BY <1>1, <2>5 DEF Drained, ClientInv, ClientTypes, HostInv
    <3> QED  BY <1>1, <2>5, <3>1, Names DEF ClientInv, DrainInv
  <2>6. CASE UNCHANGED <<reader, closing, reply, result, bound>>
    <3>1. Drained
      BY <2>6 DEF Drained
    <3>2. \A u \in Turns : call'[u] = "waiting" => call[u] = "waiting"
      BY <1>1
    <3> QED  BY <1>1, <2>6, <3>1, <3>2 DEF ClientInv, DrainInv
  <2> QED  BY <1>1, <2>4, <2>5, <2>6
<1>14. AuthInv'
  BY <1>1, <1>2, Names, ResultKinds DEF ClientInv, AuthInv, ClientTypes, OneTurn, Untried
<1>15. NumberedInv'
  BY <1>1, <1>2, NumberedKept, Names, ResultKinds DEF ClientInv, ClientTypes, BindInv, HostInv,
      OneTurn, Tracked, InFlight
<1> QED  BY <1>3, <1>4, <1>5, <1>6, <1>7, <1>8, <1>9, <1>10, <1>11, <1>12, <1>13, <1>14, <1>15
    DEF ClientInv

LEMMA InjectsStep ==
  ASSUME ClientInv, NEW t \in Turns, Injects(t)
  PROVE  ClientInv'
<1>1. /\ \A u \in Turns : reply'[u] = reply[u]
      /\ worker = [at |-> "ready", turn |-> t]
      /\ worker' = [at |-> "inject", turn |-> t]
      /\ reply'["inject"] = "sent" /\ \A c \in Calls \ {"inject"} : reply'[c] = reply[c]
      /\ late' = IF reader = "reading" THEN late ELSE late \cup {"inject"}
      /\ UNCHANGED <<proc, reader, closing, epoch, pipe, host, starting, bound, current, early,
                     finished, got, result, call, ask, stop, auth, tool, sent, scene, present,
                     unbound>>
  BY Names, ResultKinds DEF ClientInv, ClientTypes, Injects, Accepts, Sends, At,
      WorkerUnchanged, conn, rpc, ghost
<1>2. \A u \in Turns : call[u] \notin {"starting", "waiting"}
  BY <1>1, Names DEF ClientInv, OneTurn, InFlight
<1>3. ClientTypes'
  <2>1. worker' \in Workers
    BY Names DEF ClientInv, ClientTypes, Injects, Accepts, Sends, At, WorkerUnchanged, Workers,
        conn, rpc, ghost
  <2>2. reply' \in [Calls -> Futures]
    BY Names DEF ClientInv, ClientTypes, Injects, Accepts, Sends, At, WorkerUnchanged, Futures,
        conn, rpc, ghost
  <2> QED  BY <1>1, <2>1, <2>2, Names, ResultKinds DEF ClientInv, ClientTypes
<1>4. PipeInv' /\ HostInv' /\ AskInv' /\ StopInv' /\ ToolInv'
  BY <1>1, Framed
<1>5. OneTurn'
  BY <1>1, <1>2, Names, ResultKinds DEF ClientInv, OneTurn, ClientTypes, BindInv, Workers,
      InFlight
<1>6. Untried'
  BY <1>1, <1>2, Names, ResultKinds DEF ClientInv, Untried, ClientTypes, OneTurn, BindInv
<1>7. BindInv'
  BY <1>1, <1>2, Names, ResultKinds DEF ClientInv, BindInv, ClientTypes, OneTurn, HostInv,
      Untried, InFlight
<1>8. AnswerInv'
  BY <1>1, <1>2, Names, ResultKinds DEF ClientInv, AnswerInv, ClientTypes, BindInv, OneTurn,
      Untried, InFlight
<1>9. LineInv'
  BY <1>1, <1>2, Names, ResultKinds DEF ClientInv, LineInv, ClientTypes, BindInv, OneTurn,
      Untried, HostInv, PipeInv, AskInv, InFlight
<1>10. DrainInv'
  BY <1>1, <1>2, Names, ResultKinds DEF ClientInv, DrainInv, ClientTypes, BindInv, OneTurn,
      HostInv, Untried, Drained, InFlight
<1>11. AuthInv'
  BY <1>1, <1>2, Names, ResultKinds DEF ClientInv, AuthInv, ClientTypes, OneTurn, Untried
<1>12. NumberedInv'
  BY <1>1, <1>2, NumberedKept, Names, ResultKinds DEF ClientInv, ClientTypes, BindInv, HostInv,
      OneTurn, Tracked, InFlight
<1> QED  BY <1>3, <1>4, <1>5, <1>6, <1>7, <1>8, <1>9, <1>10, <1>11, <1>12 DEF ClientInv

LEMMA InjectedStep ==
  ASSUME ClientInv, NEW t \in Turns, Injected(t)
  PROVE  ClientInv'
<1>1. /\ worker = [at |-> "inject", turn |-> t]
      /\ \A u \in Turns : early'[u] = IF starting = {} THEN <<>> ELSE early[u]
      /\ \/ worker' = [at |-> "ready", turn |-> t] /\ call' = call
         \/ worker' = [at |-> "idle", turn |-> "none"] /\ call'[t] = "done" /\ \A u \in Turns \ {t} : call'[u] = call[u]
      /\ UNCHANGED <<proc, reader, closing, epoch, pipe, host, reply, starting, bound, current,
                     finished, got, result, ask, stop, auth, tool, sent, scene, present, late,
                     unbound>>
  BY Names, ResultKinds DEF ClientInv, ClientTypes, Injected, Fails, Kept, At, WorkerUnchanged,
      conn, rpc, ghost
<1>2. \A u \in Turns : call[u] \notin {"starting", "waiting"}
  BY <1>1, Names DEF ClientInv, OneTurn, InFlight
<1>3. ClientTypes'
  <2>1. worker' \in Workers
    BY Names DEF ClientInv, ClientTypes, Injected, Fails, Kept, At, WorkerUnchanged, Workers,
        conn, rpc, ghost
  <2>2. call' \in [Turns -> {"idle", "starting", "waiting", "done"}]
    BY Names DEF ClientInv, ClientTypes, Injected, Fails, Kept, At, WorkerUnchanged, conn, rpc,
        ghost
  <2>3. early' \in [Turns -> Seq(Lines)]
    BY Names DEF ClientInv, ClientTypes, Injected, Fails, Kept, At, WorkerUnchanged, conn, rpc,
        ghost
  <2> QED  BY <1>1, <2>1, <2>2, <2>3, Names, ResultKinds DEF ClientInv, ClientTypes
<1>4. HostInv' /\ StopInv' /\ ToolInv'
  BY <1>1, Framed
<1>5. OneTurn'
  BY <1>1, <1>2, Names, ResultKinds DEF ClientInv, OneTurn, ClientTypes, BindInv, Workers,
      InFlight
<1>6. Untried'
  BY <1>1, <1>2, Names, ResultKinds DEF ClientInv, Untried, ClientTypes, OneTurn, BindInv
<1>7. PipeInv'
  BY <1>1, <1>2, Names, ResultKinds DEF ClientInv, PipeInv, ClientTypes, OneTurn, HostInv, Untried
<1>8. BindInv'
  BY <1>1, <1>2, Names, ResultKinds DEF ClientInv, BindInv, ClientTypes, OneTurn, HostInv,
      Untried, InFlight
<1>9. AnswerInv'
  BY <1>1, <1>2, Names, ResultKinds DEF ClientInv, AnswerInv, ClientTypes, BindInv, OneTurn,
      Untried, InFlight
<1>10. AskInv'
  BY <1>1, <1>2, Names, ResultKinds DEF ClientInv, AskInv, ClientTypes, BindInv, OneTurn,
      Untried, HostInv, PipeInv, DrainInv, LineInv, QuestionsOfLiveTurns, InFlight, Drained
<1>11. LineInv'
  <2> SUFFICES ASSUME reader' = "reading"
               PROVE  /\ \A u \in Turns :
                           /\ call'[u] = "starting" /\ reply'[u] = "failed"
                                => u \in unbound' \/ host'[u] = "rejected"
                           /\ call'[u] \in {"starting", "waiting"} /\ result'[u] # NoResult
                                => u \in finished' \/ u \in unbound'
                           /\ call'[u] = "done" /\ host'[u] \in {"working", "ended"}
                                => u \in finished' \/ u \in unbound'
                      /\ \A i \in DOMAIN pipe' : pipe'[i].type = "ask" =>
                           \/ pipe'[i].turn \in finished' \cup unbound'
                           \/ call'[pipe'[i].turn] \in {"starting", "waiting"}
    BY DEF LineInv, InFlight
  <2>1. \A u \in Turns : call'[u] \notin {"starting", "waiting"}
    BY <1>1, <1>2
  <2>2. \A i \in DOMAIN pipe' : pipe'[i].type = "ask" => pipe'[i].turn \in finished' \cup unbound'
    BY <1>1, <1>2 DEF ClientInv, LineInv, InFlight, PipeInv
  <2>3. reader = "reading" /\ t \in Turns /\ call[t] = "idle" /\ host' = host /\ host[t] = "none"
    BY <1>1 DEF ClientInv, OneTurn, Untried
  <2>4. \A u \in Turns : call'[u] = "done" /\ host'[u] \in {"working", "ended"} => u \in finished' \/ u \in unbound'
    BY <1>1, <2>3 DEF ClientInv, LineInv
  <2> QED  BY <2>1, <2>2, <2>4
<1>12. DrainInv'
  BY <1>1, <1>2, Names, ResultKinds DEF ClientInv, DrainInv, ClientTypes, BindInv, OneTurn,
      HostInv, Untried, Drained, InFlight
<1>13. AuthInv'
  BY <1>1, <1>2, Names, ResultKinds DEF ClientInv, AuthInv, ClientTypes, OneTurn, Untried
<1>14. NumberedInv'
  BY <1>1, <1>2, NumberedKept, Names, ResultKinds DEF ClientInv, ClientTypes, BindInv, HostInv,
      OneTurn, Tracked, InFlight
<1> QED  BY <1>3, <1>4, <1>5, <1>6, <1>7, <1>8, <1>9, <1>10, <1>11, <1>12, <1>13, <1>14
    DEF ClientInv

LEMMA SubmitFailsStep ==
  ASSUME ClientInv, NEW t \in Turns, Submit(t), ~(closing = "open" /\ Accepts)
  PROVE  ClientInv'
<1>1. /\ worker = [at |-> "ready", turn |-> t]
      /\ worker' = [at |-> "idle", turn |-> "none"]
      /\ call'[t] = "done" /\ \A u \in Turns \ {t} : call'[u] = call[u]
      /\ UNCHANGED <<proc, reader, closing, epoch, pipe, host, reply, starting, bound, current,
                     early, finished, got, result, ask, stop, auth, tool, sent, scene, present,
                     late, unbound>>
  BY Names, ResultKinds DEF ClientInv, ClientTypes, Submit, Fails, WorkerUnchanged, Accepts,
      conn, rpc, ghost
<1>2. \A u \in Turns : call[u] \notin {"starting", "waiting"}
  BY <1>1, Names DEF ClientInv, OneTurn, InFlight
<1>3. ClientTypes'
  <2>1. worker' \in Workers
    BY Names DEF ClientInv, ClientTypes, Submit, Fails, WorkerUnchanged, Accepts, Workers, conn,
        rpc, ghost
  <2>2. call' \in [Turns -> {"idle", "starting", "waiting", "done"}]
    BY Names DEF ClientInv, ClientTypes, Submit, Fails, WorkerUnchanged, Accepts, conn, rpc, ghost
  <2> QED  BY <1>1, <2>1, <2>2, Names, ResultKinds DEF ClientInv, ClientTypes
<1>4. HostInv' /\ StopInv' /\ ToolInv'
  BY <1>1, Framed
<1>5. OneTurn'
  BY <1>1, <1>2, Names, ResultKinds DEF ClientInv, OneTurn, ClientTypes, BindInv, Workers,
      InFlight
<1>6. Untried'
  BY <1>1, <1>2, Names, ResultKinds DEF ClientInv, Untried, ClientTypes, OneTurn, BindInv
<1>7. PipeInv'
  BY <1>1, <1>2, Names, ResultKinds DEF ClientInv, PipeInv, ClientTypes, OneTurn, HostInv, Untried
<1>8. BindInv'
  BY <1>1, <1>2, Names, ResultKinds DEF ClientInv, BindInv, ClientTypes, OneTurn, HostInv,
      Untried, InFlight
<1>9. AnswerInv'
  BY <1>1, <1>2, Names, ResultKinds DEF ClientInv, AnswerInv, ClientTypes, BindInv, OneTurn,
      Untried, InFlight
<1>10. AskInv'
  BY <1>1, <1>2, Names, ResultKinds DEF ClientInv, AskInv, ClientTypes, BindInv, OneTurn,
      Untried, HostInv, PipeInv, DrainInv, LineInv, QuestionsOfLiveTurns, InFlight, Drained
<1>11. LineInv'
  <2> SUFFICES ASSUME reader' = "reading"
               PROVE  /\ \A u \in Turns :
                           /\ call'[u] = "starting" /\ reply'[u] = "failed"
                                => u \in unbound' \/ host'[u] = "rejected"
                           /\ call'[u] \in {"starting", "waiting"} /\ result'[u] # NoResult
                                => u \in finished' \/ u \in unbound'
                           /\ call'[u] = "done" /\ host'[u] \in {"working", "ended"}
                                => u \in finished' \/ u \in unbound'
                      /\ \A i \in DOMAIN pipe' : pipe'[i].type = "ask" =>
                           \/ pipe'[i].turn \in finished' \cup unbound'
                           \/ call'[pipe'[i].turn] \in {"starting", "waiting"}
    BY DEF LineInv, InFlight
  <2>1. \A u \in Turns : call'[u] \notin {"starting", "waiting"}
    BY <1>1, <1>2
  <2>2. \A i \in DOMAIN pipe' : pipe'[i].type = "ask" => pipe'[i].turn \in finished' \cup unbound'
    BY <1>1, <1>2 DEF ClientInv, LineInv, InFlight, PipeInv
  <2>3. reader = "reading" /\ t \in Turns /\ call[t] = "idle" /\ host' = host /\ host[t] = "none"
    BY <1>1 DEF ClientInv, OneTurn, Untried
  <2>4. \A u \in Turns : call'[u] = "done" /\ host'[u] \in {"working", "ended"} => u \in finished' \/ u \in unbound'
    BY <1>1, <2>3 DEF ClientInv, LineInv
  <2> QED  BY <2>1, <2>2, <2>4
<1>12. DrainInv'
  BY <1>1, <1>2, Names, ResultKinds DEF ClientInv, DrainInv, ClientTypes, BindInv, OneTurn,
      HostInv, Untried, Drained, InFlight
<1>13. AuthInv'
  BY <1>1, <1>2, Names, ResultKinds DEF ClientInv, AuthInv, ClientTypes, OneTurn, Untried
<1>14. NumberedInv'
  BY <1>1, <1>2, NumberedKept, Names, ResultKinds DEF ClientInv, ClientTypes, BindInv, HostInv,
      OneTurn, Tracked, InFlight
<1> QED  BY <1>3, <1>4, <1>5, <1>6, <1>7, <1>8, <1>9, <1>10, <1>11, <1>12, <1>13, <1>14
    DEF ClientInv

LEMMA SubmitsStep ==
  ASSUME ClientInv, NEW t \in Turns, Submit(t), closing = "open", Accepts
  PROVE  ClientInv'
<1>1. /\ worker = [at |-> "ready", turn |-> t]
      /\ closing = "open" /\ reader # "done" /\ proc # "none"
      /\ worker' = [at |-> "turn", turn |-> t]
      /\ auth'.host = epoch /\ auth'.turn = t
      /\ reply'[t] = "sent" /\ \A c \in Calls \ {t} : reply'[c] = reply[c]
      /\ late' = IF reader = "reading" THEN late ELSE late \cup {t}
      /\ starting' = starting \cup {t}
      /\ call'[t] = "starting" /\ \A u \in Turns \ {t} : call'[u] = call[u]
      /\ host'[t] \in {"none", "working"} /\ \A u \in Turns \ {t} : host'[u] = host[u]
      /\ UNCHANGED <<proc, reader, closing, epoch, pipe, bound, current, early, finished, got,
                     result, ask, stop, tool, sent, scene, present, unbound>>
  BY Names, ResultKinds DEF ClientInv, ClientTypes, Submit, Begun, Sends, Accepts, OneTurn,
      Untried, At, WorkerUnchanged, conn, rpc, ghost
<1>2. \A u \in Turns : call[u] \notin {"starting", "waiting"}
  BY <1>1, Names DEF ClientInv, OneTurn, InFlight
<1>3. ClientTypes'
  <2>1. worker' \in Workers
    BY Names DEF ClientInv, ClientTypes, Submit, Begun, Sends, Accepts, OneTurn, Untried, At,
        WorkerUnchanged, Workers, conn, rpc, ghost
  <2>2. auth' \in Sources
    <3>1. auth' = Begun(t)
      BY DEF Submit, Accepts
    <3>2. t \in Maybe /\ epoch \in Nat
      BY Names DEF ClientInv, ClientTypes
    <3> QED  BY <3>1, <3>2 DEF Begun, Sources
  <2>3. reply' \in [Calls -> Futures]
    BY Zenon, Names DEF ClientInv, ClientTypes, Submit, Sends, Accepts, Futures
  <2>4. call' \in [Turns -> {"idle", "starting", "waiting", "done"}]
    BY DEF ClientInv, ClientTypes, Submit, Accepts
  <2>5. host' \in [Turns -> {"none", "working", "ended", "rejected", "gone"}]
    BY Zenon DEF ClientInv, ClientTypes, Submit, Accepts
  <2> QED  BY <1>1, <2>1, <2>2, <2>3, <2>4, <2>5, Names, ResultKinds DEF ClientInv, ClientTypes
<1>4. StopInv' /\ ToolInv'
  BY <1>1, Framed
<1>5. OneTurn'
  BY <1>1, <1>2, Names, ResultKinds DEF ClientInv, OneTurn, ClientTypes, BindInv, Workers,
      InFlight
<1>6. Untried'
  BY <1>1, <1>2, Names, ResultKinds DEF ClientInv, Untried, ClientTypes, OneTurn, BindInv
<1>7. PipeInv'
  BY <1>1, <1>2, Names, ResultKinds DEF ClientInv, PipeInv, ClientTypes, OneTurn, HostInv, Untried
<1>8. HostInv'
  BY <1>1, <1>2, Names, ResultKinds DEF ClientInv, HostInv, ClientTypes, OneTurn, Untried
<1>9. BindInv'
  BY <1>1, <1>2, Names, ResultKinds DEF ClientInv, BindInv, ClientTypes, OneTurn, HostInv,
      Untried, InFlight
<1>10. AnswerInv'
  <2> SUFFICES ASSUME NEW u \in Turns, result'[u].kind = "answer",
                      ~(call'[u] = "starting" /\ reply'[u] = "failed")
               PROVE  /\ host'[u] \in {"ended", "gone"}
                      /\ result'[u].text = FinalMessage(sent'[u])
                      /\ result'[u].tools = Of(sent'[u], "tool")
    BY DEF AnswerInv
  <2>1. u # t /\ result'[u] = result[u] /\ call[u] # "starting"
    BY <1>1, <1>2, ResultKinds DEF ClientInv, OneTurn, Untried
  <2>2. host'[u] = host[u] /\ sent'[u] = sent[u]
    BY <1>1, <2>1
  <2> QED  BY <2>1, <2>2 DEF ClientInv, AnswerInv
<1>11. AskInv'
  BY <1>1, <1>2, Names, ResultKinds DEF ClientInv, AskInv, ClientTypes, BindInv, OneTurn,
      Untried, HostInv, PipeInv, DrainInv, LineInv, QuestionsOfLiveTurns, InFlight, Drained
<1>12. LineInv'
  <2> SUFFICES ASSUME reader' = "reading"
               PROVE  /\ \A u \in Turns :
                           /\ call'[u] = "starting" /\ reply'[u] = "failed"
                                => u \in unbound' \/ host'[u] = "rejected"
                           /\ call'[u] \in {"starting", "waiting"} /\ result'[u] # NoResult
                                => u \in finished' \/ u \in unbound'
                           /\ call'[u] = "done" /\ host'[u] \in {"working", "ended"}
                                => u \in finished' \/ u \in unbound'
                      /\ \A i \in DOMAIN pipe' : pipe'[i].type = "ask" =>
                           \/ pipe'[i].turn \in finished' \cup unbound'
                           \/ call'[pipe'[i].turn] \in {"starting", "waiting"}
    BY DEF LineInv, InFlight
  <2>1. call[t] = "idle" /\ result[t] = NoResult /\ result' = result /\ pipe' = pipe
    BY <1>1, Names DEF ClientInv, OneTurn, Untried
  <2>2. \A u \in Turns : call'[u] \in {"starting", "waiting"} => u = t
    BY <1>1, <1>2
  <2>3. \A i \in DOMAIN pipe' : pipe'[i].type = "ask" => pipe'[i].turn \in finished' \cup unbound'
    BY <1>1, <1>2, <2>1 DEF ClientInv, LineInv, InFlight, PipeInv
  <2>4. \A u \in Turns : call'[u] = "done" /\ host'[u] \in {"working", "ended"} => u \in finished' \/ u \in unbound'
    BY <1>1 DEF ClientInv, LineInv
  <2> QED  BY <1>1, <2>1, <2>2, <2>3, <2>4
<1>13. DrainInv'
  BY <1>1, <1>2, Names, ResultKinds DEF ClientInv, DrainInv, ClientTypes, BindInv, OneTurn,
      HostInv, Untried, Drained, InFlight
<1>14. AuthInv'
  BY <1>1, <1>2, Names, ResultKinds DEF ClientInv, AuthInv, ClientTypes, OneTurn, Untried
<1>15. NumberedInv'
  <2> SUFFICES ASSUME NEW u \in Turns, Tracked(u)' PROVE Whole(u)'
    BY DEF NumberedInv
  <2>1. u = t /\ call[t] = "idle"
    BY <1>1, <1>2 DEF ClientInv, OneTurn, Tracked, InFlight
  <2>2. /\ sent'[t] = <<>> /\ got'[t] = <<>> /\ early'[t] = <<>> /\ host'[t] # "ended" /\ pipe' = pipe
        /\ \A i \in DOMAIN pipe : pipe[i].turn = t => pipe[i].type = "reply"
    BY <1>1, <2>1 DEF ClientInv, Untried, PipeInv
  <2>3. Received(t)' = 0 /\ Total(t)' = 0 /\ Len(sent'[t]) = 0 /\ Len(got'[t]) = 0 /\ Len(early'[t]) = 0
    BY <2>2 DEF Received, Total
  <2>4. Indexed(<<>>, 1, 0, pipe', t, sent'[t])
    <3>1. <<>> \in [1 .. 0 -> 1 .. Len(pipe')]
      OBVIOUS
    <3>2. \A p \in 1 .. Len(pipe') : ~OfTurn(pipe'[p], t)
      BY <2>2 DEF OfTurn, Texts, ClientInv, ClientTypes
    <3> QED  BY <3>1, <3>2 DEF Numbers, Indexed
  <2>6. \E f : Indexed(f, Received(t)' + 1, Total(t)', pipe', t, sent'[t])
    BY <2>3, <2>4
  <2> QED  BY <2>1, <2>2, <2>3, <2>6 DEF Whole
<1> QED  BY <1>3, <1>4, <1>5, <1>6, <1>7, <1>8, <1>9, <1>10, <1>11, <1>12, <1>13, <1>14, <1>15
    DEF ClientInv

LEMMA TurnOverStep ==
  ASSUME ClientInv, TurnOver
  PROVE  ClientInv'
<1>1. /\ worker.at = "turn" /\ call[worker.turn] = "done"
      /\ worker' = [at |-> "idle", turn |-> "none"]
      /\ auth'.host = auth.host
      /\ auth'.state # "active"
      /\ \A u \in Turns : ask'[u] = IF ask[u] = "open" THEN "over" ELSE ask[u]
      /\ UNCHANGED <<proc, reader, closing, epoch, pipe, host, reply, starting, bound, current,
                     early, finished, got, result, call, stop, tool, sent, scene, present, late,
                     unbound>>
  BY Names, ResultKinds DEF ClientInv, ClientTypes, TurnOver, Retired, Closed, WorkerUnchanged,
      AuthInv, Sources, conn, rpc, ghost
<1>2. ClientTypes'
  <2>1. worker' \in Workers
    BY Names DEF ClientInv, ClientTypes, TurnOver, Retired, Closed, WorkerUnchanged, AuthInv,
        Sources, Workers, conn, rpc, ghost
  <2>2. auth' \in Sources
    BY Names DEF ClientInv, ClientTypes, TurnOver, Retired, Closed, WorkerUnchanged, AuthInv,
        Sources, conn, rpc, ghost
  <2>3. ask' \in [Turns -> {"none", "sent", "open", "unwinding", "over"}]
    BY Names DEF ClientInv, ClientTypes, TurnOver, Retired, Closed, WorkerUnchanged, AuthInv,
        Sources, conn, rpc, ghost
  <2> QED  BY <1>1, <2>1, <2>2, <2>3, Names, ResultKinds DEF ClientInv, ClientTypes
<1>3. BindInv' /\ AnswerInv' /\ LineInv' /\ DrainInv' /\ StopInv' /\ ToolInv' /\ NumberedInv'
  BY <1>1, Framed
<1>4. OneTurn'
  BY <1>1, Names, ResultKinds DEF ClientInv, OneTurn, ClientTypes, BindInv, Workers, InFlight
<1>5. Untried'
  BY <1>1, Names, ResultKinds DEF ClientInv, Untried, ClientTypes, OneTurn, BindInv
<1>6. PipeInv'
  BY <1>1, Names, ResultKinds DEF ClientInv, PipeInv, ClientTypes, OneTurn, HostInv, Untried
<1>7. HostInv'
  BY <1>1, Names, ResultKinds DEF ClientInv, HostInv, ClientTypes, OneTurn, Untried
<1>8. AskInv'
  BY <1>1, Names, ResultKinds DEF ClientInv, AskInv, ClientTypes, BindInv, OneTurn, Untried,
      HostInv, PipeInv, DrainInv, LineInv, QuestionsOfLiveTurns, InFlight, Drained
<1>9. AuthInv'
  BY <1>1, Names, ResultKinds DEF ClientInv, AuthInv, ClientTypes, OneTurn, Untried
<1> QED  BY <1>2, <1>3, <1>4, <1>5, <1>6, <1>7, <1>8, <1>9 DEF ClientInv

-----------------------------------------------------------------------------
(* One line of the output *)

LEMMA ReadReplyStep ==
  ASSUME ClientInv, NEW records, ReadsOne, HandleResponse(Head(pipe), records),
         ~(reply[Head(pipe).turn] = "sent" /\ Head(pipe).body = "ok" /\ Head(pipe).turn \in Turns)
  PROVE  ClientInv'
<1>1. /\ reader = "reading" /\ closing = "open"
      /\ pipe' \in Seq(Lines) /\ pipe # <<>> /\ pipe' = Tail(pipe) /\ Head(pipe) \in Lines
      /\ \A i \in DOMAIN pipe' : \E k \in DOMAIN pipe : pipe'[i] = pipe[k]
      /\ Head(pipe).type = "reply"
      /\ \A c \in Calls : \/ reply'[c] = reply[c]
                         \/ /\ reply[c] = "sent" /\ reply'[c] \in {"ok", "failed"}
                            /\ c \in Turns => reply'[c] = "failed" /\ host[c] = "rejected"
      /\ UNCHANGED <<worker, proc, reader, closing, epoch, host, starting, bound, current,
                     early, finished, got, result, call, ask, stop, auth, tool, sent, scene,
                     present, late, unbound>>
  <2>1. /\ reader = "reading" /\ closing = "open"
        /\ pipe' \in Seq(Lines) /\ pipe # <<>> /\ pipe' = Tail(pipe) /\ Head(pipe) \in Lines
        /\ \A i \in DOMAIN pipe' : \E k \in DOMAIN pipe : pipe'[i] = pipe[k]
        /\ Head(pipe).turn \in Calls
        /\ Head(pipe).type # "reply" => Head(pipe).turn \in Turns /\ call[Head(pipe).turn] # "idle"
        /\ Head(pipe).type = "ask" =>
             /\ ask[Head(pipe).turn] # "none"
             /\ Head(pipe).turn \in finished \cup unbound \/ InFlight(Head(pipe).turn)
        /\ Head(pipe).type = "reply" /\ Head(pipe).body # "ok" /\ Head(pipe).turn \in Turns
             => host[Head(pipe).turn] = "rejected"
    BY HeadLine
  <2> QED  BY <2>1, Names, ResultKinds DEF ClientInv, ClientTypes, ReadsOne, ReaderUnchanged,
      HandleResponse, conn, rpc, ghost
<1>2. ClientTypes'
  <2>1. pipe' \in Seq(Lines)
    BY Names DEF ClientInv, ClientTypes, ReadsOne, ReaderUnchanged, HandleResponse, Lines, conn,
        rpc, ghost
  <2>2. reply' \in [Calls -> Futures]
    BY ZenonT(60), Names DEF ClientInv, ClientTypes, ReadsOne, ReaderUnchanged, HandleResponse, Lines,
        Futures, conn, rpc, ghost
  <2> QED  BY <1>1, <2>1, <2>2, Names, ResultKinds DEF ClientInv, ClientTypes
<1>3. OneTurn' /\ AskInv' /\ StopInv' /\ AuthInv' /\ ToolInv'
  BY <1>1, Framed
<1>4. Untried'
  BY <1>1, Names, ResultKinds DEF ClientInv, Untried, ClientTypes, OneTurn, BindInv
<1>5. PipeInv'
  <2> SUFFICES ASSUME NEW k \in DOMAIN pipe
               PROVE  /\ pipe[k].type # "reply" => pipe[k].turn \in Turns /\ call'[pipe[k].turn] # "idle"
                      /\ pipe[k].type = "ask" => ask'[pipe[k].turn] # "none"
                      /\ pipe[k].type = "reply" /\ pipe[k].body # "ok" /\ pipe[k].turn \in Turns
                           => host'[pipe[k].turn] = "rejected"
    BY <1>1 DEF PipeInv
  <2> QED  BY <1>1 DEF ClientInv, PipeInv, Settled
<1>6. HostInv'
  BY <1>1, Names, ResultKinds DEF ClientInv, HostInv, ClientTypes, OneTurn, Untried
<1>7. BindInv'
  BY <1>1, Names, ResultKinds DEF ClientInv, BindInv, ClientTypes, OneTurn, HostInv, Untried,
      InFlight
<1>8. AnswerInv'
  BY <1>1, Names, ResultKinds DEF ClientInv, AnswerInv, ClientTypes, BindInv, OneTurn, Untried,
      InFlight
<1>9. LineInv'
  <2>1. ASSUME NEW k \in DOMAIN pipe, pipe[k].type = "ask"
        PROVE  pipe[k].turn \in finished' \cup unbound' \/ call'[pipe[k].turn] \in {"starting", "waiting"}
    <3>1. pipe[k].turn \in finished \cup unbound \/ call[pipe[k].turn] \in {"starting", "waiting"}
      BY <1>1, <2>1 DEF ClientInv, LineInv, InFlight
    <3> QED  BY <1>1, <3>1 DEF Settled
  <2>2. \A i \in DOMAIN pipe' : pipe'[i].type = "ask" =>
          pipe'[i].turn \in finished' \cup unbound' \/ call'[pipe'[i].turn] \in {"starting", "waiting"}
    BY <1>1, <2>1
  <2>3. ASSUME NEW u \in Turns
        PROVE  /\ call'[u] = "starting" /\ reply'[u] = "failed" => u \in unbound' \/ host'[u] = "rejected"
               /\ InFlight(u)' /\ result'[u] # NoResult => u \in finished' \/ u \in unbound'
               /\ call'[u] = "done" /\ host'[u] \in {"working", "ended"} => u \in finished' \/ u \in unbound'
    <3>1. u \in Calls
      BY Names
    <3> QED  BY <1>1, <3>1 DEF ClientInv, LineInv, InFlight, Settled
  <2> QED  BY <2>2, <2>3 DEF LineInv, InFlight
<1>10. DrainInv'
  BY <1>1, Names, ResultKinds DEF ClientInv, DrainInv, ClientTypes, BindInv, OneTurn, HostInv,
      Untried, Drained, InFlight
<1>11. NumberedInv'
  <2> SUFFICES ASSUME NEW u \in Turns, Tracked(u)' PROVE Whole(u)'
    BY DEF NumberedInv
  <2>1. ClientTypes /\ Whole(u)
    <3>1. u \in Calls
      BY Names
    <3>2. Tracked(u)
      BY <1>1, <3>1 DEF Tracked, InFlight
    <3> QED  BY <3>2 DEF ClientInv, NumberedInv
  <2>2. ~OfTurn(Head(pipe), u)
    BY <1>1 DEF OfTurn, Texts
  <2>3. Other(u)
    BY <1>1, <2>2 DEF Other
  <2> QED  BY <1>1, <2>1, <2>3, WholeAlong
<1> QED  BY <1>2, <1>3, <1>4, <1>5, <1>6, <1>7, <1>8, <1>9, <1>10, <1>11 DEF ClientInv

LEMMA ReadAckStep ==
  ASSUME ClientInv, NEW t \in Turns, ReadsOne, t = Head(pipe).turn, HandleResponse(Head(pipe), TRUE),
         reply[t] = "sent", Head(pipe).body = "ok"
  PROVE  ClientInv'
<1>1. /\ reader = "reading" /\ closing = "open"
      /\ pipe' \in Seq(Lines) /\ pipe # <<>> /\ pipe' = Tail(pipe) /\ Head(pipe) \in Lines
      /\ \A i \in DOMAIN pipe' : \E k \in DOMAIN pipe : pipe'[i] = pipe[k]
      /\ Head(pipe).type = "reply" /\ reply[t] = "sent"
      /\ starting' = starting \ {t} /\ bound' = bound \cup {t} /\ current' = t
      /\ reply'[t] = "ok" /\ \A c \in Calls \ {t} : reply'[c] = reply[c]
      /\ auth'.host = auth.host /\ auth'.turn = auth.turn /\ auth'.state = auth.state
      /\ early[t] \in Seq(Lines) /\ Deliver(t, early[t]) /\ Settled(t)
      /\ early'[t] = <<>> /\ \A u \in Turns \ {t} : early'[u] = early[u]
      /\ UNCHANGED <<worker, proc, reader, closing, epoch, host, call, stop, tool, sent, scene,
                     present, late, unbound>>
  <2>1. /\ reader = "reading" /\ closing = "open"
        /\ pipe' \in Seq(Lines) /\ pipe # <<>> /\ pipe' = Tail(pipe) /\ Head(pipe) \in Lines
        /\ \A i \in DOMAIN pipe' : \E k \in DOMAIN pipe : pipe'[i] = pipe[k]
        /\ Head(pipe).turn \in Calls
        /\ Head(pipe).type # "reply" => Head(pipe).turn \in Turns /\ call[Head(pipe).turn] # "idle"
        /\ Head(pipe).type = "ask" =>
             /\ ask[Head(pipe).turn] # "none"
             /\ Head(pipe).turn \in finished \cup unbound \/ InFlight(Head(pipe).turn)
        /\ Head(pipe).type = "reply" /\ Head(pipe).body # "ok" /\ Head(pipe).turn \in Turns
             => host[Head(pipe).turn] = "rejected"
    BY HeadLine
  <2>2. early[t] \in Seq(Lines) /\ Deliver(t, early[t]) /\ Settled(t)
    <3>1. ClientTypes /\ early[t] \in Seq(Lines) /\ Deliver(t, early[t])
      BY <2>1 DEF ClientInv, ClientTypes, HandleResponse, Acknowledged
    <3> QED  BY <3>1, DeliverSettled
  <2> QED  BY SMTT(30), <2>1, <2>2, Names, ResultKinds DEF ClientInv, ClientTypes, ReadsOne,
      ReaderUnchanged, HandleResponse, Acknowledged, Bind, Sources, conn, rpc, ghost
<1>2. ClientTypes'
  <2>1. pipe' \in Seq(Lines)
    BY Names DEF ClientInv, ClientTypes, ReadsOne, ReaderUnchanged, HandleResponse,
        Acknowledged, Bind, Sources, conn, rpc, ghost
  <2>2. reply' \in [Calls -> Futures]
    BY ZenonT(60), Names DEF ClientInv, ClientTypes, ReadsOne, ReaderUnchanged, HandleResponse,
        Acknowledged, Bind, Sources, Futures, conn, rpc, ghost
  <2>3. auth' \in Sources
    <3>1. auth' = Bind(t) /\ auth \in Sources
      BY <1>1 DEF ClientInv, ClientTypes, HandleResponse, Acknowledged
    <3> QED  BY <3>1 DEF Bind, Sources
  <2>4. got' \in [Turns -> Seq(Bodies)]
    BY <1>1 DEF Settled
  <2>5. ask' \in [Turns -> {"none", "sent", "open", "unwinding", "over"}]
    BY <1>1 DEF Settled
  <2>6. DOMAIN result' = Turns
    BY <1>1 DEF Settled
  <2>7. early' \in [Turns -> Seq(Lines)]
    <3>1. early' = [early EXCEPT ![t] = <<>>] /\ early \in [Turns -> Seq(Lines)]
      BY <1>1 DEF ClientInv, ClientTypes, HandleResponse, Acknowledged
    <3>2. <<>> \in Seq(Lines)
      BY EmptySeq
    <3> QED  BY <3>1, <3>2
  <2>10. /\ finished' \subseteq Turns
         /\ \A u \in Turns : result'[u] = NoResult \/ result'[u].kind \in {"failed", "answer"}
    <3>1. \A u \in Turns : result'[u] = result[u] \/ result'[u].kind \in {"failed", "answer"}
      BY <1>1 DEF Settled
    <3>2. \A u \in Turns : result[u] = NoResult \/ result[u].kind \in {"failed", "answer"}
      BY DEF ClientInv, ClientTypes
    <3>3. \A u \in Turns : result'[u] = NoResult \/ result'[u].kind \in {"failed", "answer"}
      BY <3>1, <3>2
    <3>4. finished' \subseteq Turns
      BY <1>1 DEF ClientInv, ClientTypes, Settled
    <3> QED  BY <3>3, <3>4
  <2> QED  BY Zenon, <1>1, <2>1, <2>2, <2>3, <2>4, <2>5, <2>6, <2>7, <2>10, Names, ResultKinds
      DEF ClientInv, ClientTypes
<1>3. OneTurn' /\ StopInv' /\ ToolInv'
  BY <1>1, Framed
<1>4. Untried'
  BY SMTT(30), <1>1, Names, ResultKinds DEF ClientInv, Untried, ClientTypes, OneTurn, BindInv, Settled
<1>5. PipeInv'
  <2> SUFFICES ASSUME NEW k \in DOMAIN pipe
               PROVE  /\ pipe[k].type # "reply" => pipe[k].turn \in Turns /\ call'[pipe[k].turn] # "idle"
                      /\ pipe[k].type = "ask" => ask'[pipe[k].turn] # "none"
                      /\ pipe[k].type = "reply" /\ pipe[k].body # "ok" /\ pipe[k].turn \in Turns
                           => host'[pipe[k].turn] = "rejected"
    BY <1>1 DEF PipeInv
  <2> QED  BY SMTT(30), <1>1 DEF ClientInv, PipeInv, Settled
<1>6. HostInv'
  BY <1>1, Names, ResultKinds DEF ClientInv, HostInv, ClientTypes, OneTurn, Untried, Settled
<1>7. BindInv'
  <2>1. starting' \cap bound' = {}
    BY <1>1 DEF ClientInv, BindInv
  <2>2. ASSUME NEW u \in starting' PROVE call'[u] = "starting" /\ reply'[u] \in {"sent", "failed"}
    <3>1. u \in starting /\ u # t
      BY <1>1
    <3>2. u \in Calls
      BY <3>1, Names DEF ClientInv, ClientTypes
    <3> QED  BY <1>1, <3>1, <3>2 DEF ClientInv, BindInv
  <2>3. ASSUME NEW u \in bound'
        PROVE  \/ call'[u] = "starting" /\ reply'[u] \in {"ok", "failed"}
               \/ call'[u] = "waiting"
    <3>1. CASE u = t
      BY <1>1, <3>1 DEF ClientInv, BindInv, Settled
    <3>2. CASE u # t
      <4>1. u \in bound /\ u \in Calls
        BY <1>1, <3>2, Names DEF ClientInv, ClientTypes
      <4> QED  BY <1>1, <3>2, <4>1 DEF ClientInv, BindInv
    <3> QED  BY <3>1, <3>2
  <2>4. ASSUME NEW u \in Turns
        PROVE  /\ call'[u] = "starting" => reply'[u] \in {"sent", "ok", "failed"}
               /\ reply'[u] \in {"sent", "ok"} => call'[u] = "starting"
               /\ call'[u] = "starting" /\ reply'[u] = "sent" => u \in starting'
               /\ (call'[u] = "starting" /\ reply'[u] = "ok") \/ call'[u] = "waiting"
                    => u \in bound' \/ result'[u] # NoResult
    <3>1. CASE u = t
      BY <1>1, <3>1 DEF ClientInv, BindInv
    <3>2. CASE u # t
      <4>1. u \in Calls /\ reply'[u] = reply[u] /\ result'[u] = result[u]
        BY <1>1, <3>2, Names DEF Settled
      <4> QED  BY <1>1, <3>2, <4>1 DEF ClientInv, BindInv
    <3> QED  BY <3>1, <3>2
  <2> QED  BY <2>1, <2>2, <2>3, <2>4 DEF BindInv
<1>8. AnswerInv'
  <2> SUFFICES ASSUME NEW u \in Turns, result'[u].kind = "answer",
                      ~(call'[u] = "starting" /\ reply'[u] = "failed")
               PROVE  /\ host'[u] \in {"ended", "gone"}
                      /\ result'[u].text = FinalMessage(sent'[u])
                      /\ result'[u].tools = Of(sent'[u], "tool")
    BY DEF AnswerInv
  <2>1. CASE result'[u] = result[u]
    BY <1>1, <2>1, Names DEF ClientInv, AnswerInv
  <2>2. CASE result'[u] # result[u]
    <3>1. u = t /\ result[t] = NoResult
      BY <1>1, <2>2 DEF Settled
    <3>2. Follows(got[t], sent[t], early[t], t, Total(t))
      <4>1. Tracked(t) /\ ClientTypes
        BY <1>1, <3>1, Names DEF ClientInv, BindInv, Tracked, InFlight
      <4>2. Whole(t)
        BY <4>1 DEF ClientInv, NumberedInv
      <4>3. Received(t) = Len(got[t]) + Len(early[t])
        BY <4>1, Counts
      <4> QED  BY <4>2, <4>3 DEF Whole, Follows
    <3> QED  BY <1>1, <3>1, <3>2, AnswerIs DEF ClientInv
  <2> QED  BY <2>1, <2>2
<1>9. AskInv'
  <2> SUFFICES ASSUME NEW u \in Turns, ask'[u] = "open"
               PROVE  /\ InFlight(u)' \/ u \in unbound'
                      /\ reader' = "reading" /\ (result'[u] = NoResult \/ u \in unbound')
    BY DEF AskInv, QuestionsOfLiveTurns
  <2>1. ask[u] = "open" /\ result'[u] = result[u]
    BY <1>1 DEF Settled
  <2> QED  BY <1>1, <2>1 DEF ClientInv, AskInv, QuestionsOfLiveTurns, InFlight
<1>10. LineInv'
  <2>1. ASSUME NEW k \in DOMAIN pipe, pipe[k].type = "ask"
        PROVE  pipe[k].turn \in finished' \cup unbound' \/ call'[pipe[k].turn] \in {"starting", "waiting"}
    <3>1. pipe[k].turn \in finished \cup unbound \/ call[pipe[k].turn] \in {"starting", "waiting"}
      BY <1>1, <2>1 DEF ClientInv, LineInv, InFlight
    <3> QED  BY <1>1, <3>1 DEF Settled
  <2>2. \A i \in DOMAIN pipe' : pipe'[i].type = "ask" =>
          pipe'[i].turn \in finished' \cup unbound' \/ call'[pipe'[i].turn] \in {"starting", "waiting"}
    BY <1>1, <2>1
  <2>3. ASSUME NEW u \in Turns
        PROVE  /\ call'[u] = "starting" /\ reply'[u] = "failed" => u \in unbound' \/ host'[u] = "rejected"
               /\ InFlight(u)' /\ result'[u] # NoResult => u \in finished' \/ u \in unbound'
               /\ call'[u] = "done" /\ host'[u] \in {"working", "ended"} => u \in finished' \/ u \in unbound'
    <3>1. u \in Calls
      BY Names
    <3>2. /\ call'[u] = "starting" /\ reply'[u] = "failed" => call[u] = "starting" /\ reply[u] = "failed"
          /\ result'[u] = result[u] \/ u \in finished'
          /\ finished \subseteq finished' /\ unbound' = unbound /\ host' = host /\ call' = call
      BY <1>1, <3>1 DEF Settled
    <3> QED  BY <1>1, <3>2 DEF ClientInv, LineInv, InFlight
  <2> QED  BY <2>2, <2>3 DEF LineInv, InFlight
<1>11. DrainInv'
  BY <1>1, Names, ResultKinds DEF ClientInv, DrainInv, ClientTypes, BindInv, OneTurn, HostInv,
      Untried, Drained, InFlight, Settled
<1>12. AuthInv'
  BY <1>1, Names, ResultKinds DEF ClientInv, AuthInv, ClientTypes, OneTurn, Untried, Settled
<1>13. NumberedInv'
  <2> SUFFICES ASSUME NEW u \in Turns, Tracked(u)' PROVE Whole(u)'
    BY DEF NumberedInv
  <2>1. CASE u # t
    <3>1. u \in Calls
      BY Names
    <3>2. Tracked(u)
      BY <1>1, <2>1, <3>1 DEF Tracked, InFlight, Settled
    <3>3. ClientTypes /\ Whole(u)
      BY <3>2 DEF ClientInv, NumberedInv
    <3>4. ~OfTurn(Head(pipe), u)
      BY <1>1, <2>1 DEF OfTurn, Texts
    <3>5. Other(u)
      BY <1>1, <3>4 DEF Other
    <3>6. /\ sent'[u] = sent[u] /\ got'[u] = got[u] /\ early'[u] = early[u]
          /\ u \in bound' => u \in bound
          /\ host'[u] = "ended" <=> host[u] = "ended"
      BY <1>1, <2>1 DEF Settled
    <3> QED  BY <3>3, <3>5, <3>6, WholeAlong
  <2>2. CASE u = t
    <3>1. Tracked(t) /\ result'[t] = NoResult /\ ClientTypes
      BY <1>1, <2>2, Names, ResultKinds DEF ClientInv, BindInv, Tracked, InFlight, Settled
    <3>2. Whole(t)
      BY <3>1 DEF ClientInv, NumberedInv
    <3>3. /\ Len(got[t]) <= Len(sent[t]) /\ \A i \in 1 .. Len(got[t]) : got[t][i] = sent[t][i]
          /\ Received(t) <= Total(t)
          /\ \A i \in 1 .. Len(early[t]) : IsNth(early[t][i], t, Len(got[t]) + i, sent[t])
          /\ t \in bound => early[t] = <<>>
      BY <3>2 DEF Whole
    <3>4. /\ Received(t) \in Nat /\ Total(t) \in Nat /\ Len(got[t]) \in Nat /\ Len(early[t]) \in Nat
          /\ Received(t) = Len(got[t]) + Len(early[t])
      BY <3>1, Counts
    <3>5. Total(t)' = Total(t) /\ sent'[t] = sent[t]
      BY <1>1 DEF Total
    <3>6. Follows(got[t], sent[t], early[t], t, Total(t))
      BY <3>3, <3>4 DEF Follows
    <3>7. Reaches(got'[t], got[t], sent[t], early[t], Total(t))
      BY <1>1, <3>1, <3>6, DeliverContinues
    <3>8. ~Ends(early[t])
      BY <1>1, <3>1, EndResolves DEF Tracked
    <3>9. /\ Len(got'[t]) = Len(got[t]) + Len(early[t]) /\ Len(got'[t]) <= Len(sent[t])
          /\ \A i \in 1 .. Len(got'[t]) : got'[t][i] = sent[t][i]
      BY <3>7, <3>8 DEF Reaches
    <3>10. early'[t] = <<>> /\ Len(early'[t]) = 0
      BY <1>1, EmptySeq
    <3>11. Received(t)' = Received(t)
      BY <3>4, <3>9, <3>10 DEF Received
    <3>12. Other(t)
      BY <1>1 DEF Other, OfTurn, Texts
    <3>13. \E g : Indexed(g, Received(t)' + 1, Total(t)', pipe', t, sent'[t])
      BY <3>1, <3>2, <3>5, <3>11, <3>12, Reindexed
    <3>14. \A i \in 1 .. Len(early'[t]) : IsNth(early'[t][i], t, Len(got'[t]) + i, sent'[t])
      BY <3>10
    <3>15. Received(t)' <= Total(t)'
      BY <3>3, <3>5, <3>11
    <3>16. Whole(t)'
      BY <3>5, <3>9, <3>10, <3>13, <3>14, <3>15 DEF Whole
    <3> QED  BY <2>2, <3>16
  <2> QED  BY <2>1, <2>2
<1> QED  BY <1>2, <1>3, <1>4, <1>5, <1>6, <1>7, <1>8, <1>9, <1>10, <1>11, <1>12, <1>13
    DEF ClientInv

LEMMA ReadUnboundStep ==
  ASSUME ClientInv, NEW t \in Turns, ReadsOne, t = Head(pipe).turn, HandleResponse(Head(pipe), FALSE),
         reply[t] = "sent", Head(pipe).body = "ok"
  PROVE  ClientInv'
<1>1. /\ reader = "reading" /\ closing = "open"
      /\ pipe' \in Seq(Lines) /\ pipe # <<>> /\ pipe' = Tail(pipe) /\ Head(pipe) \in Lines
      /\ \A i \in DOMAIN pipe' : \E k \in DOMAIN pipe : pipe'[i] = pipe[k]
      /\ Head(pipe).type = "reply" /\ reply[t] = "sent"
      /\ starting' = starting \ {t} /\ bound' = bound \cup {t} /\ current' = t
      /\ reply'[t] = "failed" /\ \A c \in Calls \ {t} : reply'[c] = reply[c]
      /\ unbound' = unbound \cup {t}
      /\ UNCHANGED <<worker, proc, reader, closing, epoch, host, early, finished, got, result,
                     call, ask, stop, auth, tool, sent, scene, present, late>>
  <2>1. /\ reader = "reading" /\ closing = "open"
        /\ pipe' \in Seq(Lines) /\ pipe # <<>> /\ pipe' = Tail(pipe) /\ Head(pipe) \in Lines
        /\ \A i \in DOMAIN pipe' : \E k \in DOMAIN pipe : pipe'[i] = pipe[k]
        /\ Head(pipe).turn \in Calls
        /\ Head(pipe).type # "reply" => Head(pipe).turn \in Turns /\ call[Head(pipe).turn] # "idle"
        /\ Head(pipe).type = "ask" =>
             /\ ask[Head(pipe).turn] # "none"
             /\ Head(pipe).turn \in finished \cup unbound \/ InFlight(Head(pipe).turn)
        /\ Head(pipe).type = "reply" /\ Head(pipe).body # "ok" /\ Head(pipe).turn \in Turns
             => host[Head(pipe).turn] = "rejected"
    BY HeadLine
  <2> QED  BY <2>1, Names, ResultKinds DEF ClientInv, ClientTypes, ReadsOne, ReaderUnchanged,
      HandleResponse, Acknowledged, conn, rpc, ghost
<1>2. ClientTypes'
  <2>1. pipe' \in Seq(Lines)
    BY Names DEF ClientInv, ClientTypes, ReadsOne, ReaderUnchanged, HandleResponse,
        Acknowledged, conn, rpc, ghost
  <2>2. reply' \in [Calls -> Futures]
    BY ZenonT(60), Names DEF ClientInv, ClientTypes, ReadsOne, ReaderUnchanged, HandleResponse,
        Acknowledged, Futures, conn, rpc, ghost
  <2> QED  BY <1>1, <2>1, <2>2, Names, ResultKinds DEF ClientInv, ClientTypes
<1>3. OneTurn' /\ StopInv' /\ AuthInv' /\ ToolInv'
  BY <1>1, Framed
<1>4. Untried'
  BY <1>1, Names, ResultKinds DEF ClientInv, Untried, ClientTypes, OneTurn, BindInv
<1>5. PipeInv'
  <2> SUFFICES ASSUME NEW k \in DOMAIN pipe
               PROVE  /\ pipe[k].type # "reply" => pipe[k].turn \in Turns /\ call'[pipe[k].turn] # "idle"
                      /\ pipe[k].type = "ask" => ask'[pipe[k].turn] # "none"
                      /\ pipe[k].type = "reply" /\ pipe[k].body # "ok" /\ pipe[k].turn \in Turns
                           => host'[pipe[k].turn] = "rejected"
    BY <1>1 DEF PipeInv
  <2> QED  BY <1>1 DEF ClientInv, PipeInv, Settled
<1>6. HostInv'
  BY <1>1, Names, ResultKinds DEF ClientInv, HostInv, ClientTypes, OneTurn, Untried
<1>7. BindInv'
  BY SMTT(30), <1>1, Names, ResultKinds DEF ClientInv, BindInv, ClientTypes, OneTurn, HostInv, Untried,
      InFlight
<1>8. AnswerInv'
  BY <1>1, Names, ResultKinds DEF ClientInv, AnswerInv, ClientTypes, BindInv, OneTurn, Untried,
      InFlight
<1>9. AskInv'
  BY <1>1, Names, ResultKinds DEF ClientInv, AskInv, ClientTypes, BindInv, OneTurn, Untried,
      HostInv, PipeInv, DrainInv, LineInv, QuestionsOfLiveTurns, InFlight, Drained
<1>10. LineInv'
  <2>1. ASSUME NEW k \in DOMAIN pipe, pipe[k].type = "ask"
        PROVE  pipe[k].turn \in finished' \cup unbound' \/ call'[pipe[k].turn] \in {"starting", "waiting"}
    <3>1. pipe[k].turn \in finished \cup unbound \/ call[pipe[k].turn] \in {"starting", "waiting"}
      BY <1>1, <2>1 DEF ClientInv, LineInv, InFlight
    <3> QED  BY <1>1, <3>1 DEF Settled
  <2>2. \A i \in DOMAIN pipe' : pipe'[i].type = "ask" =>
          pipe'[i].turn \in finished' \cup unbound' \/ call'[pipe'[i].turn] \in {"starting", "waiting"}
    BY <1>1, <2>1
  <2>3. ASSUME NEW u \in Turns
        PROVE  /\ call'[u] = "starting" /\ reply'[u] = "failed" => u \in unbound' \/ host'[u] = "rejected"
               /\ InFlight(u)' /\ result'[u] # NoResult => u \in finished' \/ u \in unbound'
               /\ call'[u] = "done" /\ host'[u] \in {"working", "ended"} => u \in finished' \/ u \in unbound'
    <3>1. u \in Calls
      BY Names
    <3> QED  BY <1>1, <3>1 DEF ClientInv, LineInv, InFlight, Settled
  <2> QED  BY <2>2, <2>3 DEF LineInv, InFlight
<1>11. DrainInv'
  BY <1>1, Names, ResultKinds DEF ClientInv, DrainInv, ClientTypes, BindInv, OneTurn, HostInv,
      Untried, Drained, InFlight
<1>12. NumberedInv'
  <2> SUFFICES ASSUME NEW u \in Turns, Tracked(u)' PROVE Whole(u)'
    BY DEF NumberedInv
  <2>4. u # t
    BY <1>1, Names DEF ClientInv, BindInv, Tracked, InFlight
  <2>1. ClientTypes /\ Whole(u)
    <3>1. u \in Calls
      BY Names
    <3>2. Tracked(u)
      BY <1>1, <2>4, <3>1 DEF Tracked, InFlight
    <3> QED  BY <3>2 DEF ClientInv, NumberedInv
  <2>2. ~OfTurn(Head(pipe), u)
    BY <1>1 DEF OfTurn, Texts
  <2>3. Other(u)
    BY <1>1, <2>2 DEF Other
  <2> QED  BY <1>1, <2>4, <2>1, <2>3, WholeAlong
<1> QED  BY <1>2, <1>3, <1>4, <1>5, <1>6, <1>7, <1>8, <1>9, <1>10, <1>11, <1>12 DEF ClientInv

LEMMA ReadEarlyStep ==
  ASSUME ClientInv, NEW t \in Turns, ReadsOne, t = Head(pipe).turn, HandleNotification(Head(pipe)), EarlyOf(t)
  PROVE  ClientInv'
<1>1. /\ reader = "reading" /\ closing = "open"
      /\ pipe' \in Seq(Lines) /\ pipe # <<>> /\ pipe' = Tail(pipe) /\ Head(pipe) \in Lines
      /\ \A i \in DOMAIN pipe' : \E k \in DOMAIN pipe : pipe'[i] = pipe[k]
      /\ Head(pipe).type \in {"item", "ended"} /\ call[t] # "idle"
      /\ t \notin bound
      /\ early'[t] = Append(early[t], Head(pipe)) /\ \A u \in Turns \ {t} : early'[u] = early[u]
      /\ UNCHANGED <<worker, proc, reader, closing, epoch, host, reply, starting, bound,
                     current, finished, got, result, call, ask, stop, auth, tool, sent, scene,
                     present, late, unbound>>
  <2>1. /\ reader = "reading" /\ closing = "open"
        /\ pipe' \in Seq(Lines) /\ pipe # <<>> /\ pipe' = Tail(pipe) /\ Head(pipe) \in Lines
        /\ \A i \in DOMAIN pipe' : \E k \in DOMAIN pipe : pipe'[i] = pipe[k]
        /\ Head(pipe).turn \in Calls
        /\ Head(pipe).type # "reply" => Head(pipe).turn \in Turns /\ call[Head(pipe).turn] # "idle"
        /\ Head(pipe).type = "ask" =>
             /\ ask[Head(pipe).turn] # "none"
             /\ Head(pipe).turn \in finished \cup unbound \/ InFlight(Head(pipe).turn)
        /\ Head(pipe).type = "reply" /\ Head(pipe).body # "ok" /\ Head(pipe).turn \in Turns
             => host[Head(pipe).turn] = "rejected"
    BY HeadLine
  <2> QED  BY ZenonT(60), <2>1, Names, ResultKinds DEF ClientInv, ClientTypes, ReadsOne, ReaderUnchanged,
      HandleNotification, EarlyOf, conn, rpc, ghost
<1>2. ClientTypes'
  <2>1. pipe' \in Seq(Lines)
    BY Names DEF ClientInv, ClientTypes, ReadsOne, ReaderUnchanged, HandleResponse,
        HandleNotification, EarlyOf, conn, rpc, ghost
  <2>2. early' \in [Turns -> Seq(Lines)]
    <3>1. early \in [Turns -> Seq(Lines)] /\ early' = [early EXCEPT ![t] = Append(@, Head(pipe))]
      BY Zenon, <1>1 DEF ClientInv, ClientTypes, HandleNotification, EarlyOf
    <3>2. Append(early[t], Head(pipe)) \in Seq(Lines)
      BY <1>1, <3>1, AppendProperties
    <3> QED  BY <3>1, <3>2
  <2> QED  BY Zenon, <1>1, <2>1, <2>2, Names, ResultKinds DEF ClientInv, ClientTypes
<1>3. OneTurn' /\ BindInv' /\ AnswerInv' /\ AskInv' /\ DrainInv' /\ StopInv' /\ AuthInv'
     /\ ToolInv'
  BY <1>1, Framed
<1>4. Untried'
  BY SMTT(30), <1>1, Names, ResultKinds DEF ClientInv, Untried, ClientTypes, OneTurn, BindInv
<1>5. PipeInv'
  <2> SUFFICES ASSUME NEW k \in DOMAIN pipe
               PROVE  /\ pipe[k].type # "reply" => pipe[k].turn \in Turns /\ call'[pipe[k].turn] # "idle"
                      /\ pipe[k].type = "ask" => ask'[pipe[k].turn] # "none"
                      /\ pipe[k].type = "reply" /\ pipe[k].body # "ok" /\ pipe[k].turn \in Turns
                           => host'[pipe[k].turn] = "rejected"
    BY <1>1 DEF PipeInv
  <2> QED  BY <1>1 DEF ClientInv, PipeInv, Settled
<1>6. HostInv'
  BY <1>1, Names, ResultKinds DEF ClientInv, HostInv, ClientTypes, OneTurn, Untried
<1>7. LineInv'
  <2>1. ASSUME NEW k \in DOMAIN pipe, pipe[k].type = "ask"
        PROVE  pipe[k].turn \in finished' \cup unbound' \/ call'[pipe[k].turn] \in {"starting", "waiting"}
    <3>1. pipe[k].turn \in finished \cup unbound \/ call[pipe[k].turn] \in {"starting", "waiting"}
      BY <1>1, <2>1 DEF ClientInv, LineInv, InFlight
    <3> QED  BY <1>1, <3>1 DEF Settled
  <2>2. \A i \in DOMAIN pipe' : pipe'[i].type = "ask" =>
          pipe'[i].turn \in finished' \cup unbound' \/ call'[pipe'[i].turn] \in {"starting", "waiting"}
    BY <1>1, <2>1
  <2>3. ASSUME NEW u \in Turns
        PROVE  /\ call'[u] = "starting" /\ reply'[u] = "failed" => u \in unbound' \/ host'[u] = "rejected"
               /\ InFlight(u)' /\ result'[u] # NoResult => u \in finished' \/ u \in unbound'
               /\ call'[u] = "done" /\ host'[u] \in {"working", "ended"} => u \in finished' \/ u \in unbound'
    <3>1. u \in Calls
      BY Names
    <3> QED  BY <1>1, <3>1 DEF ClientInv, LineInv, InFlight, Settled
  <2> QED  BY <2>2, <2>3 DEF LineInv, InFlight
<1>8. NumberedInv'
  <2> SUFFICES ASSUME NEW u \in Turns, Tracked(u)' PROVE Whole(u)'
    BY DEF NumberedInv
  <2>1. CASE u # t
    <3>1. u \in Calls
      BY Names
    <3>2. Tracked(u)
      BY <1>1, <2>1, <3>1 DEF Tracked, InFlight, Settled
    <3>3. ClientTypes /\ Whole(u)
      BY <3>2 DEF ClientInv, NumberedInv
    <3>4. ~OfTurn(Head(pipe), u)
      BY <1>1, <2>1 DEF OfTurn, Texts
    <3>5. Other(u)
      BY <1>1, <3>4 DEF Other
    <3>6. /\ sent'[u] = sent[u] /\ got'[u] = got[u] /\ early'[u] = early[u]
          /\ u \in bound' => u \in bound
          /\ host'[u] = "ended" <=> host[u] = "ended"
      BY <1>1, <2>1 DEF Settled
    <3> QED  BY <3>3, <3>5, <3>6, WholeAlong
  <2>2. CASE u = t
    <3>1. Tracked(t) /\ result'[t] = NoResult /\ ClientTypes
      BY <1>1, <2>2, Names, ResultKinds DEF ClientInv, BindInv, Tracked, InFlight, Settled
    <3>2. Whole(t)
      BY <3>1 DEF ClientInv, NumberedInv
    <3>3. /\ Len(got[t]) <= Len(sent[t]) /\ \A i \in 1 .. Len(got[t]) : got[t][i] = sent[t][i]
          /\ Received(t) <= Total(t)
          /\ \A i \in 1 .. Len(early[t]) : IsNth(early[t][i], t, Len(got[t]) + i, sent[t])
          /\ t \in bound => early[t] = <<>>
      BY <3>2 DEF Whole
    <3>4. /\ Received(t) \in Nat /\ Total(t) \in Nat /\ Len(got[t]) \in Nat /\ Len(early[t]) \in Nat
          /\ Received(t) = Len(got[t]) + Len(early[t])
      BY <3>1, Counts
    <3>5. Total(t)' = Total(t) /\ sent'[t] = sent[t]
      BY <1>1 DEF Total
    <3>6. PICK f : Indexed(f, Received(t) + 1, Total(t), pipe, t, sent[t])
      BY <3>2 DEF Whole
    <3>7. OfTurn(Head(pipe), t) /\ pipe \in Seq(Lines) /\ pipe # <<>> /\ Received(t) + 1 \in Nat \ {0}
      <4>1. OfTurn(Head(pipe), t) /\ pipe \in Seq(Lines) /\ pipe # <<>>
        BY <1>1, <3>1 DEF OfTurn, Texts, ClientTypes
      <4> QED  BY SMTT(30), <3>1, <3>4, <4>1 DEF ClientTypes
    <3>8. /\ Received(t) + 1 <= Total(t) /\ IsNth(Head(pipe), t, Received(t) + 1, sent[t])
          /\ \E g : Indexed(g, Received(t) + 1 + 1, Total(t), Tail(pipe), t, sent[t])
      BY <3>4, <3>6, <3>7, IndexedTail
    <3>9. early[t] \in Seq(Lines) /\ Head(pipe) \in Lines /\ early'[t] = Append(early[t], Head(pipe))
      BY <1>1, <3>1 DEF ClientTypes
    <3>10. /\ Len(early'[t]) = Len(early[t]) + 1 /\ early'[t][Len(early[t]) + 1] = Head(pipe)
           /\ \A i \in 1 .. Len(early[t]) : early'[t][i] = early[t][i]
      BY <3>9, AppendProperties
    <3>11. got'[t] = got[t] /\ t \notin bound'
      BY <1>1
    <3>12. Received(t)' = Received(t) + 1
      BY <3>1, <3>4, <3>10, <3>11 DEF Received, ClientTypes
    <3>13. ASSUME NEW i \in 1 .. Len(early'[t])
           PROVE  IsNth(early'[t][i], t, Len(got'[t]) + i, sent'[t])
      <4>1. CASE i = Len(early[t]) + 1
        <5>1. Len(got[t]) + i = Received(t) + 1
          BY <3>1, <3>4, <4>1 DEF ClientTypes
        <5> QED  BY Zenon, <3>5, <3>8, <3>10, <3>11, <4>1, <5>1
      <4>2. CASE i # Len(early[t]) + 1
        <5>1. i \in 1 .. Len(early[t])
          BY <3>4, <3>10, <4>2
        <5> QED  BY <3>3, <3>5, <3>10, <3>11, <5>1
      <4> QED  BY <4>1, <4>2
    <3>14. \E g : Indexed(g, Received(t)' + 1, Total(t)', pipe', t, sent'[t])
      BY <1>1, <3>5, <3>8, <3>12
    <3>15. Received(t)' <= Total(t)'
      BY <3>5, <3>8, <3>12
    <3>16. Whole(t)'
      BY <3>3, <3>5, <3>11, <3>13, <3>14, <3>15 DEF Whole
    <3> QED  BY <2>2, <3>16
  <2> QED  BY <2>1, <2>2
<1> QED  BY <1>2, <1>3, <1>4, <1>5, <1>6, <1>7, <1>8 DEF ClientInv

LEMMA ReadDeliverStep ==
  ASSUME ClientInv, NEW t \in Turns, ReadsOne, t = Head(pipe).turn, HandleNotification(Head(pipe)), ~EarlyOf(t), t \in bound
  PROVE  ClientInv'
<1>1. /\ reader = "reading" /\ closing = "open"
      /\ pipe' \in Seq(Lines) /\ pipe # <<>> /\ pipe' = Tail(pipe) /\ Head(pipe) \in Lines
      /\ \A i \in DOMAIN pipe' : \E k \in DOMAIN pipe : pipe'[i] = pipe[k]
      /\ Head(pipe).type \in {"item", "ended"} /\ call[t] # "idle"
      /\ t \in bound
      /\ Deliver(t, <<Head(pipe)>>) /\ <<Head(pipe)>> \in Seq(Lines) /\ Settled(t)
      /\ UNCHANGED <<worker, proc, reader, closing, epoch, host, reply, starting, bound,
                     current, early, call, stop, auth, tool, sent, scene, present, late,
                     unbound>>
  <2>1. /\ reader = "reading" /\ closing = "open"
        /\ pipe' \in Seq(Lines) /\ pipe # <<>> /\ pipe' = Tail(pipe) /\ Head(pipe) \in Lines
        /\ \A i \in DOMAIN pipe' : \E k \in DOMAIN pipe : pipe'[i] = pipe[k]
        /\ Head(pipe).turn \in Calls
        /\ Head(pipe).type # "reply" => Head(pipe).turn \in Turns /\ call[Head(pipe).turn] # "idle"
        /\ Head(pipe).type = "ask" =>
             /\ ask[Head(pipe).turn] # "none"
             /\ Head(pipe).turn \in finished \cup unbound \/ InFlight(Head(pipe).turn)
        /\ Head(pipe).type = "reply" /\ Head(pipe).body # "ok" /\ Head(pipe).turn \in Turns
             => host[Head(pipe).turn] = "rejected"
    BY HeadLine
  <2>2. <<Head(pipe)>> \in Seq(Lines) /\ Deliver(t, <<Head(pipe)>>) /\ Settled(t)
    <3>1. ClientTypes /\ <<Head(pipe)>> \in Seq(Lines) /\ Deliver(t, <<Head(pipe)>>)
      BY <2>1 DEF ClientInv, HandleNotification
    <3> QED  BY <3>1, DeliverSettled
  <2> QED  BY <2>1, <2>2, Names, ResultKinds DEF ClientInv, ClientTypes, ReadsOne,
      ReaderUnchanged, HandleNotification, conn, rpc, ghost
<1>2. ClientTypes'
  <2>1. pipe' \in Seq(Lines)
    BY Names DEF ClientInv, ClientTypes, ReadsOne, ReaderUnchanged, HandleResponse,
        HandleNotification, conn, rpc, ghost
  <2>2. got' \in [Turns -> Seq(Bodies)]
    BY <1>1 DEF Settled
  <2>3. DOMAIN result' = Turns
    BY <1>1 DEF Settled
  <2>4. ask' \in [Turns -> {"none", "sent", "open", "unwinding", "over"}]
    BY <1>1 DEF Settled
  <2>10. /\ finished' \subseteq Turns
         /\ \A u \in Turns : result'[u] = NoResult \/ result'[u].kind \in {"failed", "answer"}
    <3>1. \A u \in Turns : result'[u] = result[u] \/ result'[u].kind \in {"failed", "answer"}
      BY <1>1 DEF Settled
    <3>2. \A u \in Turns : result[u] = NoResult \/ result[u].kind \in {"failed", "answer"}
      BY DEF ClientInv, ClientTypes
    <3>3. \A u \in Turns : result'[u] = NoResult \/ result'[u].kind \in {"failed", "answer"}
      BY <3>1, <3>2
    <3>4. finished' \subseteq Turns
      BY <1>1 DEF ClientInv, ClientTypes, Settled
    <3> QED  BY <3>3, <3>4
  <2> QED  BY <1>1, <2>1, <2>2, <2>3, <2>4, <2>10, Names, ResultKinds DEF ClientInv, ClientTypes
<1>3. OneTurn' /\ StopInv' /\ AuthInv' /\ ToolInv'
  BY <1>1, Framed
<1>4. Untried'
  BY SMTT(30), <1>1, Names, ResultKinds DEF ClientInv, Untried, ClientTypes, OneTurn, BindInv, Settled
<1>5. PipeInv'
  <2> SUFFICES ASSUME NEW k \in DOMAIN pipe
               PROVE  /\ pipe[k].type # "reply" => pipe[k].turn \in Turns /\ call'[pipe[k].turn] # "idle"
                      /\ pipe[k].type = "ask" => ask'[pipe[k].turn] # "none"
                      /\ pipe[k].type = "reply" /\ pipe[k].body # "ok" /\ pipe[k].turn \in Turns
                           => host'[pipe[k].turn] = "rejected"
    BY <1>1 DEF PipeInv
  <2> QED  BY SMTT(30), <1>1 DEF ClientInv, PipeInv, Settled
<1>6. HostInv'
  BY <1>1, Names, ResultKinds DEF ClientInv, HostInv, ClientTypes, OneTurn, Untried, Settled
<1>7. BindInv'
  BY <1>1, Names, ResultKinds DEF ClientInv, BindInv, ClientTypes, OneTurn, HostInv, Untried,
      InFlight, Settled
<1>8. AnswerInv'
  <2> SUFFICES ASSUME NEW u \in Turns, result'[u].kind = "answer",
                      ~(call'[u] = "starting" /\ reply'[u] = "failed")
               PROVE  /\ host'[u] \in {"ended", "gone"}
                      /\ result'[u].text = FinalMessage(sent'[u])
                      /\ result'[u].tools = Of(sent'[u], "tool")
    BY DEF AnswerInv
  <2>1. CASE result'[u] = result[u]
    BY <1>1, <2>1, Names DEF ClientInv, AnswerInv
  <2>2. CASE result'[u] # result[u]
    <3>1. u = t /\ result[t] = NoResult
      BY <1>1, <2>2 DEF Settled
    <3>2. Follows(got[t], sent[t], <<Head(pipe)>>, t, Total(t))
      <4>1. Tracked(t) /\ ClientTypes
        BY <1>1, <3>1, Names DEF ClientInv, BindInv, Tracked, InFlight
      <4>2. Whole(t)
        BY <4>1 DEF ClientInv, NumberedInv
      <4>3. OfTurn(Head(pipe), t)
        BY <1>1 DEF OfTurn, Texts
      <4> QED  BY <1>1, <4>1, <4>2, <4>3, NextFollows
    <3> QED  BY <1>1, <3>1, <3>2, AnswerIs DEF ClientInv
  <2> QED  BY <2>1, <2>2
<1>9. AskInv'
  <2> SUFFICES ASSUME NEW u \in Turns, ask'[u] = "open"
               PROVE  /\ InFlight(u)' \/ u \in unbound'
                      /\ reader' = "reading" /\ (result'[u] = NoResult \/ u \in unbound')
    BY DEF AskInv, QuestionsOfLiveTurns
  <2>1. ask[u] = "open" /\ result'[u] = result[u]
    BY <1>1 DEF Settled
  <2> QED  BY <1>1, <2>1 DEF ClientInv, AskInv, QuestionsOfLiveTurns, InFlight
<1>10. LineInv'
  <2>1. ASSUME NEW k \in DOMAIN pipe, pipe[k].type = "ask"
        PROVE  pipe[k].turn \in finished' \cup unbound' \/ call'[pipe[k].turn] \in {"starting", "waiting"}
    <3>1. pipe[k].turn \in finished \cup unbound \/ call[pipe[k].turn] \in {"starting", "waiting"}
      BY <1>1, <2>1 DEF ClientInv, LineInv, InFlight
    <3> QED  BY <1>1, <3>1 DEF Settled
  <2>2. \A i \in DOMAIN pipe' : pipe'[i].type = "ask" =>
          pipe'[i].turn \in finished' \cup unbound' \/ call'[pipe'[i].turn] \in {"starting", "waiting"}
    BY <1>1, <2>1
  <2>3. ASSUME NEW u \in Turns
        PROVE  /\ call'[u] = "starting" /\ reply'[u] = "failed" => u \in unbound' \/ host'[u] = "rejected"
               /\ InFlight(u)' /\ result'[u] # NoResult => u \in finished' \/ u \in unbound'
               /\ call'[u] = "done" /\ host'[u] \in {"working", "ended"} => u \in finished' \/ u \in unbound'
    <3>1. u \in Calls
      BY Names
    <3>2. /\ call'[u] = "starting" /\ reply'[u] = "failed" => call[u] = "starting" /\ reply[u] = "failed"
          /\ result'[u] = result[u] \/ u \in finished'
          /\ finished \subseteq finished' /\ unbound' = unbound /\ host' = host /\ call' = call
      BY <1>1, <3>1 DEF Settled
    <3> QED  BY <1>1, <3>2 DEF ClientInv, LineInv, InFlight
  <2> QED  BY <2>2, <2>3 DEF LineInv, InFlight
<1>11. DrainInv'
  BY <1>1, Names, ResultKinds DEF ClientInv, DrainInv, ClientTypes, BindInv, OneTurn, HostInv,
      Untried, Drained, InFlight, Settled
<1>12. NumberedInv'
  <2> SUFFICES ASSUME NEW u \in Turns, Tracked(u)' PROVE Whole(u)'
    BY DEF NumberedInv
  <2>1. CASE u # t
    <3>1. u \in Calls
      BY Names
    <3>2. Tracked(u)
      BY <1>1, <2>1, <3>1 DEF Tracked, InFlight, Settled
    <3>3. ClientTypes /\ Whole(u)
      BY <3>2 DEF ClientInv, NumberedInv
    <3>4. ~OfTurn(Head(pipe), u)
      BY <1>1, <2>1 DEF OfTurn, Texts
    <3>5. Other(u)
      BY <1>1, <3>4 DEF Other
    <3>6. /\ sent'[u] = sent[u] /\ got'[u] = got[u] /\ early'[u] = early[u]
          /\ u \in bound' => u \in bound
          /\ host'[u] = "ended" <=> host[u] = "ended"
      BY <1>1, <2>1 DEF Settled
    <3> QED  BY <3>3, <3>5, <3>6, WholeAlong
  <2>2. CASE u = t
    <3>1. Tracked(t) /\ result'[t] = NoResult /\ ClientTypes
      BY <1>1, <2>2, Names, ResultKinds DEF ClientInv, BindInv, Tracked, InFlight, Settled
    <3>2. Whole(t)
      BY <3>1 DEF ClientInv, NumberedInv
    <3>3. /\ Len(got[t]) <= Len(sent[t]) /\ \A i \in 1 .. Len(got[t]) : got[t][i] = sent[t][i]
          /\ Received(t) <= Total(t)
          /\ \A i \in 1 .. Len(early[t]) : IsNth(early[t][i], t, Len(got[t]) + i, sent[t])
          /\ t \in bound => early[t] = <<>>
      BY <3>2 DEF Whole
    <3>4. /\ Received(t) \in Nat /\ Total(t) \in Nat /\ Len(got[t]) \in Nat /\ Len(early[t]) \in Nat
          /\ Received(t) = Len(got[t]) + Len(early[t])
      BY <3>1, Counts
    <3>5. Total(t)' = Total(t) /\ sent'[t] = sent[t]
      BY <1>1 DEF Total
    <3>6. PICK f : Indexed(f, Received(t) + 1, Total(t), pipe, t, sent[t])
      BY <3>2 DEF Whole
    <3>7. OfTurn(Head(pipe), t) /\ pipe \in Seq(Lines) /\ pipe # <<>> /\ Received(t) + 1 \in Nat \ {0}
      <4>1. OfTurn(Head(pipe), t) /\ pipe \in Seq(Lines) /\ pipe # <<>>
        BY <1>1, <3>1 DEF OfTurn, Texts, ClientTypes
      <4> QED  BY SMTT(30), <3>1, <3>4, <4>1 DEF ClientTypes
    <3>8. /\ Received(t) + 1 <= Total(t) /\ IsNth(Head(pipe), t, Received(t) + 1, sent[t])
          /\ \E g : Indexed(g, Received(t) + 1 + 1, Total(t), Tail(pipe), t, sent[t])
      BY <3>4, <3>6, <3>7, IndexedTail
    <3>9. early[t] = <<>> /\ early'[t] = <<>> /\ Len(early[t]) = 0 /\ Len(early'[t]) = 0
      BY <1>1, <3>3, EmptySeq
    <3> DEFINE lines == <<Head(pipe)>>
    <3>10. Len(lines) = 1 /\ lines[1] = Head(pipe)
      OBVIOUS
    <3>12. Follows(got[t], sent[t], lines, t, Total(t))
      BY <1>1, <3>1, <3>2, <3>7, NextFollows
    <3>11. Deliver(t, lines) /\ lines \in Seq(Lines)
      BY <1>1
    <3> HIDE DEF lines
    <3>13. Reaches(got'[t], got[t], sent[t], lines, Total(t))
      BY <3>1, <3>11, <3>12, DeliverContinues
    <3>14. ~Ends(lines)
      BY <3>1, <3>11, EndResolves DEF Tracked
    <3>15. /\ Len(got'[t]) = Len(got[t]) + 1 /\ Len(got'[t]) <= Len(sent[t])
           /\ \A i \in 1 .. Len(got'[t]) : got'[t][i] = sent[t][i]
      BY <3>10, <3>13, <3>14 DEF Reaches
    <3>16. Received(t)' = Received(t) + 1
      BY <3>4, <3>9, <3>15 DEF Received
    <3>17. \E g : Indexed(g, Received(t)' + 1, Total(t)', pipe', t, sent'[t])
      BY <1>1, <3>5, <3>8, <3>16
    <3>18. \A i \in 1 .. Len(early'[t]) : IsNth(early'[t][i], t, Len(got'[t]) + i, sent'[t])
      BY <3>9
    <3>19. Received(t)' <= Total(t)'
      BY <3>5, <3>8, <3>16
    <3>20. Whole(t)'
      BY <3>5, <3>9, <3>15, <3>17, <3>18, <3>19 DEF Whole
    <3> QED  BY <2>2, <3>20
  <2> QED  BY <2>1, <2>2
<1> QED  BY <1>2, <1>3, <1>4, <1>5, <1>6, <1>7, <1>8, <1>9, <1>10, <1>11, <1>12 DEF ClientInv

LEMMA ReadOtherStep ==
  ASSUME ClientInv, NEW t \in Turns, ReadsOne, t = Head(pipe).turn, HandleNotification(Head(pipe)), ~EarlyOf(t), t \notin bound
  PROVE  ClientInv'
<1>1. /\ reader = "reading" /\ closing = "open"
      /\ pipe' \in Seq(Lines) /\ pipe # <<>> /\ pipe' = Tail(pipe) /\ Head(pipe) \in Lines
      /\ \A i \in DOMAIN pipe' : \E k \in DOMAIN pipe : pipe'[i] = pipe[k]
      /\ Head(pipe).type \in {"item", "ended"} /\ call[t] # "idle"
      /\ t \notin bound /\ starting = {}
      /\ \A u \in Turns : ask'[u] = ask[u] \/ (ask[u] = "open" /\ ask'[u] = "unwinding")
      /\ finished' \in {finished, finished \cup {t}}
      /\ UNCHANGED <<worker, proc, reader, closing, epoch, host, reply, starting, bound,
                     current, early, got, result, call, stop, auth, tool, sent, scene, present,
                     late, unbound>>
  <2>1. /\ reader = "reading" /\ closing = "open"
        /\ pipe' \in Seq(Lines) /\ pipe # <<>> /\ pipe' = Tail(pipe) /\ Head(pipe) \in Lines
        /\ \A i \in DOMAIN pipe' : \E k \in DOMAIN pipe : pipe'[i] = pipe[k]
        /\ Head(pipe).turn \in Calls
        /\ Head(pipe).type # "reply" => Head(pipe).turn \in Turns /\ call[Head(pipe).turn] # "idle"
        /\ Head(pipe).type = "ask" =>
             /\ ask[Head(pipe).turn] # "none"
             /\ Head(pipe).turn \in finished \cup unbound \/ InFlight(Head(pipe).turn)
        /\ Head(pipe).type = "reply" /\ Head(pipe).body # "ok" /\ Head(pipe).turn \in Turns
             => host[Head(pipe).turn] = "rejected"
    BY HeadLine
  <2> QED  BY SMTT(30), <2>1, Names, ResultKinds DEF ClientInv, ClientTypes, ReadsOne, ReaderUnchanged,
      HandleNotification, EarlyOf, Cancelled, conn, rpc, ghost
<1>2. ClientTypes'
  <2>1. pipe' \in Seq(Lines)
    BY Names DEF ClientInv, ClientTypes, ReadsOne, ReaderUnchanged, HandleResponse,
        HandleNotification, EarlyOf, Cancelled, conn, rpc, ghost
  <2>2. ask' \in [Turns -> {"none", "sent", "open", "unwinding", "over"}]
    BY Names DEF ClientInv, ClientTypes, ReadsOne, ReaderUnchanged, HandleResponse,
        HandleNotification, EarlyOf, Cancelled, conn, rpc, ghost
  <2> QED  BY <1>1, <2>1, <2>2, Names, ResultKinds DEF ClientInv, ClientTypes
<1>3. OneTurn' /\ BindInv' /\ AnswerInv' /\ DrainInv' /\ StopInv' /\ AuthInv' /\ ToolInv'
  BY <1>1, Framed
<1>4. Untried'
  BY <1>1, Names, ResultKinds DEF ClientInv, Untried, ClientTypes, OneTurn, BindInv
<1>5. PipeInv'
  <2> SUFFICES ASSUME NEW k \in DOMAIN pipe
               PROVE  /\ pipe[k].type # "reply" => pipe[k].turn \in Turns /\ call'[pipe[k].turn] # "idle"
                      /\ pipe[k].type = "ask" => ask'[pipe[k].turn] # "none"
                      /\ pipe[k].type = "reply" /\ pipe[k].body # "ok" /\ pipe[k].turn \in Turns
                           => host'[pipe[k].turn] = "rejected"
    BY <1>1 DEF PipeInv
  <2> QED  BY <1>1 DEF ClientInv, PipeInv, Settled
<1>6. HostInv'
  BY <1>1, Names, ResultKinds DEF ClientInv, HostInv, ClientTypes, OneTurn, Untried
<1>7. AskInv'
  BY SMTT(30), <1>1, Names, ResultKinds DEF ClientInv, AskInv, ClientTypes, BindInv, OneTurn, Untried,
      HostInv, PipeInv, DrainInv, LineInv, QuestionsOfLiveTurns, InFlight, Drained
<1>8. LineInv'
  <2>1. ASSUME NEW k \in DOMAIN pipe, pipe[k].type = "ask"
        PROVE  pipe[k].turn \in finished' \cup unbound' \/ call'[pipe[k].turn] \in {"starting", "waiting"}
    <3>1. pipe[k].turn \in finished \cup unbound \/ call[pipe[k].turn] \in {"starting", "waiting"}
      BY <1>1, <2>1 DEF ClientInv, LineInv, InFlight
    <3> QED  BY <1>1, <3>1 DEF Settled
  <2>2. \A i \in DOMAIN pipe' : pipe'[i].type = "ask" =>
          pipe'[i].turn \in finished' \cup unbound' \/ call'[pipe'[i].turn] \in {"starting", "waiting"}
    BY <1>1, <2>1
  <2>3. ASSUME NEW u \in Turns
        PROVE  /\ call'[u] = "starting" /\ reply'[u] = "failed" => u \in unbound' \/ host'[u] = "rejected"
               /\ InFlight(u)' /\ result'[u] # NoResult => u \in finished' \/ u \in unbound'
               /\ call'[u] = "done" /\ host'[u] \in {"working", "ended"} => u \in finished' \/ u \in unbound'
    <3>1. u \in Calls
      BY Names
    <3> QED  BY <1>1, <3>1 DEF ClientInv, LineInv, InFlight, Settled
  <2> QED  BY <2>2, <2>3 DEF LineInv, InFlight
<1>9. NumberedInv'
  <2> SUFFICES ASSUME NEW u \in Turns, Tracked(u)' PROVE Whole(u)'
    BY DEF NumberedInv
  <2>4. u # t
    BY <1>1, Names DEF ClientInv, BindInv, Tracked, InFlight
  <2>1. ClientTypes /\ Whole(u)
    <3>1. u \in Calls
      BY Names
    <3>2. Tracked(u)
      BY <1>1, <2>4, <3>1 DEF Tracked, InFlight
    <3> QED  BY <3>2 DEF ClientInv, NumberedInv
  <2>2. ~OfTurn(Head(pipe), u)
    BY <2>4 DEF OfTurn, Texts
  <2>3. Other(u)
    BY <1>1, <2>2 DEF Other
  <2> QED  BY <1>1, <2>1, <2>3, WholeAlong
<1> QED  BY <1>2, <1>3, <1>4, <1>5, <1>6, <1>7, <1>8, <1>9 DEF ClientInv

LEMMA ReadAskStep ==
  ASSUME ClientInv, NEW t \in Turns, ReadsOne, t = Head(pipe).turn, HandleServerRequest(Head(pipe))
  PROVE  ClientInv'
<1>1. /\ reader = "reading" /\ closing = "open"
      /\ pipe' \in Seq(Lines) /\ pipe # <<>> /\ pipe' = Tail(pipe) /\ Head(pipe) \in Lines
      /\ \A i \in DOMAIN pipe' : \E k \in DOMAIN pipe : pipe'[i] = pipe[k]
      /\ Head(pipe).type \in {"ask", "resolved"} /\ call[t] # "idle"
      /\ \/ \A u \in Turns : ask'[u] = ask[u] \/ (ask[u] = "open" /\ ask'[u] = "unwinding")
         \/ /\ ask[t] # "none" /\ (t \in finished \cup unbound \/ InFlight(t))
            /\ ask'[t] \in {"open", "over"} /\ (ask'[t] = "open" => t \notin finished)
            /\ \A u \in Turns \ {t} : ask'[u] = ask[u]
      /\ UNCHANGED <<worker, proc, reader, closing, epoch, host, reply, starting, bound,
                     current, early, finished, got, result, call, stop, auth, tool, sent, scene,
                     present, late, unbound>>
  <2>1. /\ reader = "reading" /\ closing = "open"
        /\ pipe' \in Seq(Lines) /\ pipe # <<>> /\ pipe' = Tail(pipe) /\ Head(pipe) \in Lines
        /\ \A i \in DOMAIN pipe' : \E k \in DOMAIN pipe : pipe'[i] = pipe[k]
        /\ Head(pipe).turn \in Calls
        /\ Head(pipe).type # "reply" => Head(pipe).turn \in Turns /\ call[Head(pipe).turn] # "idle"
        /\ Head(pipe).type = "ask" =>
             /\ ask[Head(pipe).turn] # "none"
             /\ Head(pipe).turn \in finished \cup unbound \/ InFlight(Head(pipe).turn)
        /\ Head(pipe).type = "reply" /\ Head(pipe).body # "ok" /\ Head(pipe).turn \in Turns
             => host[Head(pipe).turn] = "rejected"
    BY HeadLine
  <2> QED  BY <2>1, Names, ResultKinds DEF ClientInv, ClientTypes, ReadsOne, ReaderUnchanged,
      HandleServerRequest, Asked, Cancelled, conn, rpc, ghost
<1>2. ClientTypes'
  <2>1. pipe' \in Seq(Lines)
    BY Names DEF ClientInv, ClientTypes, ReadsOne, ReaderUnchanged, HandleResponse,
        HandleServerRequest, Asked, Cancelled, conn, rpc, ghost
  <2>2. ask' \in [Turns -> {"none", "sent", "open", "unwinding", "over"}]
    BY Names DEF ClientInv, ClientTypes, ReadsOne, ReaderUnchanged, HandleResponse,
        HandleServerRequest, Asked, Cancelled, conn, rpc, ghost
  <2> QED  BY <1>1, <2>1, <2>2, Names, ResultKinds DEF ClientInv, ClientTypes
<1>3. OneTurn' /\ BindInv' /\ AnswerInv' /\ DrainInv' /\ StopInv' /\ AuthInv' /\ ToolInv'
  BY <1>1, Framed
<1>4. Untried'
  BY <1>1, Names, ResultKinds DEF ClientInv, Untried, ClientTypes, OneTurn, BindInv
<1>5. PipeInv'
  <2> SUFFICES ASSUME NEW k \in DOMAIN pipe
               PROVE  /\ pipe[k].type # "reply" => pipe[k].turn \in Turns /\ call'[pipe[k].turn] # "idle"
                      /\ pipe[k].type = "ask" => ask'[pipe[k].turn] # "none"
                      /\ pipe[k].type = "reply" /\ pipe[k].body # "ok" /\ pipe[k].turn \in Turns
                           => host'[pipe[k].turn] = "rejected"
    BY <1>1 DEF PipeInv
  <2> QED  BY <1>1 DEF ClientInv, PipeInv, Settled
<1>6. HostInv'
  BY SMTT(30), <1>1, Names, ResultKinds DEF ClientInv, HostInv, ClientTypes, OneTurn, Untried
<1>7. AskInv'
  BY SMTT(30), <1>1, Names, ResultKinds DEF ClientInv, AskInv, ClientTypes, BindInv, OneTurn, Untried,
      HostInv, PipeInv, DrainInv, LineInv, QuestionsOfLiveTurns, InFlight, Drained
<1>8. LineInv'
  <2>1. ASSUME NEW k \in DOMAIN pipe, pipe[k].type = "ask"
        PROVE  pipe[k].turn \in finished' \cup unbound' \/ call'[pipe[k].turn] \in {"starting", "waiting"}
    <3>1. pipe[k].turn \in finished \cup unbound \/ call[pipe[k].turn] \in {"starting", "waiting"}
      BY <1>1, <2>1 DEF ClientInv, LineInv, InFlight
    <3> QED  BY <1>1, <3>1 DEF Settled
  <2>2. \A i \in DOMAIN pipe' : pipe'[i].type = "ask" =>
          pipe'[i].turn \in finished' \cup unbound' \/ call'[pipe'[i].turn] \in {"starting", "waiting"}
    BY <1>1, <2>1
  <2>3. ASSUME NEW u \in Turns
        PROVE  /\ call'[u] = "starting" /\ reply'[u] = "failed" => u \in unbound' \/ host'[u] = "rejected"
               /\ InFlight(u)' /\ result'[u] # NoResult => u \in finished' \/ u \in unbound'
               /\ call'[u] = "done" /\ host'[u] \in {"working", "ended"} => u \in finished' \/ u \in unbound'
    <3>1. u \in Calls
      BY Names
    <3> QED  BY <1>1, <3>1 DEF ClientInv, LineInv, InFlight, Settled
  <2> QED  BY <2>2, <2>3 DEF LineInv, InFlight
<1>9. NumberedInv'
  <2> SUFFICES ASSUME NEW u \in Turns, Tracked(u)' PROVE Whole(u)'
    BY DEF NumberedInv
  <2>1. ClientTypes /\ Whole(u)
    <3>1. u \in Calls
      BY Names
    <3>2. Tracked(u)
      BY <1>1, <3>1 DEF Tracked, InFlight
    <3> QED  BY <3>2 DEF ClientInv, NumberedInv
  <2>2. ~OfTurn(Head(pipe), u)
    BY <1>1 DEF OfTurn, Texts
  <2>3. Other(u)
    BY <1>1, <2>2 DEF Other
  <2> QED  BY <1>1, <2>1, <2>3, WholeAlong
<1> QED  BY <1>2, <1>3, <1>4, <1>5, <1>6, <1>7, <1>8, <1>9 DEF ClientInv

-----------------------------------------------------------------------------
LEMMA ReadStep ==
  ASSUME ClientInv, Read
  PROVE  ClientInv'
<1>1. ReadsOne
  BY DEF Read, ReadsOne
<1> DEFINE t == Head(pipe).turn
<1>2. Head(pipe).type # "reply" => t \in Turns
  BY <1>1, HeadLine
<1>3. ASSUME NEW records \in {TRUE} \cup {"error" \notin scene}, HandleResponse(Head(pipe), records)
      PROVE  ClientInv'
  <2>1. CASE ~(reply[t] = "sent" /\ Head(pipe).body = "ok" /\ t \in Turns)
    BY <1>1, <1>3, <2>1, ReadReplyStep
  <2>2. CASE reply[t] = "sent" /\ Head(pipe).body = "ok" /\ t \in Turns
    <3>1. records = TRUE \/ records = FALSE
      OBVIOUS
    <3>2. CASE records = TRUE
      BY <1>1, <1>3, <2>2, <3>2, ReadAckStep
    <3>3. CASE records = FALSE
      BY <1>1, <1>3, <2>2, <3>3, ReadUnboundStep
    <3> QED  BY <3>1, <3>2, <3>3
  <2> QED  BY <2>1, <2>2
<1>4. ASSUME HandleNotification(Head(pipe)) PROVE ClientInv'
  <2>1. t \in Turns
    BY <1>2, <1>4 DEF HandleNotification
  <2>2. CASE EarlyOf(t)
    BY <1>1, <1>4, <2>1, <2>2, ReadEarlyStep
  <2>3. CASE ~EarlyOf(t) /\ t \in bound
    BY <1>1, <1>4, <2>1, <2>3, ReadDeliverStep
  <2>4. CASE ~EarlyOf(t) /\ t \notin bound
    BY <1>1, <1>4, <2>1, <2>4, ReadOtherStep
  <2> QED  BY <2>2, <2>3, <2>4
<1>5. ASSUME HandleServerRequest(Head(pipe)) PROVE ClientInv'
  <2>1. t \in Turns
    BY <1>2, <1>5 DEF HandleServerRequest
  <2> QED  BY <1>1, <1>5, <2>1, ReadAskStep
<1> QED  BY <1>3, <1>4, <1>5 DEF Read

LEMMA ClientStarts == Init => ClientInv
<1> SUFFICES ASSUME Init PROVE ClientInv
  OBVIOUS
<1>1. \A t \in Turns : /\ call[t] = "idle" /\ host[t] = "none" /\ reply[t] = "none" /\ ask[t] = "none"
                       /\ sent[t] = <<>> /\ got[t] = <<>> /\ early[t] = <<>> /\ result[t] = NoResult
  BY Names DEF Init
<1>2. \A c \in Calls : reply[c] = "none"
  BY DEF Init
<1>3. pipe = <<>> /\ DOMAIN pipe = {} /\ starting = {} /\ bound = {} /\ unbound = {}
  <2>1. pipe = <<>>
    BY DEF Init
  <2> QED  BY <2>1, EmptySeq DEF Init
<1>4. ClientTypes
  <2>1. pipe \in Seq(Lines) /\ early \in [Turns -> Seq(Lines)]
    BY EmptySeq DEF Init
  <2>2. got \in [Turns -> Seq(Bodies)] /\ sent \in [Turns -> Seq(ItemKinds)]
    BY EmptySeq DEF Init
  <2>3. worker \in Workers /\ stop \in StopRecords /\ auth \in Sources /\ tool \in [Turns -> ToolCalls]
    BY Names DEF Init, Workers, StopRecords, Sources, ToolCalls, NewHost, NoTool
  <2>4. DOMAIN result = Turns /\ \A t \in Turns : result[t] = NoResult
    BY DEF Init
  <2>5. reply \in [Calls -> Futures]
    BY DEF Init, Futures
  <2> QED  BY <2>1, <2>2, <2>3, <2>4, <2>5, Names DEF Init, ClientTypes
<1>5. OneTurn
  BY <1>1, Names DEF Init, OneTurn, InFlight
<1>6. Untried
  BY <1>1 DEF Init, Untried
<1>7. PipeInv /\ HostInv /\ BindInv
  BY <1>1, <1>3 DEF Init, PipeInv, HostInv, BindInv
<1>8. NumberedInv
  BY <1>1 DEF NumberedInv, Tracked, InFlight
<1>9. AnswerInv
  BY <1>1, ResultKinds DEF AnswerInv
<1>10. AskInv /\ LineInv
  BY <1>1, <1>3 DEF Init, AskInv, QuestionsOfLiveTurns, LineInv, InFlight
<1>11. DrainInv
  BY <1>1, <1>2, <1>3 DEF DrainInv
<1>12. StopInv /\ AuthInv /\ ToolInv
  BY DEF Init, StopInv, AuthInv, ToolInv, NewHost, NoTool
<1> QED  BY <1>4, <1>5, <1>6, <1>7, <1>8, <1>9, <1>10, <1>11, <1>12 DEF ClientInv

LEMMA ClientUntouched ==
  ASSUME ClientInv, UNCHANGED vars
  PROVE  ClientInv'
<1>1. UNCHANGED <<worker, proc, reader, closing, epoch, pipe, host, reply, starting, bound, current,
                  early, finished, got, result, call, ask, stop, auth, tool, sent, scene, present,
                  late, unbound>>
  BY DEF vars, conn, rpc, ghost
<1>2. ClientTypes'
  BY <1>1 DEF ClientInv, ClientTypes
<1> QED  BY <1>1, <1>2, Framed DEF ClientInv

\* The invariant is inductive: one case per action.
LEMMA NextKeeps ==
  ASSUME ClientInv, [Next]_vars
  PROVE  ClientInv'
<1>1. ASSUME Host PROVE ClientInv'
  <2>1. CASE \E t \in Turns : HostAsks(t) \/ HostResolves(t)
    BY <2>1, HostAsksStep, HostResolvesStep
  <2>2. CASE \E t \in Turns, k \in ItemKinds : HostItem(t, k)
    BY <2>2, HostItemStep
  <2>3. CASE \E t \in Turns, s \in {"completed", "failed"} : HostEnds(t, s)
    BY <2>3, HostEndsStep
  <2>4. CASE \E c \in Calls, b \in {"ok", "error"} : HostReplies(c, b)
    BY <2>4, HostRepliesStep
  <2>5. CASE HostExits
    BY <2>5, HostExitsStep
  <2> QED  BY <1>1, <2>1, <2>2, <2>3, <2>4, <2>5 DEF Host
<1>2. ASSUME Tool PROVE ClientInv'
  BY <1>2, CallToolStep, CaptureStep, ActStep DEF Tool
<1>3. ASSUME Reader PROVE ClientInv'
  BY <1>3, ReadStep, ReaderEndsStep, HandlerEndsStep DEF Reader
<1>4. ASSUME Caller PROVE ClientInv'
  BY <1>4, ResumeStep, CollectStep DEF Caller
<1>5. ASSUME Interrupts PROVE ClientInv'
  BY <1>5, StopSendsStep, StopEndsStep, StopResumesStep DEF Interrupts
<1>6. ASSUME Closing PROVE ClientInv'
  BY <1>6, FailWaitersStep, ProcessStopsStep DEF Closing
<1>7. ASSUME Worker PROVE ClientInv'
  <2>1. ASSUME NEW t \in Turns, Submit(t) PROVE ClientInv'
    BY <2>1, SubmitFailsStep, SubmitsStep
  <2>2. ASSUME NEW t \in Turns, Launch(t) \/ Reuse(t) \/ Opened(t) \/ ConnectFails(t) PROVE ClientInv'
    BY <2>2, LaunchStep, ReuseStep, OpenedStep, ConnectFailsStep
  <2>3. ASSUME NEW t \in Turns, Opens("initialize", "thread", "initialize", t) PROVE ClientInv'
    BY <2>3, OpensThreadStep
  <2>4. ASSUME NEW t \in Turns, Injects(t) \/ Injected(t) PROVE ClientInv'
    BY <2>4, InjectsStep, InjectedStep
  <2>5. CASE Discard \/ TurnOver
    BY <2>5, DiscardStep, TurnOverStep
  <2> QED  BY <1>7, <2>1, <2>2, <2>3, <2>4, <2>5 DEF Worker
<1>8. ASSUME ReaderFails \/ Stop \/ StopTimesOut \/ Close PROVE ClientInv'
  BY <1>8, ReaderFailsStep, StopStep, StopTimesOutStep, CloseStep
<1>9. ASSUME NEW t \in Turns, HumanAnswers(t) PROVE ClientInv'
  BY <1>9, HumanAnswersStep
<1>10. CASE UNCHANGED vars
  BY <1>10, ClientUntouched
<1> QED  BY <1>1, <1>2, <1>3, <1>4, <1>5, <1>6, <1>7, <1>8, <1>9, <1>10 DEF Next
-----------------------------------------------------------------------------
\* ClientInv holds in every state the client reaches: what its callers are owed rests on it.
THEOREM ClientInvariant == Spec => []ClientInv
<1>1. ClientInv /\ [Next]_vars => ClientInv'
  BY NextKeeps
<1> QED  BY ClientStarts, <1>1, PTL DEF Spec

\* What turns are owed follows from the invariant.
LEMMA Served == ClientInv => TurnsAreServed
<1> SUFFICES ASSUME ClientInv PROVE TurnsAreServed
  OBVIOUS
<1>1. AnswerIsWhole
  BY DEF ClientInv, AnswerInv, AnswerIsWhole
<1>2. QuestionsOfLiveTurns
  BY DEF ClientInv, AskInv
<1>3. DeadReaderRejects
  BY DEF ClientInv, DrainInv, Drained, DeadReaderRejects, Unanswered, Pending
<1> QED  BY <1>1, <1>2, <1>3 DEF TurnsAreServed

\* Turns and their callers get what they are owed, for any number of turns, items and
\* processes: an answer is the whole of what the app-server sent for its turn, a human is
\* asked only while somebody waits for the turn, and nobody waits for a reader that is done
\* (_handle_response, _handle_notification, _handle_server_request, _fail_all).
THEOREM TurnsStayServed == Spec => []TurnsAreServed
BY ClientInvariant, Served, PTL

\* Who moves the interrupt and the tools.
LEMMA Movers ==
  ASSUME [Next]_vars
  PROVE  /\ \/ (\E t \in Turns : StopSends(t)) \/ StopEnds \/ StopResumes \/ Stop \/ StopTimesOut
            \/ stop' = stop
         /\ (\E t \in Turns : CallTool(t) \/ Capture(t) \/ Act(t)) \/ tool' = tool
<1>1. CASE Host
  <2>1. \A t \in Turns : HostAsks(t) \/ HostResolves(t) => UNCHANGED <<stop, tool>>
    BY DEF HostAsks, HostResolves, HostUnchanged
  <2>2. \A t \in Turns, k \in ItemKinds : HostItem(t, k) => UNCHANGED <<stop, tool>>
    BY DEF HostItem, HostUnchanged
  <2>3. \A t \in Turns, s \in {"completed", "failed"} : HostEnds(t, s) => UNCHANGED <<stop, tool>>
    BY DEF HostEnds, HostUnchanged
  <2>4. \A c \in Calls, b \in {"ok", "error"} : HostReplies(c, b) => UNCHANGED <<stop, tool>>
    BY DEF HostReplies, HostUnchanged
  <2>5. HostExits => UNCHANGED <<stop, tool>>
    BY DEF HostExits
  <2> QED  BY <1>1, <2>1, <2>2, <2>3, <2>4, <2>5 DEF Host
<1>2. CASE Tool
  BY <1>2 DEF Tool, CallTool, Capture, Act
<1>3. CASE Reader
  BY <1>3 DEF Reader, Read, ReaderEnds, HandlerEnds, ReaderUnchanged
<1>4. CASE Caller
  BY <1>4 DEF Caller, Resume, Collect
<1>5. CASE Interrupts
  BY <1>5 DEF Interrupts, StopSends, StopEnds, StopResumes
<1>6. CASE Closing \/ ReaderFails \/ Close
  BY <1>6 DEF Closing, FailWaiters, ProcessStops, ReaderFails, Close, ReaderUnchanged
<1>7. CASE Worker
  <2>1. \A t \in Turns : Submit(t) => UNCHANGED <<stop, tool>>
    BY DEF Submit, WorkerUnchanged
  <2>2. \A t \in Turns : Launch(t) \/ Reuse(t) \/ Opened(t) \/ ConnectFails(t) => UNCHANGED <<stop, tool>>
    BY DEF Launch, Reuse, Opened, ConnectFails, WorkerUnchanged
  <2>3. \A t \in Turns : Opens("initialize", "thread", "initialize", t) \/ Injects(t) \/ Injected(t)
          => UNCHANGED <<stop, tool>>
    BY DEF Opens, Injects, Injected, WorkerUnchanged
  <2>4. Discard \/ TurnOver => UNCHANGED <<stop, tool>>
    BY DEF Discard, TurnOver, WorkerUnchanged
  <2> QED  BY <1>7, <2>1, <2>2, <2>3, <2>4 DEF Worker
<1>8. CASE Stop \/ StopTimesOut
  BY <1>8 DEF Stop, StopTimesOut
<1>9. CASE UNCHANGED vars \/ \E t \in Turns : HumanAnswers(t)
  BY <1>9 DEF vars, HumanAnswers
<1> QED  BY <1>1, <1>2, <1>3, <1>4, <1>5, <1>6, <1>7, <1>8, <1>9 DEF Next

LEMMA HitsItsTurn ==
  ClientInv /\ [Next]_vars =>
    (stop.at = "waiting" /\ stop'.at = "sent" => stop'.to \in present)
<1> SUFFICES ASSUME ClientInv, [Next]_vars, stop.at = "waiting", stop'.at = "sent"
             PROVE  stop'.to \in present
  OBVIOUS
<1>1. PICK t \in Turns : StopSends(t)
  <2>1. (\E t \in Turns : StopSends(t)) \/ StopEnds \/ StopResumes \/ Stop \/ StopTimesOut \/ stop' = stop
    BY Movers
  <2>2. ~(StopEnds \/ StopResumes \/ Stop \/ StopTimesOut)
    BY DEF ClientInv, ClientTypes, StopRecords, StopEnds, StopResumes, Stop, StopTimesOut
  <2> QED  BY <2>1, <2>2
<1>2. t \in stop.found /\ stop'.to = t
  BY <1>1 DEF ClientInv, ClientTypes, StopRecords, StopSends, Targets
<1> QED  BY <1>2 DEF ClientInv, StopInv

\* An interrupt reaches a turn that was under way when Stop arrived, never its successor,
\* whatever was bound, ended or started between Stop and the interrupt (interrupt).
THEOREM StopsHitTheirTurns == Spec => StopHitsItsTurns
<1>1. ClientInv /\ [Next]_vars =>
        [stop.at = "waiting" /\ stop'.at = "sent" => stop'.to \in present]_vars
  BY HitsItsTurn
<1> QED  BY ClientInvariant, <1>1, PTL DEF Spec, StopHitsItsTurns

LEMMA ActsForItsTurn ==
  ClientInv /\ [Next]_vars =>
    \A t \in Turns \ Shell : tool[t].at # "acted" /\ tool'[t].at = "acted" =>
      auth.turn = t /\ worker.turn = t /\ ~(t \in present /\ stop.count > 0)
<1> SUFFICES ASSUME ClientInv, [Next]_vars, NEW t \in Turns \ Shell, tool[t].at # "acted", tool'[t].at = "acted"
             PROVE  auth.turn = t /\ worker.turn = t /\ ~(t \in present /\ stop.count > 0)
  OBVIOUS
<1>1. Act(t)
  <2>1. PICK u \in Turns : CallTool(u) \/ Capture(u) \/ Act(u)
    BY Movers
  <2> QED  BY <2>1 DEF ClientInv, ClientTypes, ToolCalls, CallTool, Capture, Act
<1>2. tool[t].at = "captured" /\ Valid(t)
  BY <1>1 DEF ClientInv, ClientTypes, ToolCalls, Act
<1>3. auth.state = "active" /\ auth.turn = t
  BY <1>2 DEF ClientInv, ToolInv, Valid
<1> QED  BY <1>3 DEF ClientInv, AuthInv

\* A tool acts only while its own turn is the one the gateway runs, and neither stopped nor
\* closed, however late it acts (TurnAuthority.capture and validate).
THEOREM ToolsStayWithTheirTurn == Spec => ToolsActForTheirTurn
<1>1. ClientInv /\ [Next]_vars =>
        [\A t \in Turns \ Shell : tool[t].at # "acted" /\ tool'[t].at = "acted" =>
           auth.turn = t /\ worker.turn = t /\ ~(t \in present /\ stop.count > 0)]_vars
  BY ActsForItsTurn
<1> QED  BY ClientInvariant, <1>1, PTL DEF Spec, ToolsActForTheirTurn
=============================================================================
