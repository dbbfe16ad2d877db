--------------------------- MODULE ContactSession ---------------------------
(***************************************************************************)
(* One conversation of the gateway (inkbox_codex/sessions.py): a queue of  *)
(* turns, the worker task that runs them one by one on a Codex app-server  *)
(* (codex_client.py), the webhook handlers and /stop, /clear and /resume   *)
(* commands that interrupt it, the questions the host asks a human, and    *)
(* the record that ties tool calls to the live turn (turn_authority.py).   *)
(*                                                                         *)
(* Everything runs on one event loop: an action is the code from one await *)
(* to the next.  Conversations are direct and unthreaded (email, SMS,      *)
(* plain iMessage); CompanionInbox models submitted Companion turns.       *)
(***************************************************************************)
EXTENDS Naturals, Sequences

CONSTANTS
  Messages,          \* messages of the human
  Answers,           \* the messages that read as an answer ("1", "allow")
  Consults,          \* capture turns: run_consult, run_consult_detailed
  Notices,           \* context only: append_delivery_notice
  Stops, Resets, Resumes,    \* the commands /stop, /clear and /resume
  Questions,         \* approvals that the host asks for during a turn
  None,
  Scenarios,         \* the sets of inputs of which one arrives
  MaxHosts,          \* app-server processes, a bound of the model
  MaxRecoveries,     \* recovery turns the gateway's budget grants
  Retried,           \* messages whose rejected reply may get one, a bound of the model
  MaxCrashes,        \* gateway crashes, a bound of the model
  ContextWriteFails  \* whether the file of a consult's context may fail

Turns == Messages \cup Consults \cup Notices
Commands == Stops \cup Resets \cup Resumes
Inputs == Turns \cup Commands
Asks == Questions \cup Resumes       \* what may hold the interaction lock
Hosts == 1 .. MaxHosts
Past == MaxHosts + 1                 \* an earlier conversation; host h begins thread h
Threads == 1 .. Past

ASSUME SessionAssumption ==
  /\ Answers \subseteq Messages /\ Scenarios \subseteq SUBSET Inputs
  /\ Retried \subseteq Messages
  /\ Messages \cap (Consults \cup Notices) = {} /\ Consults \cap Notices = {}
  /\ Turns \cap Commands = {} /\ Questions \cap Inputs = {} /\ None \notin Inputs \cup Questions
  /\ MaxHosts \in Nat /\ MaxRecoveries \in Nat /\ MaxCrashes \in Nat
  /\ ContextWriteFails \in BOOLEAN

VARIABLES
  todo,            \* the inputs that have not arrived
  \* the turns
  queue,           \* _queue
  fate,            \* what became of each turn
  pendingContext,  \* _pending_context
  \* the worker task
  worker,          \* where it stands, its turn, its client, what the turn gave
  current,         \* _current_turn
  turnActive,      \* _turn_active
  interrupting,    \* _interrupting
  \* the app-servers
  client,          \* _client, 0 for None
  connecting,      \* _connecting_client
  hosts,           \* the processes: life and thread
  capture,         \* the worker's run on its client
  resume,          \* resume_session_id
  saved,           \* the session id on disk
  source,          \* the turn whose source is live, None when it is retired
  \* the human
  handlers,        \* where the handler of an input stands
  asks,            \* the state of each question and /resume pick
  pending,         \* the one displayed or being sent
  lock,            \* the holder of _interaction_lock
  \* history
  stopped,         \* turns that were told to stop, or yielded to a message, while current
  doomed,          \* turns that were queued when a /stop or /clear arrived
  left,            \* threads the human left by /clear or /resume
  unwritten,       \* consults whose context file could not be written
  recoveries, crashes

turns == <<queue, fate, pendingContext>>
servers == <<client, connecting, hosts>>
memory == <<resume, saved>>
flags == <<current, turnActive, interrupting>>
human == <<asks, pending, lock>>
history == <<stopped, doomed, left, unwritten, recoveries, crashes>>
vars == <<todo, turns, worker, flags, servers, capture, memory, source, handlers, human,
          history>>

Fates == {"absent", "queued", "running", "done", "consumed", "failed", "dropped", "lost"}
Ongoing == {"queued", "running"}
Idle == [at |-> "off", turn |-> None, host |-> 0, result |-> "none"]
Absent == [at |-> "absent", host |-> 0, next |-> "end", hit |-> None]

\* Types and ranges of the variables.
TypeOK ==
  /\ todo \subseteq Inputs
  /\ queue \in Seq(Turns) /\ fate \in [Turns -> Fates] /\ pendingContext \subseteq Notices
  /\ worker \in [at : {"off", "loop", "replace", "connect", "dispose", "flush", "submit", "running",
                       "close", "unwind", "deliver", "excuse"},
                 turn : Turns \cup {None}, host : {0} \cup Hosts,
                 result : {"none", "reply", "error"}]
  /\ current \in Turns \cup {None} /\ turnActive \in BOOLEAN /\ interrupting \in BOOLEAN
  /\ client \in {0} \cup Hosts /\ connecting \in {0} \cup Hosts
  /\ hosts \in [Hosts -> [life : {"unused", "starting", "up", "dead", "closing", "gone"},
                          thread : {0} \cup Threads]]
  /\ capture \in {"none", "asked", "going", "reply", "error"}
  /\ resume \in {0} \cup Threads /\ saved \in {0} \cup Threads
  /\ source \in Turns \cup {None}
  /\ handlers \in [Inputs -> [at : {"absent", "interrupt", "close"}, host : {0} \cup Hosts,
                              next : {"end", "enqueue", "wake", "drop", "clear", "swap"},
                              hit : Turns \cup {None}]]
  /\ asks \in [Asks -> [at : {"absent", "waiting", "stale", "sending", "shown", "answered", "denied",
                              "cancelled", "over"},
                        turn : Turns \cup {None}, pick : {0} \cup Threads]]
  /\ pending \in Asks \cup {None} /\ lock \in Asks \cup {None}
  /\ stopped \subseteq Turns \X {"told", "yielded"} /\ doomed \subseteq Turns
  /\ left \subseteq Threads /\ unwritten \subseteq Consults
  /\ recoveries \in 0 .. MaxRecoveries /\ crashes \in 0 .. MaxCrashes

Init ==
  /\ todo \in Scenarios
  /\ queue = <<>> /\ fate = [t \in Turns |-> "absent"] /\ pendingContext = {}
  /\ worker = Idle /\ current = None /\ turnActive = FALSE /\ interrupting = FALSE
  /\ client = 0 /\ connecting = 0 /\ hosts = [h \in Hosts |-> [life |-> "unused", thread |-> 0]]
  /\ capture = "none" /\ resume = 0 /\ saved = 0 /\ source = None
  /\ handlers = [i \in Inputs |-> Absent]
  /\ asks = [q \in Asks |-> [at |-> "absent", turn |-> None, pick |-> 0]]
  /\ pending = None /\ lock = None
  /\ stopped = {} /\ doomed = {} /\ left = {} /\ unwritten = {}
  /\ recoveries = 0 /\ crashes = 0

(***************************************************************************)
(* Pieces of steps.                                                        *)
(***************************************************************************)
Members(s) == {s[k] : k \in DOMAIN s}

\* A task for the worker unless one is running.
Woken == IF worker.at = "off" THEN [Idle EXCEPT !.at = "loop"] ELSE worker
At(place, t, h) == [at |-> place, turn |-> t, host |-> h, result |-> "none"]
Looping == [Idle EXCEPT !.at = "loop"]

\* _cancel_interactions: those waiting are of an older generation, the displayed one is denied.
Cancelled ==
  [q \in Asks |-> IF asks[q].at = "waiting" THEN [asks[q] EXCEPT !.at = "stale"]
                  ELSE IF q = pending /\ asks[q].at \in {"sending", "shown"}
                       THEN [asks[q] EXCEPT !.at = "denied"] ELSE asks[q]]
\* The host's requests end with the turn or the process that made them.
Abandoned(state) ==
  [q \in Asks |-> IF q \in Questions /\ state[q].at \notin {"absent", "over"}
                  THEN [state[q] EXCEPT !.at = "cancelled"] ELSE state[q]]
Awaited == pending # None /\ asks[pending].at \in {"sending", "shown"}
ApprovalWaits == \E q \in Questions : asks[q].at \notin {"absent", "over"}

\* close(): the one client there is, connected or connecting, is given up and terminated.
ClientOnly == client                                \* slip: forgets the one that connects
Open == IF client # 0 THEN client ELSE connecting
Ended(h, life) == IF h = 0 THEN hosts ELSE [hosts EXCEPT ![h].life = life]
CloseClients ==
  /\ source' = None /\ pending' = None /\ asks' = Abandoned(Cancelled)
  /\ client' = 0 /\ connecting' = 0 /\ hosts' = Ended(Open, "closing")

\* The synchronous part of _cancel_pending_turn, apart from the interactions.
Halt ==
  /\ source' = None /\ pending' = None
  /\ interrupting' = (interrupting \/ current # None \/ turnActive)
  /\ stopped' = IF current = None THEN stopped ELSE stopped \cup {<<current, "told">>}
MustInterrupt == turnActive /\ client # 0
\* The handler of i awaits client.interrupt() and does next after it.
Interrupting(i, next) ==
  [handlers EXCEPT ![i] = [at |-> "interrupt", host |-> 0, next |-> next,
     hit |-> IF capture \in {"asked", "going"} /\ worker.host = client THEN current ELSE None]]
\* The handler of i awaits the end of the client that it closes.
Closing(i, next) ==
  [handlers EXCEPT ![i] = [at |-> "close", host |-> Open, next |-> next, hit |-> None]]

\* _abort_in_flight drops the turns that have not started and settles their waiters.
JustDrops == queue' = <<>> /\ UNCHANGED fate         \* slip: the waiters are not settled
DropQueue ==
  /\ queue' = <<>>
  /\ fate' = [t \in Turns |-> IF t \in Members(queue) THEN "dropped" ELSE fate[t]]

\* The conversation that ends when the human clears it or turns to another.
Conversation == {resume, IF client = 0 THEN 0 ELSE hosts[client].thread} \ {0}

\* _run_resume_pick after the client is closed.
Swap(p) ==
  /\ resume' = asks[p].pick /\ saved' = asks[p].pick
  /\ left' = (left \cup Conversation) \ {asks[p].pick}

\* _reset_session from the aborted turn to the end of the client.
Forget(i) ==
  /\ resume' = 0 /\ pendingContext' = {} /\ left' = left \cup Conversation
  /\ CloseClients
  /\ IF Open = 0 THEN saved' = 0 /\ handlers' = [handlers EXCEPT ![i] = Absent]
     ELSE saved' = saved /\ handlers' = Closing(i, "clear")

\* A message joins the queue; a running turn of the human yields to it.
Enqueue(m) ==
  /\ queue' = Append(queue, m) /\ fate' = [fate EXCEPT ![m] = "queued"]
  /\ UNCHANGED pendingContext
  /\ IF MustInterrupt /\ current \in Messages /\ ~interrupting
     THEN /\ interrupting' = TRUE /\ stopped' = stopped \cup {<<current, "yielded">>}
          /\ source' = None
          /\ handlers' = Interrupting(m, "wake") /\ UNCHANGED worker
     ELSE /\ worker' = Woken /\ handlers' = [handlers EXCEPT ![m] = Absent]
          /\ UNCHANGED <<interrupting, stopped, source>>

(***************************************************************************)
(* Inputs.                                                                 *)
(***************************************************************************)
Arrives(i) == i \in todo /\ todo' = todo \ {i}
Unmoved == UNCHANGED <<servers, capture, memory, lock, left, unwritten, recoveries, crashes,
                       current, turnActive>>

\* A message answers the question, unless it asks for something else.
Answer(m) ==
  /\ Arrives(m) /\ m \in Messages /\ Awaited /\ (pending \in Questions => m \in Answers)
  /\ asks' = [asks EXCEPT ![pending].at = IF m \in Answers THEN "answered" ELSE "denied"]
  /\ fate' = [fate EXCEPT ![m] = "consumed"]
  /\ UNCHANGED <<queue, pendingContext, worker, interrupting, source, handlers, pending, stopped,
                 doomed>> /\ Unmoved

\* An answer to a question that was answered, while its approval is still counted.
AnswerTwice(m) ==
  /\ Arrives(m) /\ m \in Answers /\ ~Awaited /\ ApprovalWaits
  /\ fate' = [fate EXCEPT ![m] = "consumed"]
  /\ UNCHANGED <<queue, pendingContext, worker, interrupting, source, handlers, asks, pending,
                 stopped, doomed>> /\ Unmoved

\* A new request while an approval waits: the turn is cancelled, then the message queued.
Overrule(m) ==
  /\ Arrives(m) /\ m \in Messages \ Answers
  /\ (Awaited /\ pending \in Questions) \/ (~Awaited /\ ApprovalWaits)
  /\ Halt /\ asks' = Cancelled
  /\ IF MustInterrupt THEN handlers' = Interrupting(m, "enqueue") /\ UNCHANGED <<turns, worker>>
     ELSE /\ queue' = Append(queue, m) /\ fate' = [fate EXCEPT ![m] = "queued"]
          /\ worker' = Woken /\ UNCHANGED <<pendingContext, handlers>>
  /\ UNCHANGED doomed /\ Unmoved

Message(m) ==
  /\ Arrives(m) /\ m \in Messages /\ ~Awaited /\ ~ApprovalWaits
  /\ Enqueue(m) /\ UNCHANGED <<asks, pending, doomed>> /\ Unmoved

\* run_consult, run_consult_detailed and append_delivery_notice only queue a turn.
Background(t) ==
  /\ Arrives(t) /\ t \in Consults \cup Notices
  /\ queue' = Append(queue, t) /\ fate' = [fate EXCEPT ![t] = "queued"] /\ worker' = Woken
  /\ UNCHANGED <<pendingContext, interrupting, source, handlers, asks, pending, stopped, doomed>>
  /\ Unmoved

\* /stop, and /clear, up to their first await.
Stop(s) ==
  /\ Arrives(s) /\ s \in Stops /\ Halt /\ asks' = Cancelled
  /\ doomed' = doomed \cup Members(queue)
  /\ IF MustInterrupt THEN handlers' = Interrupting(s, "drop") /\ UNCHANGED <<queue, fate>>
     ELSE DropQueue /\ UNCHANGED handlers
  /\ UNCHANGED <<pendingContext, worker>> /\ Unmoved

Reset(r) ==
  /\ Arrives(r) /\ r \in Resets /\ Halt
  /\ doomed' = doomed \cup Members(queue)
  /\ IF MustInterrupt
     THEN /\ asks' = Cancelled /\ handlers' = Interrupting(r, "drop")
          /\ UNCHANGED <<turns, servers, memory, left>>
     ELSE DropQueue /\ Forget(r)
  /\ UNCHANGED <<worker, capture, lock, unwritten, recoveries, crashes, current, turnActive>>

\* /resume offers the other conversations; pick is the one the human will choose.
Known == {Past} \cup {hosts[h].thread : h \in {g \in Hosts : hosts[g].life \notin {"unused", "starting"}}}
Resume(p, pick) ==
  /\ Arrives(p) /\ p \in Resumes /\ pick \in Known \ {0, resume}
  /\ asks' = [asks EXCEPT ![p] = [at |-> "waiting", turn |-> None, pick |-> pick]]
  /\ UNCHANGED <<turns, worker, interrupting, source, handlers, pending, stopped, doomed>> /\ Unmoved

(***************************************************************************)
(* Handlers after an await.                                                *)
(***************************************************************************)
\* client.interrupt() waits for the start it found pending, then for the host's answer.
Returned(i) == ~(handlers[i].hit # None /\ handlers[i].hit = current /\ capture = "asked")

\* What follows the interrupt of a message.
GoesOn(i) ==
  /\ handlers[i].at = "interrupt" /\ Returned(i)
  /\ \/ handlers[i].next = "enqueue" /\ Enqueue(i)
     \/ /\ handlers[i].next = "wake" /\ worker' = Woken
        /\ handlers' = [handlers EXCEPT ![i] = Absent]
        /\ UNCHANGED <<turns, interrupting, stopped, source>>
  /\ UNCHANGED <<todo, asks, pending, doomed>> /\ Unmoved

\* What follows the interrupt of a command.
Aborts(i) ==
  /\ handlers[i].at = "interrupt" /\ Returned(i) /\ handlers[i].next = "drop"
  /\ DropQueue
  /\ IF i \in Resets THEN Forget(i)
     ELSE /\ handlers' = [handlers EXCEPT ![i] = Absent]
          /\ UNCHANGED <<pendingContext, servers, memory, source, asks, pending, left>>
  /\ UNCHANGED <<todo, worker, flags, capture, lock, stopped, doomed, unwritten, recoveries, crashes>>

\* The interrupt is not answered in codex_interrupt_timeout_s: the client is closed.
InterruptTimesOut(i) ==
  /\ handlers[i].at = "interrupt" /\ handlers[i].hit # None
  /\ CloseClients
  /\ handlers' = IF Open = 0 THEN [handlers EXCEPT ![i].hit = None] ELSE Closing(i, handlers[i].next)
  /\ UNCHANGED <<todo, turns, worker, flags, capture, memory, lock, history>>

\* The process that the handler closed has ended.
Disconnected(i) ==
  /\ handlers[i].at = "close"
  /\ hosts' = Ended(handlers[i].host, "gone")
  /\ \/ /\ handlers[i].next \notin {"clear", "swap"}
        /\ handlers' = [handlers EXCEPT ![i].at = "interrupt"]
        /\ UNCHANGED <<memory, left>>
     \/ /\ handlers[i].next = "clear" /\ saved' = 0
        /\ handlers' = [handlers EXCEPT ![i] = Absent] /\ UNCHANGED <<resume, left>>
     \/ /\ handlers[i].next = "swap" /\ Swap(i)
        /\ handlers' = [handlers EXCEPT ![i] = Absent]
  /\ UNCHANGED <<todo, turns, worker, flags, client, connecting, capture, source, human, stopped,
                 doomed, unwritten, recoveries, crashes>>

(***************************************************************************)
(* Questions: _escalate and _wait_for_interaction.                         *)
(***************************************************************************)
Others == <<todo, turns, worker, flags, capture, memory, history>>
Serving == <<source, servers, handlers>>

\* The host asks for an approval during the turn.
Ask(q) ==
  /\ q \in Questions /\ asks[q].at = "absent"
  /\ worker.at = "running" /\ capture = "going" /\ hosts[worker.host].life = "up"
  /\ asks' = [asks EXCEPT ![q] = [at |-> "waiting", turn |-> worker.turn, pick |-> 0]]
  /\ UNCHANGED <<pending, lock>> /\ UNCHANGED Others /\ UNCHANGED Serving

\* The lock is free: the question of the present generation is sent to the human.
AnyOfGeneration(q) == asks[q].at = "waiting"        \* slip: the turn may be stopped
Presentable(q) == asks[q].at = "waiting" /\ ~interrupting
Opens(q) ==
  /\ asks[q].at \in {"waiting", "stale"} /\ lock = None
  /\ IF Presentable(q)
     THEN asks' = [asks EXCEPT ![q].at = "sending"] /\ pending' = q /\ lock' = q
     ELSE asks' = [asks EXCEPT ![q].at = "over"] /\ UNCHANGED <<pending, lock>>
  /\ UNCHANGED Others /\ UNCHANGED Serving

\* The question is over: whoever waits for the lock is next.
Released(q) ==
  /\ pending' = IF pending = q THEN None ELSE pending
  /\ lock' = IF lock = q THEN None ELSE lock

Sent(q) ==
  /\ asks[q].at = "sending"
  /\ asks' = [asks EXCEPT ![q].at = "shown"]
  /\ UNCHANGED <<pending, lock>> /\ UNCHANGED Others /\ UNCHANGED Serving

\* The prompt cannot be sent, or nobody answers in permission_timeout_s.
Unanswered(q) ==
  /\ asks[q].at \in {"sending", "shown"}
  /\ asks' = [asks EXCEPT ![q].at = "over"] /\ Released(q)
  /\ UNCHANGED Others /\ UNCHANGED Serving

\* The answer, or its absence, goes back to the host; a pick goes on to the chosen conversation.
AskReturns(q) ==
  /\ asks[q].at \in {"denied", "cancelled"} \/ (asks[q].at = "answered" /\ q \in Questions)
  /\ asks' = [asks EXCEPT ![q].at = "over"] /\ Released(q)
  /\ UNCHANGED Others /\ UNCHANGED Serving

PickReturns(p) ==
  /\ p \in Resumes /\ asks[p].at = "answered"
  /\ lock' = IF lock = p THEN None ELSE lock
  /\ source' = None /\ pending' = None
  /\ asks' = [Abandoned(Cancelled) EXCEPT ![p].at = "over"]
  /\ client' = 0 /\ connecting' = 0 /\ hosts' = Ended(Open, "closing")
  /\ IF Open = 0 THEN Swap(p) /\ UNCHANGED handlers
     ELSE handlers' = Closing(p, "swap") /\ UNCHANGED <<memory, left>>
  /\ UNCHANGED <<todo, turns, worker, flags, capture, stopped, doomed, unwritten, recoveries, crashes>>

(***************************************************************************)
(* The worker: _drain, _run_turn and _ensure_client.                       *)
(***************************************************************************)
Aside == <<todo, handlers, doomed, left, crashes>>     \* what the worker leaves alone

\* A process is launched for the turn and asked for the conversation.
Launch(t, table) ==
  LET unused == {h \in Hosts : table[h].life = "unused"}
      new == CHOOSE h \in unused : TRUE
  IN IF unused = {} THEN worker' = At("dispose", t, 0) /\ connecting' = 0 /\ hosts' = table
     ELSE /\ connecting' = new /\ worker' = At("connect", t, new)
          /\ hosts' = [table EXCEPT ![new] = [life |-> "starting", thread |-> resume]]

\* The finally of _run_turn before the turn was submitted.
Ends == source' = None /\ pending' = None /\ asks' = Cancelled /\ turnActive' = FALSE /\ current' = None
Begins == UNCHANGED <<source, pending, asks, current>>

\* The session id of the host, kept in memory and on disk.
InMemory(thread) == resume' = thread /\ UNCHANGED saved     \* slip: lost in a crash
Remembers(thread) == resume' = thread /\ saved' = thread

\* The session still wants the client: nobody closed it while the worker awaited it.
Wanted == connecting = worker.host

\* With client h in hand: retained notices first, then the turn, unless it was stopped.
Submits(t, h, kept, fates) ==
  \/ /\ t \in Notices \/ ~interrupting
     /\ kept # {} /\ worker' = At("flush", t, h)
     /\ fate' = fates /\ UNCHANGED turnActive /\ Begins
  \/ /\ t \notin Notices /\ ~interrupting /\ kept = {}
     /\ worker' = At("submit", t, h) /\ turnActive' = TRUE /\ fate' = fates /\ Begins
  \/ /\ t \notin Notices /\ interrupting
     /\ worker' = Looping /\ fate' = [fates EXCEPT ![t] = "dropped"] /\ Ends
  \/ /\ t \in Notices /\ kept = {}
     /\ worker' = Looping /\ fate' = fates /\ UNCHANGED turnActive /\ Begins

Rests ==
  /\ worker.at = "loop" /\ queue = <<>>
  /\ worker' = Idle
  /\ UNCHANGED <<Aside, turns, flags, servers, capture, memory, source, human, stopped, unwritten,
                 recoveries>>

\* The next turn, up to the first await.
Takes ==
  /\ worker.at = "loop" /\ queue # <<>>
  /\ queue' = Tail(queue) /\ fate' = [fate EXCEPT ![Head(queue)] = "running"]
  /\ IF Head(queue) \in Notices
     THEN /\ pendingContext' = pendingContext \cup {Head(queue)}
          /\ UNCHANGED <<current, interrupting>>
     ELSE current' = Head(queue) /\ interrupting' = FALSE /\ UNCHANGED pendingContext
  /\ \/ /\ client = 0 /\ Launch(Head(queue), hosts)
        /\ UNCHANGED <<client, resume, turnActive>>
     \/ /\ client # 0 /\ hosts[client].life # "up"
        /\ client' = 0 /\ connecting' = client /\ resume' = hosts[client].thread
        /\ worker' = At("replace", Head(queue), client) /\ UNCHANGED <<hosts, turnActive>>
     \/ /\ client # 0 /\ hosts[client].life = "up"
        /\ IF Head(queue) \in Notices \/ pendingContext # {}
           THEN worker' = At("flush", Head(queue), client) /\ UNCHANGED turnActive
           ELSE worker' = At("submit", Head(queue), client) /\ turnActive' = TRUE
        /\ UNCHANGED <<servers, resume>>
  /\ UNCHANGED <<Aside, capture, saved, source, human, stopped, unwritten, recoveries>>

\* The context file of a consult is written before the try of _run_turn: the exception
\* passes its waiter by and leaves _current_turn behind.
CannotWrite ==
  /\ worker.at = "loop" /\ queue # <<>> /\ Head(queue) \in Consults /\ ContextWriteFails
  /\ queue' = Tail(queue) /\ fate' = [fate EXCEPT ![Head(queue)] = "running"]
  /\ unwritten' = unwritten \cup {Head(queue)}
  /\ current' = Head(queue) /\ interrupting' = FALSE
  /\ worker' = At("excuse", Head(queue), 0)
  /\ UNCHANGED <<Aside, pendingContext, turnActive, servers, capture, memory, source, human, stopped,
                 recoveries>>

\* An exception before the turn was submitted.
Raises(t) ==
  \/ /\ t \in Notices
     /\ worker' = Looping /\ Begins /\ UNCHANGED <<fate, turnActive>>
  \/ /\ t \in Consults /\ Ends
     /\ worker' = Looping /\ fate' = [fate EXCEPT ![t] = "failed"]
  \/ /\ t \in Messages /\ Ends
     /\ IF interrupting THEN worker' = Looping /\ fate' = [fate EXCEPT ![t] = "dropped"]
        ELSE worker' = At("excuse", t, 0) /\ fate' = [fate EXCEPT ![t] = "failed"]
Starting == UNCHANGED <<Aside, queue, interrupting, capture, lock, stopped, unwritten, recoveries>>

\* The dead process is gone: a new one, unless the session was closed meanwhile.
Replaced ==
  /\ worker.at = "replace"
  /\ IF Wanted
     THEN /\ Launch(worker.turn, Ended(worker.host, "gone"))
          /\ Begins /\ UNCHANGED <<fate, turnActive>>
     ELSE hosts' = Ended(worker.host, "gone") /\ UNCHANGED connecting /\ Raises(worker.turn)
  /\ UNCHANGED <<client, memory, pendingContext>> /\ Starting

\* The host resumed or began the conversation; its answer is void if the session was closed.
Connected ==
  /\ worker.at = "connect" /\ hosts[worker.host].life \in {"starting", "closing"}
  /\ IF Wanted
     THEN LET asked == hosts[worker.host].thread
              thread == IF asked = 0 THEN worker.host ELSE asked
          IN /\ client' = worker.host /\ connecting' = 0
             /\ hosts' = [hosts EXCEPT ![worker.host] =
                            [life |-> IF @.life = "starting" THEN "up" ELSE @.life, thread |-> thread]]
             /\ Remembers(thread)
             /\ Submits(worker.turn, worker.host, pendingContext, fate)
     ELSE /\ worker' = [worker EXCEPT !.at = "dispose"]
          /\ UNCHANGED <<servers, memory, fate, turnActive>> /\ Begins
  /\ UNCHANGED pendingContext /\ Starting

ConnectFails ==
  /\ worker.at = "connect" /\ worker' = [worker EXCEPT !.at = "dispose"]
  /\ hosts' = Ended(worker.host, "closing")
  /\ UNCHANGED <<client, connecting, memory, pendingContext, fate, turnActive>>
  /\ Begins /\ Starting

\* The client of a failed start is disconnected, then the exception goes on.
Disposed ==
  /\ worker.at = "dispose"
  /\ hosts' = Ended(worker.host, "gone")
  /\ connecting' = IF connecting = worker.host THEN 0 ELSE connecting
  /\ Raises(worker.turn)
  /\ UNCHANGED <<client, memory, pendingContext>> /\ Starting

\* append_context is acknowledged: the notices belong to the conversation.
Flushed ==
  /\ worker.at = "flush" /\ hosts[worker.host].life = "up"
  /\ pendingContext' = {}
  /\ Submits(worker.turn, worker.host, {},
             [t \in Turns |-> IF t \in pendingContext THEN "done" ELSE fate[t]])
  /\ UNCHANGED <<servers, memory>> /\ Starting

FlushFails ==
  /\ worker.at = "flush" /\ Raises(worker.turn)
  /\ UNCHANGED <<servers, memory, pendingContext>> /\ Starting

\* The finally of _run_turn after the turn was submitted, up to the typing indicator's end.
Unwinds(result) ==
  /\ source' = None /\ pending' = None /\ asks' = Cancelled /\ turnActive' = FALSE
  /\ worker' = [At("unwind", worker.turn, worker.host) EXCEPT !.result = result]
  /\ fate' = IF result = "error" /\ worker.turn \in Consults
             THEN [fate EXCEPT ![worker.turn] = "failed"] ELSE fate
Running == UNCHANGED <<Aside, queue, pendingContext, current, interrupting, lock, stopped, unwritten,
                       recoveries>>

\* submit(): a turn that was stopped meanwhile gives an empty reply.
Submit ==
  /\ worker.at = "submit"
  /\ \/ interrupting /\ Unwinds("reply") /\ Remembers(hosts[worker.host].thread) /\ UNCHANGED capture
     \/ ~interrupting /\ hosts[worker.host].life # "up" /\ Unwinds("error") /\ UNCHANGED <<capture, memory>>
     \/ /\ ~interrupting /\ hosts[worker.host].life = "up"
        /\ worker' = [worker EXCEPT !.at = "running"] /\ capture' = "asked" /\ source' = worker.turn
        /\ UNCHANGED <<pending, asks, turnActive, fate, memory>>
  /\ UNCHANGED servers /\ Running

\* run_detailed returned or raised, and the worker goes on.
Finishes ==
  /\ worker.at = "running" /\ capture \in {"reply", "error"}
  /\ capture' = "none" /\ Unwinds(capture)
  /\ IF capture = "reply" THEN Remembers(hosts[worker.host].thread) ELSE UNCHANGED memory
  /\ UNCHANGED servers /\ Running

\* No answer in codex_turn_timeout_s: the app-server is closed.
TurnTimesOut ==
  /\ worker.at = "running" /\ capture \in {"asked", "going"}
  /\ capture' = "none" /\ CloseClients /\ worker' = [worker EXCEPT !.at = "close", !.host = Open]
  /\ UNCHANGED <<turnActive, fate, memory>> /\ Running

Closed ==
  /\ worker.at = "close"
  /\ hosts' = Ended(worker.host, "gone") /\ Unwinds("error")
  /\ UNCHANGED <<client, connecting, capture, memory>> /\ Running

\* The turn is over: its reply is routed, unless the turn was interrupted.
Routes ==
  /\ worker.at = "unwind" /\ current' = None
  /\ LET t == worker.turn IN
     \/ /\ t \in Consults
        /\ fate' = IF worker.result = "reply" THEN [fate EXCEPT ![t] = "done"] ELSE fate
        /\ worker' = Looping
     \/ /\ t \in Messages /\ interrupting
        /\ fate' = [fate EXCEPT ![t] = "dropped"] /\ worker' = Looping
     \/ /\ t \in Messages /\ ~interrupting /\ worker.result = "reply"
        /\ worker' = At("deliver", t, 0) /\ UNCHANGED fate
     \/ /\ t \in Messages /\ ~interrupting /\ worker.result = "error"
        /\ worker' = At("excuse", t, 0) /\ fate' = [fate EXCEPT ![t] = "failed"]
  /\ UNCHANGED <<Aside, queue, pendingContext, turnActive, interrupting, servers, capture, memory,
                 source, human, stopped, unwritten, recoveries>>

\* The reply is sent, or rejected; the gateway's budget may grant a recovery turn.
Granted == recoveries < MaxRecoveries /\ worker.turn \in Retried
Delivers ==
  /\ worker.at = "deliver" /\ worker' = Looping
  /\ \/ fate' = [fate EXCEPT ![worker.turn] = "done"] /\ UNCHANGED <<queue, recoveries>>
     \/ fate' = [fate EXCEPT ![worker.turn] = "failed"] /\ UNCHANGED <<queue, recoveries>>
     \/ /\ Granted /\ recoveries' = recoveries + 1
        /\ queue' = Append(queue, worker.turn) /\ fate' = [fate EXCEPT ![worker.turn] = "queued"]
  /\ UNCHANGED <<Aside, pendingContext, flags, servers, capture, memory, source, human, stopped,
                 unwritten>>

\* The error notice is out.
Excuses ==
  /\ worker.at = "excuse" /\ worker' = Looping
  /\ UNCHANGED <<Aside, turns, flags, servers, capture, memory, source, human, stopped, unwritten,
                 recoveries>>

(***************************************************************************)
(* The app-server and the gateway's process.                               *)
(***************************************************************************)
Elsewhere == UNCHANGED <<Aside, turns, worker, flags, client, connecting, memory, source, pending, lock,
                         stopped, unwritten, recoveries>>

\* turn/start is acknowledged or refused.
Starts ==
  /\ capture = "asked" /\ hosts[worker.host].life = "up" /\ capture' \in {"going", "error"}
  /\ UNCHANGED <<hosts, asks>> /\ Elsewhere

\* turn/completed: the turn's own questions end with it.
Completes ==
  /\ capture = "going" /\ hosts[worker.host].life = "up"
  /\ capture' \in {"reply", "error"} /\ asks' = Abandoned(asks)
  /\ UNCHANGED hosts /\ Elsewhere

\* disconnect() fails the captures of the client it ends.
Disconnects ==
  /\ capture \in {"asked", "going"} /\ hosts[worker.host].life # "up"
  /\ capture' = "error" /\ UNCHANGED <<hosts, asks>> /\ Elsewhere

\* The app-server exits: its reader fails every waiter and cancels its questions.
HostExits(h) ==
  /\ hosts[h].life \in {"starting", "up"}
  /\ hosts' = [hosts EXCEPT ![h].life = "dead"]
  /\ capture' = IF capture \in {"asked", "going"} /\ worker.host = h THEN "error" ELSE capture
  /\ asks' = Abandoned(asks) /\ Elsewhere

\* The gateway dies and starts again with the session ids on disk.
Crash ==
  /\ crashes < MaxCrashes /\ crashes' = crashes + 1
  /\ queue' = <<>> /\ pendingContext' = {}
  /\ fate' = [t \in Turns |-> IF fate[t] \in Ongoing THEN "lost" ELSE fate[t]]
  /\ worker' = Idle /\ current' = None /\ turnActive' = FALSE /\ interrupting' = FALSE
  /\ client' = 0 /\ connecting' = 0
  /\ hosts' = [h \in Hosts |-> IF hosts[h].life = "unused" THEN hosts[h] ELSE [hosts[h] EXCEPT !.life = "gone"]]
  /\ capture' = "none" /\ resume' = saved /\ source' = None
  /\ handlers' = [i \in Inputs |-> Absent]
  /\ asks' = [q \in Asks |-> IF asks[q].at = "absent" THEN asks[q] ELSE [asks[q] EXCEPT !.at = "over"]]
  /\ pending' = None /\ lock' = None
  /\ UNCHANGED <<todo, saved, stopped, doomed, left, unwritten, recoveries>>

\* Nothing is left to do: the model's inputs are used up.
Quiet ==
  /\ todo = {} /\ worker.at = "off" /\ \A i \in Inputs : handlers[i].at = "absent"
  /\ \A q \in Asks : asks[q].at \in {"absent", "over"}
  /\ UNCHANGED vars

Input(i) ==
  \/ Answer(i) \/ AnswerTwice(i) \/ Overrule(i) \/ Message(i) \/ Background(i) \/ Stop(i) \/ Reset(i)
  \/ \E pick \in Threads : Resume(i, pick)
Handler(i) == GoesOn(i) \/ Aborts(i) \/ Disconnected(i)
Escalation(q) == Opens(q) \/ Sent(q) \/ Unanswered(q) \/ AskReturns(q) \/ PickReturns(q)
Worker ==
  \/ Rests \/ Takes \/ CannotWrite \/ Replaced \/ Connected \/ ConnectFails \/ Disposed
  \/ Flushed \/ FlushFails \/ Submit \/ Finishes \/ Closed \/ Routes \/ Delivers \/ Excuses
Next ==
  \/ \E i \in Inputs : Input(i) \/ Handler(i) \/ InterruptTimesOut(i)
  \/ \E q \in Questions : Ask(q)
  \/ \E q \in Asks : Escalation(q)
  \/ Worker \/ TurnTimesOut
  \/ Starts \/ Completes \/ Disconnects \/ (\E h \in Hosts : HostExits(h))
  \/ Crash \/ Quiet

Spec == Init /\ [][Next]_vars

\* The event loop runs every ready task, questions and turns have timeouts, and a host
\* answers thread and context requests, for which the code has none, or exits.
Fairness ==
  /\ WF_vars(Worker) /\ WF_vars(TurnTimesOut) /\ WF_vars(Disconnects)
  /\ WF_vars(\E i \in Inputs : Handler(i)) /\ WF_vars(\E q \in Asks : Escalation(q))
FairSpec == Spec /\ Fairness

(***************************************************************************)
(* Properties.                                                             *)
(***************************************************************************)
\* Tools act only for the turn that runs and that nobody has stopped: the source in the
\* authority file is live only between its submission and the first step of whoever
\* interrupts, closes or finishes the turn (turn_authority.begin and retire).
SourceIsCurrent ==
  source # None => /\ source = current /\ turnActive /\ ~interrupting
                   /\ worker.at = "running" /\ client = worker.host

\* A process that close() gave up never becomes the session's client, however late its
\* startup is answered (README.md:515-516).
LateStartupIsDisposed == client # 0 => hosts[client].life \in {"up", "dead"}

\* Every live app-server has an owner that will end it: the session, or the worker that
\* is about to disconnect it.
NoOrphanHost ==
  \A h \in Hosts : hosts[h].life \in {"starting", "up"} =>
                     h \in {client, connecting} \/ (worker.at = "dispose" /\ worker.host = h)

\* No app-server is lost: each has an owner, and a late startup does not become the client.
HostsAreOwned == NoOrphanHost /\ LateStartupIsDisposed

\* A turn that was stopped, or gave way to a newer message, while it was the current one
\* sends neither its reply nor an error notice.
StoppedTurnsAreSilent ==
  worker.at \in {"deliver", "excuse"} /\ worker.turn \notin unwritten =>
    \A how \in {"told", "yielded"} : <<worker.turn, how>> \notin stopped

\* A question is displayed while the turn that asks it runs and is not being interrupted, and
\* an answer reaches it only while that turn runs and nobody told it to stop: the answer to a
\* question of an older generation authorizes nothing.
AnswersGoToLiveTurns ==
  [][\A q \in Questions :
       /\ (asks[q].at # "sending" /\ asks'[q].at = "sending") =>
             asks[q].turn = current /\ turnActive /\ ~interrupting
       /\ (asks[q].at # "answered" /\ asks'[q].at = "answered") =>
             asks[q].turn = current /\ turnActive /\ <<current, "told">> \notin stopped]_vars

\* Only the live turn acts: its tools, its questions and its reply, and none of those of a
\* turn that was stopped or gave way while it was prepared, ran or was unwound.
OnlyLiveTurnsAct == []SourceIsCurrent /\ []StoppedTurnsAreSilent /\ AnswersGoToLiveTurns

\* While the human leaves no conversation, all the app-servers there ever were belong to the
\* same one: neither crashes nor failed, closed or replaced clients fork or lose it.
OneConversation ==
  left = {} => \A g, h \in Hosts : hosts[g].thread # 0 /\ hosts[h].thread # 0 =>
                                      hosts[g].thread = hosts[h].thread

\* The waiter of a consult is settled and a message of the human comes to an end, whatever
\* is stopped, cleared, closed or lost meanwhile; the one exception is a consult whose
\* context file could not be written, which CannotWrite leaves unsettled.
EveryTurnSettles ==
  \A t \in Messages \cup Consults :
    (fate[t] \in Ongoing /\ t \notin unwritten) ~> (fate[t] \notin Ongoing \/ t \in unwritten)

\* A conversation that /clear forgot is not continued by a later app-server.
ClearedStaysForgotten ==
  \A h \in Hosts : hosts[h].life \in {"starting", "up"} => hosts[h].thread \notin left

\* What was queued when /stop or /clear arrived does not run afterwards.
StopDropsQueued == worker.at \in {"submit", "running"} => worker.turn \notin doomed

\* A question that waits for its answer is not of a turn that is being interrupted
\* (README.md:537: interrupting only applies while the agent is actively working).
WaitingTurnsAreLeftAlone ==
  \A q \in Questions : asks[q].at \in {"sending", "shown"} => ~interrupting

\* /resume lists the conversations unless a turn that is being interrupted is in the way.
ResumeIsOffered ==
  [][\A p \in Resumes : (asks[p].at = "waiting" /\ asks'[p].at = "over" /\ crashes' = crashes) => current # None]_vars
=============================================================================
