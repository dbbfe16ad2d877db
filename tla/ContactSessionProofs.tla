------------------------ MODULE ContactSessionProofs ------------------------
(***************************************************************************)
(* Who may act and who owns the app-servers in one conversation: for any   *)
(* messages, consults, notices, commands and questions, however late a     *)
(* host answers, whatever it is that fails, and any number of crashes.     *)
(***************************************************************************)
EXTENDS ContactSession, TLAPS

\* The worker awaits a client, or works with one.
Early == {"replace", "connect", "dispose"}
With == {"flush", "submit", "running"}
Working == {"submit", "running", "close"}
Placed == Early \cup With \cup {"close", "unwind"}
Displayed == {"sending", "shown"}
Unbegun == {"absent", "queued"}

\* TypeOK, by the part of the session.
TurnTypes ==
  /\ todo \subseteq Inputs
  /\ queue \in Seq(Turns) /\ fate \in [Turns -> Fates] /\ pendingContext \subseteq Notices
WorkerRows ==
  [at : {"off", "loop", "replace", "connect", "dispose", "flush", "submit", "running", "close",
         "unwind", "deliver", "excuse"},
   turn : Turns \cup {None}, host : {0} \cup Hosts, result : {"none", "reply", "error"}]
WorkerTypes ==
  /\ worker \in WorkerRows
  /\ current \in Turns \cup {None} /\ turnActive \in BOOLEAN /\ interrupting \in BOOLEAN
  /\ capture \in {"none", "asked", "going", "reply", "error"}
  /\ source \in Turns \cup {None}
HostTables == [Hosts -> [life : {"unused", "starting", "up", "dead", "closing", "gone"},
                         thread : {0} \cup Threads]]
HostTypes ==
  /\ client \in {0} \cup Hosts /\ connecting \in {0} \cup Hosts /\ hosts \in HostTables
  /\ resume \in {0} \cup Threads /\ saved \in {0} \cup Threads /\ left \subseteq Threads
HandlerRows == [at : {"absent", "interrupt", "close"}, host : {0} \cup Hosts,
                next : {"end", "enqueue", "wake", "drop", "clear", "swap"},
                hit : Turns \cup {None}]
HandlerTypes == handlers \in [Inputs -> HandlerRows]
AskTables ==
  [Asks -> [at : {"absent", "waiting", "stale", "sending", "shown", "answered", "denied", "cancelled",
                  "over"},
            turn : Turns \cup {None}, pick : {0} \cup Threads]]
AskTypes ==
  /\ asks \in AskTables /\ pending \in Asks \cup {None} /\ lock \in Asks \cup {None}
HistoryTypes ==
  /\ stopped \subseteq Turns \X {"told", "yielded"} /\ doomed \subseteq Turns
  /\ unwritten \subseteq Consults
  /\ recoveries \in 0 .. MaxRecoveries /\ crashes \in 0 .. MaxCrashes

\* The turn of the worker is the current one, unless it is a notice or is over.
WorkerInv ==
  /\ worker.turn = None <=> worker.at \in {"off", "loop"}
  /\ worker.at \in {"replace", "connect"} \cup With => worker.host # 0
  /\ worker.at \in Working \cup {"unwind"} => worker.turn \notin Notices
  /\ worker.at \in Placed /\ worker.turn \notin Notices => current = worker.turn
  /\ worker.at = "deliver" => worker.turn \in Messages /\ current = None
  /\ worker.at = "excuse" /\ worker.turn \notin unwritten => current = None
  /\ turnActive <=> worker.at \in Working

\* A turn waits once, and is of those that have not begun; what arrives later was never
\* queued, and no turn was stopped before it began.
QueueInv ==
  /\ \A k \in 1 .. Len(queue) : fate[queue[k]] = "queued"
  /\ \A k, l \in 1 .. Len(queue) : queue[k] = queue[l] => k = l
ArrivalInv ==
  /\ \A i \in todo : handlers[i].at = "absent" /\ (i \in Turns => fate[i] = "absent")
  /\ \A i \in Inputs : handlers[i].at # "absent" /\ handlers[i].next = "enqueue" =>
                        i \in Messages /\ fate[i] = "absent"
  /\ \A p \in Inputs : handlers[p].at # "absent" /\ handlers[p].next = "swap" => p \in Resumes
PickInv == \A p \in Resumes : asks[p].at # "absent" => p \notin todo
BegunInv ==
  \A t \in Turns : t = current \/ t = worker.turn \/ t \in pendingContext => fate[t] \notin Unbegun
StoppedInv ==
  \A t \in Turns, how \in {"told", "yielded"} : <<t, how>> \in stopped =>
    fate[t] \notin Unbegun /\ (t = current => interrupting)

\* No question waits or is displayed: what is left of them authorizes nothing.
Silenced(table) ==
  /\ table \in AskTables
  /\ \A q \in Asks : /\ table[q].at \notin Displayed \cup {"waiting"}
                     /\ table[q].at # "absent" => asks[q].at # "absent"

\* The displayed question holds the lock, and is of the turn that runs and was not told to stop.
AskInv ==
  /\ \A q \in Asks : asks[q].at \in Displayed => pending = q /\ lock = q
  /\ \A q \in Questions : asks[q].at \in Displayed \cup {"waiting"} =>
       worker.at = "running" /\ asks[q].turn = current
  /\ \A q \in Questions : asks[q].at \in Displayed => <<current, "told">> \notin stopped

\* There is one client at most, and what is closed stays closed.
ClientInv ==
  /\ worker.at \in Early \cup {"close"} => client = 0
  /\ connecting # 0 => worker.at \in Early /\ connecting = worker.host
  /\ worker.at = "connect" /\ connecting # 0 => hosts[worker.host].life \in {"starting", "dead"}
  /\ worker.at = "replace" /\ connecting # 0 => hosts[worker.host].life = "dead"
  /\ \A i \in Inputs : handlers[i].at = "close" =>
       handlers[i].host # 0 /\ hosts[handlers[i].host].life \in {"closing", "gone"}

IInv ==
  /\ TurnTypes /\ WorkerTypes /\ HostTypes /\ HandlerTypes /\ AskTypes /\ HistoryTypes
  /\ WorkerInv /\ QueueInv /\ ArrivalInv /\ PickInv /\ BegunInv /\ StoppedInv /\ AskInv
  /\ ClientInv /\ NoOrphanHost /\ LateStartupIsDisposed
  /\ SourceIsCurrent /\ StoppedTurnsAreSilent
-----------------------------------------------------------------------------
USE SessionAssumption DEF Turns, Commands, Inputs, Asks, Hosts, Past, Threads, Fates,
  Early, With, Working, Placed, Displayed, Unbegun

(***************************************************************************)
(* The operators that several steps share.                                 *)
(***************************************************************************)
LEMMA Silences == ASSUME IInv PROVE Silenced(Cancelled) /\ Silenced(Abandoned(Cancelled))
<1>1. asks \in AskTables /\ \A q \in Asks : asks[q].at \in Displayed => q = pending
  BY DEF IInv, AskTypes, AskInv
<1>2. Silenced(Cancelled)
  BY <1>1 DEF Silenced, Cancelled, AskTables
<1>3. Silenced(Abandoned(Cancelled))
  BY <1>2 DEF Silenced, Abandoned, AskTables
<1> QED  BY <1>2, <1>3

LEMMA SilencedAsks ==
  ASSUME IInv, Silenced(asks'), pending' = None, lock' \in Asks \cup {None} PROVE AskTypes' /\ AskInv'
BY DEF AskTypes, AskInv, Silenced

LEMMA AbandonedAsks ==
  ASSUME AskTypes
  PROVE  /\ Abandoned(asks) \in AskTables
         /\ \A q \in Asks : \/ Abandoned(asks)[q] = asks[q]
                            \/ Abandoned(asks)[q].at = "cancelled" /\ q \in Questions
BY DEF AskTypes, AskTables, Abandoned

\* What close() does to the table of processes.
LEMMA Closes ==
  ASSUME IInv
  PROVE  /\ Open \in {0} \cup Hosts /\ Ended(Open, "closing") \in HostTables
         /\ Open # 0 => Ended(Open, "closing")[Open].life = "closing"
         /\ \A h \in Hosts :
              /\ hosts[h].life \in {"closing", "gone"} =>
                   Ended(Open, "closing")[h].life \in {"closing", "gone"}
              /\ Ended(Open, "closing")[h].life \in {"starting", "up"} =>
                   worker.at = "dispose" /\ worker.host = h
BY DEF IInv, HostTypes, HostTables, Open, Ended, ClientInv, NoOrphanHost

LEMMA EndsHost ==
  ASSUME HostTypes, NEW h \in {0} \cup Hosts, NEW life \in {"dead", "closing", "gone"}
  PROVE  /\ Ended(h, life) \in HostTables
         /\ h # 0 => Ended(h, life)[h].life = life
         /\ \A g \in Hosts : g # h => Ended(h, life)[g] = hosts[g]
BY DEF HostTypes, HostTables, Ended

\* What the queue holds after a turn joined it, or left it, or all did.
LEMMA Joins ==
  ASSUME TurnTypes, QueueInv, NEW m \in Turns, fate[m] # "queued",
         queue' = Append(queue, m), fate' = [fate EXCEPT ![m] = "queued"]
  PROVE  QueueInv' /\ queue' \in Seq(Turns) /\ fate' \in [Turns -> Fates]
<1>1. /\ queue \in Seq(Turns) /\ \A k \in 1 .. Len(queue) : queue[k] \in Turns /\ queue[k] # m
      /\ fate \in [Turns -> Fates]
  BY DEF TurnTypes, QueueInv
<1>2. /\ Len(queue') = Len(queue) + 1 /\ queue' \in Seq(Turns) /\ queue'[Len(queue) + 1] = m
      /\ \A k \in 1 .. Len(queue) : queue'[k] = queue[k]
  BY <1>1
<1>3. \A k \in 1 .. Len(queue') : k \in 1 .. Len(queue) \/ k = Len(queue) + 1
  BY <1>1, <1>2
<1> QED  BY <1>1, <1>2, <1>3 DEF QueueInv

LEMMA Leaves ==
  ASSUME TurnTypes, QueueInv, queue # <<>>,
         queue' = Tail(queue), fate' = [fate EXCEPT ![Head(queue)] = "running"]
  PROVE  /\ QueueInv' /\ queue' \in Seq(Turns) /\ fate' \in [Turns -> Fates]
         /\ Head(queue) \in Turns /\ fate[Head(queue)] = "queued"
<1>1. /\ queue \in Seq(Turns) /\ \A k \in 1 .. Len(queue) : queue[k] \in Turns
      /\ fate \in [Turns -> Fates]
  BY DEF TurnTypes
<1>2. /\ Len(queue) \in Nat \ {0} /\ Len(queue') = Len(queue) - 1 /\ queue' \in Seq(Turns)
      /\ \A k \in 1 .. Len(queue') : queue'[k] = queue[k + 1]
      /\ Head(queue) = queue[1]
  BY <1>1
<1>3. \A k \in 1 .. Len(queue') : k + 1 \in 1 .. Len(queue) /\ queue[k + 1] # queue[1]
  BY <1>2 DEF QueueInv
<1>4. \A k \in 1 .. Len(queue') : fate'[queue'[k]] = "queued"
  BY <1>1, <1>2, <1>3 DEF QueueInv
<1>5. \A k, l \in 1 .. Len(queue') : queue'[k] = queue'[l] => k = l
  <2> TAKE k, l \in 1 .. Len(queue')
  <2>1. queue[k + 1] = queue[l + 1] => k + 1 = l + 1
    BY <1>3 DEF QueueInv
  <2> QED  BY <1>2, <2>1
<1>6. Head(queue) \in Turns /\ fate[Head(queue)] = "queued"
  BY <1>1, <1>2 DEF QueueInv
<1> QED  BY <1>1, <1>2, <1>4, <1>5, <1>6 DEF QueueInv

LEMMA Drops ==
  ASSUME TurnTypes, QueueInv, DropQueue
  PROVE  /\ QueueInv' /\ queue' \in Seq(Turns) /\ fate' \in [Turns -> Fates]
         /\ \A t \in Turns : fate'[t] = fate[t] \/ (fate[t] = "queued" /\ fate'[t] = "dropped")
<1>1. /\ queue \in Seq(Turns) /\ fate \in [Turns -> Fates]
      /\ \A k \in 1 .. Len(queue) : fate[queue[k]] = "queued"
  BY DEF TurnTypes, QueueInv
<1>2. \A t \in Members(queue) : fate[t] = "queued"
  BY <1>1 DEF Members
<1>3. queue' = <<>> /\ fate' = [t \in Turns |-> IF t \in Members(queue) THEN "dropped" ELSE fate[t]]
  BY DEF DropQueue
<1>4. queue' \in Seq(Turns) /\ 1 .. Len(queue') = {}
  BY <1>3
<1> QED  BY <1>1, <1>2, <1>3, <1>4 DEF QueueInv

\* The order of the turns that wait is not disturbed by the end of another.
LEMMA StaysQueued ==
  ASSUME TurnTypes, QueueInv, queue' = queue,
         \A t \in Turns : fate[t] \in Unbegun => fate'[t] = fate[t]
  PROVE  QueueInv'
<1>1. \A k \in 1 .. Len(queue) : queue[k] \in Turns
  BY DEF TurnTypes
<1> QED  BY <1>1 DEF QueueInv

\* A turn that was stopped stays so until it is over.
LEMMA StaysStopped ==
  ASSUME StoppedInv, BegunInv,
         \A t \in Turns : fate[t] \notin Unbegun => fate'[t] \notin Unbegun,
         \A t \in Turns, how \in {"told", "yielded"} :
           <<t, how>> \in stopped' => <<t, how>> \in stopped \/ t = current,
         interrupting \/ current # None => interrupting', current' = current
  PROVE  StoppedInv'
BY DEF StoppedInv, BegunInv

LEMMA EndsStopped ==
  ASSUME StoppedInv, stopped' = stopped, current' = None,
         \A t \in Turns : fate[t] \notin Unbegun => fate'[t] \notin Unbegun
  PROVE  StoppedInv'
BY DEF StoppedInv

\* The synchronous part of what stops a turn.
LEMMA Halts ==
  ASSUME IInv, Halt
  PROVE  /\ source' = None /\ pending' = None /\ interrupting' \in BOOLEAN
         /\ interrupting \/ current # None => interrupting'
         /\ stopped' \subseteq Turns \X {"told", "yielded"}
         /\ \A t \in Turns, how \in {"told", "yielded"} :
              <<t, how>> \in stopped' => <<t, how>> \in stopped \/ t = current
<1>1. source' = None /\ pending' = None
  BY DEF Halt
<1>2. interrupting' = (interrupting \/ current # None \/ turnActive)
  BY DEF Halt
<1>3. interrupting' \in BOOLEAN /\ (interrupting \/ current # None => interrupting')
  BY <1>2, Zenon
<1>4. current \in Turns \cup {None} /\ stopped \subseteq Turns \X {"told", "yielded"}
  BY DEF IInv, WorkerTypes, HistoryTypes
<1>5. stopped' = IF current = None THEN stopped ELSE stopped \cup {<<current, "told">>}
  BY DEF Halt
<1>6. stopped' \subseteq Turns \X {"told", "yielded"}
  BY <1>4, <1>5
<1>7. \A t \in Turns, how \in {"told", "yielded"} :
        <<t, how>> \in stopped' => <<t, how>> \in stopped \/ t = current
  BY <1>5
<1> QED  BY <1>1, <1>3, <1>6, <1>7

LEMMA Wakes ==
  ASSUME WorkerTypes, worker' = Woken
  PROVE  /\ worker' \in WorkerRows
         /\ \/ worker' = worker
            \/ worker.at = "off" /\ worker'.at = "loop" /\ worker'.turn = None /\ worker'.host = 0
<1>1. CASE worker.at = "off"
  <2>1. worker' = [at |-> "loop", turn |-> None, host |-> 0, result |-> "none"]
    BY <1>1 DEF Woken, Idle
  <2> QED  BY <1>1, <2>1 DEF WorkerRows
<1>2. CASE worker.at # "off"
  BY <1>2 DEF Woken, WorkerTypes
<1> QED  BY <1>1, <1>2

LEMMA Interrupts ==
  ASSUME HandlerTypes, WorkerTypes, NEW i \in Inputs, NEW next \in {"enqueue", "wake", "drop"},
         handlers' = Interrupting(i, next)
  PROVE  /\ HandlerTypes' /\ handlers'[i].at = "interrupt" /\ handlers'[i].next = next
         /\ \A j \in Inputs : j # i => handlers'[j] = handlers[j]
<1>1. PICK hit \in Turns \cup {None} :
        handlers' = [handlers EXCEPT ![i] = [at |-> "interrupt", host |-> 0, next |-> next, hit |-> hit]]
  BY DEF Interrupting, WorkerTypes
<1> QED  BY <1>1 DEF HandlerTypes, HandlerRows

LEMMA ClosesFor ==
  ASSUME HandlerTypes, HostTypes, NEW i \in Inputs,
         NEW next \in {"end", "enqueue", "wake", "drop", "clear", "swap"}, handlers' = Closing(i, next)
  PROVE  /\ HandlerTypes' /\ handlers'[i].at = "close" /\ handlers'[i].host = Open
         /\ handlers'[i].next = next
         /\ \A j \in Inputs : j # i => handlers'[j] = handlers[j]
<1>1. Open \in {0} \cup Hosts
  BY DEF HostTypes, Open
<1>2. handlers' = [handlers EXCEPT ![i] = [at |-> "close", host |-> Open, next |-> next, hit |-> None]]
  BY DEF Closing
<1> QED  BY <1>1, <1>2 DEF HandlerTypes, HandlerRows

LEMMA Returns ==
  ASSUME HandlerTypes, NEW i \in Inputs, handlers' = [handlers EXCEPT ![i] = Absent]
  PROVE  /\ HandlerTypes' /\ handlers'[i].at = "absent"
         /\ \A j \in Inputs : j # i => handlers'[j] = handlers[j]
BY DEF HandlerTypes, HandlerRows, Absent

LEMMA Conversations == ASSUME HostTypes PROVE left \cup Conversation \subseteq Threads
<1>1. (IF client = 0 THEN 0 ELSE hosts[client].thread) \in {0} \cup Threads
  BY DEF HostTypes, HostTables
<1>2. resume \in {0} \cup Threads /\ left \subseteq Threads
  BY DEF HostTypes
<1>3. ASSUME NEW s \in left \cup Conversation PROVE s \in Threads
  BY <1>1, <1>2 DEF Conversation
<1> QED  BY <1>3

\* The process that is asked for the conversation, if one can be launched.
LEMMA Launches ==
  ASSUME NEW t, NEW table, Launch(t, table)
  PROVE  \/ worker' = At("dispose", t, 0) /\ connecting' = 0 /\ hosts' = table
         \/ \E new \in Hosts :
              /\ table[new].life = "unused" /\ connecting' = new /\ worker' = At("connect", t, new)
              /\ hosts' = [table EXCEPT ![new] = [life |-> "starting", thread |-> resume]]
<1> DEFINE unused == {h \in Hosts : table[h].life = "unused"}
           new == CHOOSE h \in unused : TRUE
<1>1. CASE unused = {}
  BY <1>1 DEF Launch
<1>2. CASE unused # {}
  <2>1. new \in unused
    <3> HIDE DEF unused
    <3> QED  BY <1>2
  <2>2. /\ connecting' = new /\ worker' = At("connect", t, new)
        /\ hosts' = [table EXCEPT ![new] = [life |-> "starting", thread |-> resume]]
    BY <1>2 DEF Launch
  <2>3. new \in Hosts /\ table[new].life = "unused"
    BY <2>1
  <2> HIDE DEF new
  <2> QED  BY <2>2, <2>3
<1> QED  BY <1>1, <1>2

LEMMA AnswerStep == ASSUME IInv, NEW i \in Inputs, Answer(i) PROVE IInv'
<1>1. UNCHANGED <<queue, pendingContext, worker, current, turnActive, interrupting, client,
                  connecting, hosts, capture, resume, saved, source, handlers, pending, lock,
                  stopped, doomed, left, unwritten, recoveries, crashes>>
  BY DEF Answer, Unmoved, servers, memory
<1>2. /\ i \in Inputs /\ i \in todo /\ todo' = todo \ {i}
      /\ handlers[i].at = "absent"
  BY DEF Answer, Arrives, IInv, ArrivalInv
<1>3. i \in Messages /\ fate[i] = "absent"
  BY DEF Answer, Arrives, IInv, ArrivalInv
<1>4. fate' = [fate EXCEPT ![i] = "consumed"]
  BY DEF Answer
<1>5. /\ pending \in Asks /\ asks[pending].at \in Displayed
      /\ \E state \in {"answered", "denied"} : asks' = [asks EXCEPT ![pending].at = state]
  BY DEF Answer, Awaited, IInv, AskTypes
<1>6. WorkerTypes' /\ HostTypes' /\ HandlerTypes' /\ HistoryTypes' /\ WorkerInv' /\ ClientInv'
      /\ NoOrphanHost' /\ LateStartupIsDisposed' /\ SourceIsCurrent' /\ StoppedTurnsAreSilent'
  BY <1>1
     DEF IInv, WorkerTypes, HostTypes, HandlerTypes, HistoryTypes, WorkerInv, ClientInv,
         NoOrphanHost, LateStartupIsDisposed, SourceIsCurrent, StoppedTurnsAreSilent
<1>7. TurnTypes'
  BY <1>1, <1>2, <1>3, <1>4 DEF IInv, TurnTypes
<1>8. AskTypes'
  BY <1>1, <1>5 DEF IInv, AskTypes, AskTables
<1>9. QueueInv'
  BY <1>1, <1>3, <1>4 DEF IInv, QueueInv, TurnTypes
<1>10. ArrivalInv'
  BY <1>1, <1>2, <1>3, <1>4 DEF IInv, ArrivalInv, TurnTypes
<1>11. PickInv'
  BY <1>2, <1>3, <1>5 DEF IInv, PickInv, AskTypes, AskTables
<1>12. BegunInv'
  BY <1>1, <1>4 DEF IInv, BegunInv, TurnTypes
<1>13. StoppedInv'
  BY <1>1, <1>3, <1>4 DEF IInv, StoppedInv, TurnTypes, BegunInv
<1>14. AskInv'
  BY <1>1, <1>5 DEF IInv, AskInv, AskTypes, AskTables
<1> QED  BY <1>6, <1>7, <1>8, <1>9, <1>10, <1>11, <1>12, <1>13, <1>14 DEF IInv

LEMMA AnswerTwiceStep == ASSUME IInv, NEW i \in Inputs, AnswerTwice(i) PROVE IInv'
<1>1. UNCHANGED <<queue, pendingContext, worker, current, turnActive, interrupting, client,
                  connecting, hosts, capture, resume, saved, source, handlers, asks, pending, lock,
                  stopped, doomed, left, unwritten, recoveries, crashes>>
  BY DEF AnswerTwice, Unmoved, servers, memory
<1>2. /\ i \in Inputs /\ i \in todo /\ todo' = todo \ {i}
      /\ handlers[i].at = "absent"
  BY DEF AnswerTwice, Arrives, IInv, ArrivalInv
<1>3. i \in Messages /\ fate[i] = "absent"
  BY DEF AnswerTwice, Arrives, IInv, ArrivalInv
<1>4. fate' = [fate EXCEPT ![i] = "consumed"]
  BY DEF AnswerTwice
<1>5. WorkerTypes' /\ HostTypes' /\ HandlerTypes' /\ AskTypes' /\ HistoryTypes' /\ WorkerInv'
      /\ AskInv' /\ ClientInv' /\ NoOrphanHost' /\ LateStartupIsDisposed' /\ SourceIsCurrent'
      /\ StoppedTurnsAreSilent'
  BY <1>1
     DEF IInv, WorkerTypes, HostTypes, HandlerTypes, AskTypes, HistoryTypes, WorkerInv, AskInv,
         ClientInv, NoOrphanHost, LateStartupIsDisposed, SourceIsCurrent, StoppedTurnsAreSilent
<1>6. TurnTypes'
  BY <1>1, <1>2, <1>3, <1>4 DEF IInv, TurnTypes
<1>7. QueueInv'
  BY <1>1, <1>3, <1>4 DEF IInv, QueueInv, TurnTypes
<1>8. ArrivalInv'
  BY <1>1, <1>2, <1>3, <1>4 DEF IInv, ArrivalInv, TurnTypes
<1>9. PickInv'
  BY <1>1, <1>2 DEF IInv, PickInv, AskTypes, AskTables
<1>10. BegunInv'
  BY <1>1, <1>4 DEF IInv, BegunInv, TurnTypes
<1>11. StoppedInv'
  BY <1>1, <1>3, <1>4 DEF IInv, StoppedInv, TurnTypes, BegunInv
<1> QED  BY <1>5, <1>6, <1>7, <1>8, <1>9, <1>10, <1>11 DEF IInv

LEMMA OverruleStep == ASSUME IInv, NEW i \in Inputs, Overrule(i) PROVE IInv'
<1>1. Unmoved /\ UNCHANGED <<doomed, pendingContext>>
  BY DEF Overrule, turns
<1>2. UNCHANGED <<pendingContext, current, turnActive, client, connecting, hosts, capture, resume,
                  saved, lock, doomed, left, unwritten, recoveries, crashes>>
  BY <1>1 DEF Unmoved, servers, memory
<1>3. /\ i \in Inputs /\ i \in todo /\ todo' = todo \ {i}
      /\ handlers[i].at = "absent"
  BY DEF Overrule, Arrives, IInv, ArrivalInv
<1>4. i \in Messages /\ fate[i] = "absent"
  BY DEF Overrule, Arrives, IInv, ArrivalInv
<1>5. /\ source' = None /\ pending' = None /\ interrupting' \in BOOLEAN
      /\ interrupting \/ current # None => interrupting'
      /\ stopped' \subseteq Turns \X {"told", "yielded"}
      /\ \A t \in Turns, how \in {"told", "yielded"} :
           <<t, how>> \in stopped' => <<t, how>> \in stopped \/ t = current
  BY Halts DEF Overrule
<1>6. Silenced(asks')
  BY Silences DEF Overrule
<1>7. HostTypes' /\ LateStartupIsDisposed'
  BY <1>2 DEF IInv, HostTypes, LateStartupIsDisposed
<1>8. AskTypes'
  BY <1>2, <1>5, <1>6, SilencedAsks DEF IInv, AskTypes
<1>9. HistoryTypes'
  BY <1>2, <1>5 DEF IInv, HistoryTypes
<1>10. PickInv'
  BY <1>3, <1>4, <1>6 DEF IInv, PickInv, Silenced
<1>11. CASE MustInterrupt
  <2>1. UNCHANGED <<queue, fate, worker>>
    BY <1>11 DEF Overrule, turns
  <2>2. /\ HandlerTypes' /\ handlers'[i].at = "interrupt" /\ handlers'[i].next = "enqueue"
        /\ \A j \in Inputs : j # i => handlers'[j] = handlers[j]
    BY <1>11, Interrupts DEF Overrule, IInv
  <2>3. TurnTypes'
    BY <1>2, <1>3, <1>4, <1>11, <2>1 DEF IInv, TurnTypes
  <2>4. WorkerTypes'
    BY <1>2, <1>5, <1>11, <2>1 DEF IInv, WorkerTypes, WorkerRows
  <2>5. HandlerTypes'
    BY <2>1, <2>2
  <2>6. WorkerInv'
    BY <1>2, <1>11, <2>1 DEF IInv, WorkerInv, WorkerTypes
  <2>7. QueueInv'
    BY <2>1 DEF IInv, QueueInv
  <2>8. ArrivalInv'
    BY <1>3, <1>4, <1>11, <2>1, <2>2 DEF IInv, ArrivalInv, TurnTypes
  <2>9. BegunInv'
    BY <1>2, <1>11, <2>1 DEF IInv, BegunInv, TurnTypes
  <2>10. StoppedInv'
    BY <1>2, <1>5, <1>11, <2>1, StaysStopped DEF IInv
  <2>11. AskInv'
    BY <1>2, <1>5, <1>6, <1>11, <2>1, SilencedAsks DEF IInv, AskTypes
  <2>12. ClientInv'
    BY <1>2, <1>11, <2>1, <2>2 DEF IInv, ClientInv
  <2>13. NoOrphanHost'
    BY <1>2, <1>11, <2>1 DEF IInv, NoOrphanHost
  <2>14. SourceIsCurrent'
    BY <1>5 DEF IInv, SourceIsCurrent
  <2>15. StoppedTurnsAreSilent'
    BY <1>2, <1>5, <1>11, <2>1 DEF IInv, StoppedTurnsAreSilent, WorkerInv
  <2> QED  BY <1>7, <1>8, <1>9, <1>10, <2>3, <2>4, <2>5, <2>6, <2>7, <2>8, <2>9, <2>10, <2>11,
              <2>12, <2>13, <2>14, <2>15
              DEF IInv
<1>12. CASE ~MustInterrupt
  <2>1. UNCHANGED <<handlers>>
    BY <1>12 DEF Overrule
  <2>2. queue' = Append(queue, i) /\ fate' = [fate EXCEPT ![i] = "queued"]
    BY <1>12 DEF Overrule
  <2>3. /\ QueueInv' /\ queue' \in Seq(Turns) /\ fate' \in [Turns -> Fates]
        /\ \A t \in Turns : t # i => fate'[t] = fate[t]
        /\ fate'[i] = "queued"
        /\ \A t \in Turns : fate[t] \notin Unbegun => fate'[t] \notin Unbegun
    BY <1>2, <1>3, <1>4, <1>5, <1>6, <1>12, <2>1, <2>2, Joins DEF IInv
  <2>4. /\ worker' \in WorkerRows
        /\ \/ worker' = worker
           \/ worker.at = "off" /\ worker'.at = "loop" /\ worker'.turn = None /\ worker'.host = 0
    BY <1>12, Wakes DEF Overrule, IInv
  <2>5. TurnTypes'
    BY <1>2, <1>3, <1>4, <1>12, <2>1, <2>2, <2>3 DEF IInv, TurnTypes
  <2>6. WorkerTypes'
    BY <1>2, <1>5, <1>12, <2>1, <2>4 DEF IInv, WorkerTypes, WorkerRows
  <2>7. HandlerTypes'
    BY <2>1 DEF IInv, HandlerTypes
  <2>8. WorkerInv'
    BY <1>2, <1>12, <2>1, <2>4 DEF IInv, WorkerInv, WorkerTypes
  <2>9. QueueInv'
    BY <2>2, <2>3
  <2>10. ArrivalInv'
    BY <1>3, <1>4, <1>12, <2>1, <2>2, <2>3 DEF IInv, ArrivalInv, TurnTypes
  <2>11. BegunInv'
    BY <1>2, <2>1, <2>2, <2>3, <2>4 DEF IInv, BegunInv, TurnTypes
  <2>12. StoppedInv'
    BY <1>2, <1>5, <1>12, <2>1, <2>2, <2>3, StaysStopped DEF IInv
  <2>13. AskInv'
    BY <1>2, <1>5, <1>6, <1>12, <2>1, <2>4, SilencedAsks DEF IInv, AskTypes
  <2>14. ClientInv'
    BY <1>2, <1>12, <2>1, <2>4 DEF IInv, ClientInv
  <2>15. NoOrphanHost'
    BY <1>2, <1>12, <2>1, <2>4 DEF IInv, NoOrphanHost
  <2>16. SourceIsCurrent'
    BY <1>5, <1>12, <2>1, <2>4 DEF IInv, SourceIsCurrent
  <2>17. StoppedTurnsAreSilent'
    BY <1>2, <1>5, <1>12, <2>1, <2>4 DEF IInv, StoppedTurnsAreSilent, WorkerInv
  <2> QED  BY <1>7, <1>8, <1>9, <1>10, <2>5, <2>6, <2>7, <2>8, <2>9, <2>10, <2>11, <2>12, <2>13,
              <2>14, <2>15, <2>16, <2>17
              DEF IInv
<1> QED  BY <1>11, <1>12

\* A message of the human is queued, and the turn that runs may yield to it.
LEMMA EnqueueStep ==
  ASSUME IInv, NEW i \in Messages, fate[i] = "absent", todo' = todo \ {i}, Enqueue(i),
         UNCHANGED <<asks, pending, doomed>>, Unmoved
  PROVE  IInv'
<1>1. UNCHANGED <<pendingContext, current, turnActive, client, connecting, hosts, capture, resume,
                  saved, asks, pending, lock, doomed, left, unwritten, recoveries, crashes>>
  BY DEF Enqueue, Unmoved, servers, memory
<1>2. todo' = todo \ {i}
  OBVIOUS
<1>3. /\ QueueInv' /\ queue' \in Seq(Turns) /\ fate' \in [Turns -> Fates]
      /\ \A t \in Turns : t # i => fate'[t] = fate[t]
      /\ fate'[i] = "queued"
      /\ \A t \in Turns : fate[t] \notin Unbegun => fate'[t] \notin Unbegun
  BY Joins DEF Enqueue, IInv
<1>4. HostTypes' /\ AskTypes' /\ LateStartupIsDisposed'
  BY <1>1 DEF IInv, HostTypes, AskTypes, LateStartupIsDisposed
<1>5. TurnTypes'
  BY <1>1, <1>3 DEF IInv, TurnTypes
<1>6. QueueInv'
  BY <1>3
<1>7. PickInv'
  BY DEF IInv, PickInv, AskTypes, AskTables
<1>8. CASE MustInterrupt /\ current \in Messages /\ ~interrupting
  <2>1. UNCHANGED <<worker>>
    BY <1>8 DEF Enqueue
  <2>2. /\ interrupting' = TRUE /\ source' = None /\ current \in Turns
        /\ stopped' = stopped \cup {<<current, "yielded">>}
    BY <1>8 DEF Enqueue
  <2>3. /\ HandlerTypes' /\ handlers'[i].at = "interrupt" /\ handlers'[i].next = "wake"
        /\ \A j \in Inputs : j # i => handlers'[j] = handlers[j]
    BY <1>8, Interrupts DEF Enqueue, IInv
  <2>4. WorkerTypes'
    BY <1>1, <2>1, <2>2 DEF IInv, WorkerTypes, WorkerRows
  <2>5. HandlerTypes'
    BY <2>3
  <2>6. HistoryTypes'
    BY <1>1, <2>1, <2>2 DEF IInv, HistoryTypes
  <2>7. WorkerInv'
    BY <1>1, <2>1 DEF IInv, WorkerInv, WorkerTypes
  <2>8. ArrivalInv'
    BY <1>3, <1>8, <2>1, <2>3 DEF IInv, ArrivalInv, TurnTypes
  <2>9. BegunInv'
    BY <1>1, <1>3, <1>8, <2>1 DEF IInv, BegunInv, TurnTypes
  <2>10. StoppedInv'
    BY <1>1, <1>3, <1>8, <2>1, <2>2 DEF IInv, StoppedInv, TurnTypes, BegunInv
  <2>11. AskInv'
    BY <1>1, <2>1, <2>2 DEF IInv, AskInv, AskTypes, AskTables
  <2>12. ClientInv'
    BY <1>1, <2>1, <2>3 DEF IInv, ClientInv
  <2>13. NoOrphanHost'
    BY <1>1, <2>1 DEF IInv, NoOrphanHost
  <2>14. SourceIsCurrent'
    BY <2>2 DEF IInv, SourceIsCurrent
  <2>15. StoppedTurnsAreSilent'
    BY <1>1, <2>1, <2>2 DEF IInv, StoppedTurnsAreSilent, WorkerInv
  <2> QED  BY <1>4, <1>5, <1>6, <1>7, <2>4, <2>5, <2>6, <2>7, <2>8, <2>9, <2>10, <2>11, <2>12,
              <2>13, <2>14, <2>15
              DEF IInv
<1>9. CASE ~(MustInterrupt /\ current \in Messages /\ ~interrupting)
  <2>1. UNCHANGED <<interrupting, source, stopped>>
    BY <1>9 DEF Enqueue
  <2>2. /\ worker' \in WorkerRows
        /\ \/ worker' = worker
           \/ worker.at = "off" /\ worker'.at = "loop" /\ worker'.turn = None /\ worker'.host = 0
    BY <1>9, Wakes DEF Enqueue, IInv
  <2>3. /\ HandlerTypes' /\ handlers'[i].at = "absent"
        /\ \A j \in Inputs : j # i => handlers'[j] = handlers[j]
    BY <1>9, Returns DEF Enqueue, IInv
  <2>4. WorkerTypes'
    BY <1>1, <2>1, <2>2 DEF IInv, WorkerTypes, WorkerRows
  <2>5. HandlerTypes'
    BY <2>3
  <2>6. HistoryTypes'
    BY <1>1, <2>1 DEF IInv, HistoryTypes
  <2>7. WorkerInv'
    BY <1>1, <2>1, <2>2 DEF IInv, WorkerInv, WorkerTypes
  <2>8. ArrivalInv'
    BY <1>3, <1>9, <2>1, <2>3 DEF IInv, ArrivalInv, TurnTypes
  <2>9. BegunInv'
    BY <1>1, <1>3, <1>9, <2>1, <2>2 DEF IInv, BegunInv, TurnTypes
  <2>10. StoppedInv'
    BY <1>1, <1>3, <1>9, <2>1 DEF IInv, StoppedInv, TurnTypes, BegunInv
  <2>11. AskInv'
    BY <1>1, <2>1, <2>2 DEF IInv, AskInv, AskTypes, AskTables
  <2>12. ClientInv'
    BY <1>1, <2>1, <2>2, <2>3 DEF IInv, ClientInv
  <2>13. NoOrphanHost'
    BY <1>1, <2>1, <2>2 DEF IInv, NoOrphanHost
  <2>14. SourceIsCurrent'
    BY <1>1, <2>1, <2>2 DEF IInv, SourceIsCurrent
  <2>15. StoppedTurnsAreSilent'
    BY <1>1, <2>1, <2>2 DEF IInv, StoppedTurnsAreSilent, WorkerInv
  <2> QED  BY <1>4, <1>5, <1>6, <1>7, <2>4, <2>5, <2>6, <2>7, <2>8, <2>9, <2>10, <2>11, <2>12,
              <2>13, <2>14, <2>15
              DEF IInv
<1> QED  BY <1>8, <1>9

LEMMA MessageStep == ASSUME IInv, NEW i \in Inputs, Message(i) PROVE IInv'
<1>1. i \in Messages /\ fate[i] = "absent" /\ todo' = todo \ {i}
  BY DEF Message, Arrives, IInv, ArrivalInv
<1> QED  BY <1>1, EnqueueStep DEF Message

LEMMA BackgroundStep == ASSUME IInv, NEW i \in Inputs, Background(i) PROVE IInv'
<1>1. UNCHANGED <<pendingContext, current, turnActive, interrupting, client, connecting, hosts,
                  capture, resume, saved, source, handlers, asks, pending, lock, stopped, doomed,
                  left, unwritten, recoveries, crashes>>
  BY DEF Background, Unmoved, servers, memory
<1>2. /\ i \in Inputs /\ i \in todo /\ todo' = todo \ {i}
      /\ handlers[i].at = "absent"
  BY DEF Background, Arrives, IInv, ArrivalInv
<1>3. i \in Turns /\ fate[i] = "absent"
  BY DEF Background, Arrives, IInv, ArrivalInv
<1>4. /\ QueueInv' /\ queue' \in Seq(Turns) /\ fate' \in [Turns -> Fates]
      /\ \A t \in Turns : t # i => fate'[t] = fate[t]
      /\ fate'[i] = "queued"
      /\ \A t \in Turns : fate[t] \notin Unbegun => fate'[t] \notin Unbegun
  BY <1>1, <1>2, <1>3, Joins DEF Background, IInv
<1>5. /\ worker' \in WorkerRows
      /\ \/ worker' = worker
         \/ worker.at = "off" /\ worker'.at = "loop" /\ worker'.turn = None /\ worker'.host = 0
  BY Wakes DEF Background, IInv
<1>6. HostTypes' /\ HandlerTypes' /\ AskTypes' /\ HistoryTypes' /\ LateStartupIsDisposed'
  BY <1>1 DEF IInv, HostTypes, HandlerTypes, AskTypes, HistoryTypes, LateStartupIsDisposed
<1>7. TurnTypes'
  BY <1>1, <1>2, <1>3, <1>4 DEF IInv, TurnTypes
<1>8. WorkerTypes'
  BY <1>1, <1>5 DEF IInv, WorkerTypes, WorkerRows
<1>9. WorkerInv'
  BY <1>1, <1>5 DEF IInv, WorkerInv, WorkerTypes
<1>10. QueueInv'
  BY <1>4
<1>11. ArrivalInv'
  BY <1>1, <1>2, <1>3, <1>4 DEF IInv, ArrivalInv, TurnTypes
<1>12. PickInv'
  BY <1>1, <1>2 DEF IInv, PickInv, AskTypes, AskTables
<1>13. BegunInv'
  BY <1>1, <1>4, <1>5 DEF IInv, BegunInv, TurnTypes
<1>14. StoppedInv'
  BY <1>1, <1>3, <1>4 DEF IInv, StoppedInv, TurnTypes, BegunInv
<1>15. AskInv'
  BY <1>1, <1>5 DEF IInv, AskInv, AskTypes, AskTables
<1>16. ClientInv'
  BY <1>1, <1>5 DEF IInv, ClientInv
<1>17. NoOrphanHost'
  BY <1>1, <1>5 DEF IInv, NoOrphanHost
<1>18. SourceIsCurrent'
  BY <1>1, <1>5 DEF IInv, SourceIsCurrent
<1>19. StoppedTurnsAreSilent'
  BY <1>1, <1>5 DEF IInv, StoppedTurnsAreSilent, WorkerInv
<1> QED  BY <1>6, <1>7, <1>8, <1>9, <1>10, <1>11, <1>12, <1>13, <1>14, <1>15, <1>16, <1>17, <1>18,
            <1>19
            DEF IInv

LEMMA StopStep == ASSUME IInv, NEW i \in Inputs, Stop(i) PROVE IInv'
<1>1. UNCHANGED <<pendingContext, worker, current, turnActive, client, connecting, hosts, capture,
                  resume, saved, lock, left, unwritten, recoveries, crashes>>
  BY DEF Stop, Unmoved, servers, memory
<1>2. /\ i \in Inputs /\ i \in todo /\ todo' = todo \ {i}
      /\ handlers[i].at = "absent"
  BY DEF Stop, Arrives, IInv, ArrivalInv
<1>3. i \notin Turns
  BY DEF Stop
<1>4. /\ source' = None /\ pending' = None /\ interrupting' \in BOOLEAN
      /\ interrupting \/ current # None => interrupting'
      /\ stopped' \subseteq Turns \X {"told", "yielded"}
      /\ \A t \in Turns, how \in {"told", "yielded"} :
           <<t, how>> \in stopped' => <<t, how>> \in stopped \/ t = current
  BY Halts DEF Stop
<1>5. Silenced(asks')
  BY Silences DEF Stop
<1>6. Members(queue) \subseteq Turns
  BY DEF Members, IInv, TurnTypes
<1>7. doomed' \subseteq Turns
  BY <1>5, <1>6 DEF Stop, IInv, HistoryTypes
<1>8. HostTypes' /\ WorkerInv' /\ NoOrphanHost' /\ LateStartupIsDisposed'
  BY <1>1 DEF IInv, HostTypes, WorkerInv, NoOrphanHost, LateStartupIsDisposed
<1>9. WorkerTypes'
  BY <1>1, <1>4, <1>6 DEF IInv, WorkerTypes, WorkerRows
<1>10. AskTypes'
  BY <1>1, <1>4, <1>5, <1>6, SilencedAsks DEF IInv, AskTypes
<1>11. HistoryTypes'
  BY <1>1, <1>4, <1>6, <1>7 DEF IInv, HistoryTypes
<1>12. PickInv'
  BY <1>2, <1>3, <1>5, <1>6 DEF IInv, PickInv, Silenced
<1>13. AskInv'
  BY <1>1, <1>4, <1>5, <1>6, SilencedAsks DEF IInv, AskTypes
<1>14. SourceIsCurrent'
  BY <1>4 DEF IInv, SourceIsCurrent
<1>15. StoppedTurnsAreSilent'
  BY <1>1, <1>4, <1>6 DEF IInv, StoppedTurnsAreSilent, WorkerInv
<1>16. CASE MustInterrupt
  <2>1. UNCHANGED <<queue, fate>>
    BY <1>16 DEF Stop
  <2>2. /\ HandlerTypes' /\ handlers'[i].at = "interrupt" /\ handlers'[i].next = "drop"
        /\ \A j \in Inputs : j # i => handlers'[j] = handlers[j]
    BY <1>16, Interrupts DEF Stop, IInv
  <2>3. TurnTypes'
    BY <1>1, <1>2, <1>3, <1>6, <1>16, <2>1 DEF IInv, TurnTypes
  <2>4. HandlerTypes'
    BY <2>1, <2>2
  <2>5. QueueInv'
    BY <1>16, <2>1 DEF IInv, QueueInv
  <2>6. ArrivalInv'
    BY <1>2, <1>3, <1>6, <1>16, <2>1, <2>2 DEF IInv, ArrivalInv, TurnTypes
  <2>7. BegunInv'
    BY <1>1, <1>6, <1>16, <2>1 DEF IInv, BegunInv, TurnTypes
  <2>8. StoppedInv'
    BY <1>1, <1>4, <1>6, <1>16, <2>1, StaysStopped DEF IInv
  <2>9. ClientInv'
    BY <1>1, <1>16, <2>1, <2>2 DEF IInv, ClientInv
  <2> QED  BY <1>8, <1>9, <1>10, <1>11, <1>12, <1>13, <1>14, <1>15, <2>3, <2>4, <2>5, <2>6, <2>7,
              <2>8, <2>9
              DEF IInv
<1>17. CASE ~MustInterrupt
  <2>1. UNCHANGED <<handlers>>
    BY <1>17 DEF Stop
  <2>2. /\ QueueInv' /\ queue' \in Seq(Turns) /\ fate' \in [Turns -> Fates]
        /\ \A t \in Turns : fate'[t] = fate[t] \/ (fate[t] = "queued" /\ fate'[t] = "dropped")
        /\ \A t \in Turns : fate[t] \notin Unbegun => fate'[t] \notin Unbegun
    BY <1>17, Drops DEF Stop, IInv
  <2>3. TurnTypes'
    BY <1>1, <1>2, <1>3, <1>6, <1>17, <2>1, <2>2 DEF IInv, TurnTypes
  <2>4. HandlerTypes'
    BY <1>17, <2>1 DEF IInv, HandlerTypes
  <2>5. QueueInv'
    BY <2>1, <2>2
  <2>6. ArrivalInv'
    BY <1>2, <1>3, <1>6, <1>17, <2>1, <2>2 DEF IInv, ArrivalInv, TurnTypes
  <2>7. BegunInv'
    BY <1>1, <1>17, <2>1, <2>2 DEF IInv, BegunInv, TurnTypes
  <2>8. StoppedInv'
    BY <1>1, <1>4, <1>6, <1>17, <2>1, <2>2, StaysStopped DEF IInv
  <2>9. ClientInv'
    BY <1>1, <1>6, <1>17, <2>1 DEF IInv, ClientInv
  <2> QED  BY <1>8, <1>9, <1>10, <1>11, <1>12, <1>13, <1>14, <1>15, <2>3, <2>4, <2>5, <2>6, <2>7,
              <2>8, <2>9
              DEF IInv
<1> QED  BY <1>16, <1>17

LEMMA ResetStep == ASSUME IInv, NEW i \in Inputs, Reset(i) PROVE IInv'
<1>1. UNCHANGED <<worker, current, turnActive, capture, lock, unwritten, recoveries, crashes>>
  BY DEF Reset
<1>2. /\ i \in Inputs /\ i \in todo /\ todo' = todo \ {i}
      /\ handlers[i].at = "absent"
  BY DEF Reset, Arrives, IInv, ArrivalInv
<1>3. i \notin Turns
  BY DEF Reset
<1>4. /\ source' = None /\ pending' = None /\ interrupting' \in BOOLEAN
      /\ interrupting \/ current # None => interrupting'
      /\ stopped' \subseteq Turns \X {"told", "yielded"}
      /\ \A t \in Turns, how \in {"told", "yielded"} :
           <<t, how>> \in stopped' => <<t, how>> \in stopped \/ t = current
  BY Halts DEF Reset
<1>5. Silenced(asks')
  BY Silences DEF Reset, Forget, CloseClients
<1>6. Members(queue) \subseteq Turns
  BY DEF Members, IInv, TurnTypes
<1>7. doomed' \subseteq Turns
  BY <1>5, <1>6 DEF Reset, IInv, HistoryTypes
<1>8. WorkerInv'
  BY <1>1 DEF IInv, WorkerInv
<1>9. WorkerTypes'
  BY <1>1, <1>4, <1>6 DEF IInv, WorkerTypes, WorkerRows
<1>10. AskTypes'
  BY <1>1, <1>4, <1>5, <1>6, SilencedAsks DEF IInv, AskTypes
<1>11. HistoryTypes'
  BY <1>1, <1>4, <1>6, <1>7 DEF IInv, HistoryTypes
<1>12. PickInv'
  BY <1>2, <1>3, <1>5, <1>6 DEF IInv, PickInv, Silenced
<1>13. AskInv'
  BY <1>1, <1>4, <1>5, <1>6, SilencedAsks DEF IInv, AskTypes
<1>14. StoppedTurnsAreSilent'
  BY <1>1, <1>4, <1>6 DEF IInv, StoppedTurnsAreSilent, WorkerInv
<1>15. CASE MustInterrupt
  <2>1. UNCHANGED <<queue, fate, pendingContext, resume, left, client, connecting, hosts, saved>>
    BY <1>15 DEF Reset, turns, servers, memory
  <2>2. /\ HandlerTypes' /\ handlers'[i].at = "interrupt" /\ handlers'[i].next = "drop"
        /\ \A j \in Inputs : j # i => handlers'[j] = handlers[j]
    BY <1>15, Interrupts DEF Reset, IInv
  <2>3. TurnTypes'
    BY <1>2, <1>3, <1>6, <1>15, <2>1 DEF IInv, TurnTypes
  <2>4. HostTypes'
    BY <1>15, <2>1 DEF IInv, HostTypes
  <2>5. HandlerTypes'
    BY <2>1, <2>2
  <2>6. QueueInv'
    BY <1>15, <2>1 DEF IInv, QueueInv
  <2>7. ArrivalInv'
    BY <1>2, <1>3, <1>6, <1>15, <2>1, <2>2 DEF IInv, ArrivalInv, TurnTypes
  <2>8. BegunInv'
    BY <1>1, <1>6, <1>15, <2>1 DEF IInv, BegunInv, TurnTypes
  <2>9. StoppedInv'
    BY <1>1, <1>4, <1>6, <1>15, <2>1, StaysStopped DEF IInv
  <2>10. ClientInv'
    BY <1>1, <1>15, <2>1, <2>2 DEF IInv, ClientInv
  <2>11. NoOrphanHost'
    BY <1>1, <1>6, <1>15, <2>1 DEF IInv, NoOrphanHost
  <2>12. LateStartupIsDisposed'
    BY <1>15, <2>1 DEF IInv, LateStartupIsDisposed, HostTypes, HostTables
  <2>13. SourceIsCurrent'
    BY <1>4, <1>6, <1>15, <2>1 DEF IInv, SourceIsCurrent
  <2> QED  BY <1>8, <1>9, <1>10, <1>11, <1>12, <1>13, <1>14, <2>3, <2>4, <2>5, <2>6, <2>7, <2>8,
              <2>9, <2>10, <2>11, <2>12, <2>13
              DEF IInv
<1>16. CASE ~MustInterrupt /\ Open = 0
  <2>1. /\ QueueInv' /\ queue' \in Seq(Turns) /\ fate' \in [Turns -> Fates]
        /\ \A t \in Turns : fate'[t] = fate[t] \/ (fate[t] = "queued" /\ fate'[t] = "dropped")
        /\ \A t \in Turns : fate[t] \notin Unbegun => fate'[t] \notin Unbegun
    BY <1>16, Drops DEF Reset, IInv
  <2>2. /\ resume' = 0 /\ pendingContext' = {}
        /\ left' \subseteq Threads
    BY <1>16, Conversations DEF Reset, Forget, IInv
  <2>3. /\ Open \in {0} \cup Hosts /\ hosts' \in HostTables /\ client' = 0 /\ connecting' = 0
        /\ Open # 0 => hosts'[Open].life = "closing"
        /\ \A h \in Hosts :
             /\ hosts[h].life \in {"closing", "gone"} => hosts'[h].life \in {"closing", "gone"}
             /\ hosts'[h].life \in {"starting", "up"} => worker.at = "dispose" /\ worker.host = h
    BY <1>16, Closes DEF Reset, Forget, CloseClients
  <2>4. saved' = 0
    BY <1>16 DEF Reset, Forget
  <2>5. /\ HandlerTypes' /\ handlers'[i].at = "absent"
        /\ \A j \in Inputs : j # i => handlers'[j] = handlers[j]
    BY <1>16, Returns DEF Reset, Forget, IInv
  <2>6. TurnTypes'
    BY <1>2, <1>3, <1>6, <1>16, <2>1, <2>2 DEF IInv, TurnTypes
  <2>7. HostTypes'
    BY <2>2, <2>3, <2>4 DEF IInv, HostTypes
  <2>8. HandlerTypes'
    BY <1>16, <2>5
  <2>9. QueueInv'
    BY <1>16, <2>1
  <2>10. ArrivalInv'
    BY <1>2, <1>3, <1>6, <1>16, <2>1, <2>5 DEF IInv, ArrivalInv, TurnTypes
  <2>11. BegunInv'
    BY <1>1, <1>16, <2>1, <2>2 DEF IInv, BegunInv, TurnTypes
  <2>12. StoppedInv'
    BY <1>1, <1>4, <1>6, <1>16, <2>1, StaysStopped DEF IInv
  <2>13. ClientInv'
    BY <2>3, <2>5 DEF IInv, ClientInv, HandlerTypes, HandlerRows
  <2>14. NoOrphanHost'
    BY <1>1, <1>6, <1>16, <2>3 DEF IInv, NoOrphanHost
  <2>15. LateStartupIsDisposed'
    BY <1>16, <2>3 DEF IInv, LateStartupIsDisposed, HostTypes, HostTables
  <2>16. SourceIsCurrent'
    BY <1>4, <1>6, <1>16, <2>3 DEF IInv, SourceIsCurrent
  <2> QED  BY <1>8, <1>9, <1>10, <1>11, <1>12, <1>13, <1>14, <2>6, <2>7, <2>8, <2>9, <2>10, <2>11,
              <2>12, <2>13, <2>14, <2>15, <2>16
              DEF IInv
<1>17. CASE ~MustInterrupt /\ Open # 0
  <2>1. UNCHANGED <<saved>>
    BY <1>17 DEF Reset, Forget
  <2>2. /\ QueueInv' /\ queue' \in Seq(Turns) /\ fate' \in [Turns -> Fates]
        /\ \A t \in Turns : fate'[t] = fate[t] \/ (fate[t] = "queued" /\ fate'[t] = "dropped")
        /\ \A t \in Turns : fate[t] \notin Unbegun => fate'[t] \notin Unbegun
    BY <1>17, Drops DEF Reset, IInv
  <2>3. /\ resume' = 0 /\ pendingContext' = {}
        /\ left' \subseteq Threads
    BY <1>17, Conversations DEF Reset, Forget, IInv
  <2>4. /\ Open \in {0} \cup Hosts /\ hosts' \in HostTables /\ client' = 0 /\ connecting' = 0
        /\ Open # 0 => hosts'[Open].life = "closing"
        /\ \A h \in Hosts :
             /\ hosts[h].life \in {"closing", "gone"} => hosts'[h].life \in {"closing", "gone"}
             /\ hosts'[h].life \in {"starting", "up"} => worker.at = "dispose" /\ worker.host = h
    BY <1>17, Closes DEF Reset, Forget, CloseClients
  <2>5. /\ HandlerTypes' /\ handlers'[i].at = "close" /\ handlers'[i].host = Open
        /\ handlers'[i].next = "clear"
        /\ \A j \in Inputs : j # i => handlers'[j] = handlers[j]
    BY <1>17, ClosesFor DEF Reset, Forget, IInv
  <2>6. TurnTypes'
    BY <1>2, <1>3, <1>6, <1>17, <2>1, <2>2, <2>3 DEF IInv, TurnTypes
  <2>7. HostTypes'
    BY <2>1, <2>3, <2>4 DEF IInv, HostTypes
  <2>8. HandlerTypes'
    BY <2>1, <2>5
  <2>9. QueueInv'
    BY <2>1, <2>2
  <2>10. ArrivalInv'
    BY <1>2, <1>3, <1>6, <1>17, <2>1, <2>2, <2>5 DEF IInv, ArrivalInv, TurnTypes
  <2>11. BegunInv'
    BY <1>1, <1>17, <2>1, <2>2, <2>3 DEF IInv, BegunInv, TurnTypes
  <2>12. StoppedInv'
    BY <1>1, <1>4, <1>6, <1>17, <2>1, <2>2, StaysStopped DEF IInv
  <2>13. ClientInv'
    BY <1>17, <2>1, <2>4, <2>5 DEF IInv, ClientInv, HandlerTypes, HandlerRows
  <2>14. NoOrphanHost'
    BY <1>1, <1>17, <2>1, <2>4 DEF IInv, NoOrphanHost
  <2>15. LateStartupIsDisposed'
    BY <2>1, <2>4 DEF IInv, LateStartupIsDisposed, HostTypes, HostTables
  <2>16. SourceIsCurrent'
    BY <1>4, <1>6, <1>17, <2>1, <2>4 DEF IInv, SourceIsCurrent
  <2> QED  BY <1>8, <1>9, <1>10, <1>11, <1>12, <1>13, <1>14, <2>6, <2>7, <2>8, <2>9, <2>10, <2>11,
              <2>12, <2>13, <2>14, <2>15, <2>16
              DEF IInv
<1> QED  BY <1>15, <1>16, <1>17

LEMMA ResumeStep == ASSUME IInv, NEW i \in Inputs, NEW pick \in Threads, Resume(i, pick) PROVE IInv'
<1>1. UNCHANGED <<queue, fate, pendingContext, worker, current, turnActive, interrupting, client,
                  connecting, hosts, capture, resume, saved, source, handlers, pending, lock,
                  stopped, doomed, left, unwritten, recoveries, crashes>>
  BY DEF Resume, turns, Unmoved, servers, memory
<1>2. /\ i \in Inputs /\ i \in todo /\ todo' = todo \ {i}
      /\ handlers[i].at = "absent"
  BY DEF Resume, Arrives, IInv, ArrivalInv
<1>3. /\ i \in Resumes
      /\ asks' = [asks EXCEPT ![i] = [at |-> "waiting", turn |-> None, pick |-> pick]]
  BY DEF Resume
<1>4. WorkerTypes' /\ HostTypes' /\ HandlerTypes' /\ HistoryTypes' /\ WorkerInv' /\ QueueInv'
      /\ BegunInv' /\ StoppedInv' /\ ClientInv' /\ NoOrphanHost' /\ LateStartupIsDisposed'
      /\ SourceIsCurrent' /\ StoppedTurnsAreSilent'
  BY <1>1
     DEF IInv, WorkerTypes, HostTypes, HandlerTypes, HistoryTypes, WorkerInv, QueueInv, BegunInv,
         StoppedInv, ClientInv, NoOrphanHost, LateStartupIsDisposed, SourceIsCurrent,
         StoppedTurnsAreSilent
<1>5. TurnTypes'
  BY <1>1, <1>2 DEF IInv, TurnTypes
<1>6. AskTypes'
  BY <1>1, <1>3 DEF IInv, AskTypes, AskTables
<1>7. ArrivalInv'
  BY <1>1, <1>2 DEF IInv, ArrivalInv, TurnTypes
<1>8. PickInv'
  BY <1>2, <1>3 DEF IInv, PickInv, AskTypes, AskTables
<1>9. AskInv'
  BY <1>1, <1>3 DEF IInv, AskInv, AskTypes, AskTables
<1> QED  BY <1>4, <1>5, <1>6, <1>7, <1>8, <1>9 DEF IInv

\* The handler of a message that the running turn yields to is done.
LEMMA WakeStep ==
  ASSUME IInv, NEW i \in Inputs, worker' = Woken, handlers' = [handlers EXCEPT ![i] = Absent],
         UNCHANGED <<turns, interrupting, stopped, source, todo, asks, pending, doomed>>, Unmoved
  PROVE  IInv'
<1>1. UNCHANGED <<todo, queue, fate, pendingContext, current, turnActive, interrupting, client,
                  connecting, hosts, capture, resume, saved, source, asks, pending, lock, stopped,
                  doomed, left, unwritten, recoveries, crashes>>
  BY DEF turns, Unmoved, servers, memory
<1>2. /\ worker' \in WorkerRows
      /\ \/ worker' = worker
         \/ worker.at = "off" /\ worker'.at = "loop" /\ worker'.turn = None /\ worker'.host = 0
  BY Wakes DEF IInv
<1>3. /\ HandlerTypes' /\ handlers'[i].at = "absent"
      /\ \A j \in Inputs : j # i => handlers'[j] = handlers[j]
  BY Returns DEF IInv
<1>4. TurnTypes' /\ HostTypes' /\ AskTypes' /\ HistoryTypes' /\ QueueInv' /\ PickInv'
      /\ StoppedInv' /\ LateStartupIsDisposed'
  BY <1>1
     DEF IInv, TurnTypes, HostTypes, AskTypes, HistoryTypes, QueueInv, PickInv, StoppedInv,
         LateStartupIsDisposed
<1>5. WorkerTypes'
  BY <1>1, <1>2 DEF IInv, WorkerTypes, WorkerRows
<1>6. HandlerTypes'
  BY <1>3
<1>7. WorkerInv'
  BY <1>1, <1>2 DEF IInv, WorkerInv, WorkerTypes
<1>8. ArrivalInv'
  BY <1>1, <1>3 DEF IInv, ArrivalInv, TurnTypes
<1>9. BegunInv'
  BY <1>1, <1>2 DEF IInv, BegunInv, TurnTypes
<1>10. AskInv'
  BY <1>1, <1>2 DEF IInv, AskInv, AskTypes, AskTables
<1>11. ClientInv'
  BY <1>1, <1>2, <1>3 DEF IInv, ClientInv
<1>12. NoOrphanHost'
  BY <1>1, <1>2 DEF IInv, NoOrphanHost
<1>13. SourceIsCurrent'
  BY <1>1, <1>2 DEF IInv, SourceIsCurrent
<1>14. StoppedTurnsAreSilent'
  BY <1>1, <1>2 DEF IInv, StoppedTurnsAreSilent, WorkerInv
<1> QED  BY <1>4, <1>5, <1>6, <1>7, <1>8, <1>9, <1>10, <1>11, <1>12, <1>13, <1>14 DEF IInv

LEMMA GoesOnStep == ASSUME IInv, NEW i \in Inputs, GoesOn(i) PROVE IInv'
<1>1. CASE handlers[i].next = "enqueue" /\ Enqueue(i)
  <2>1. i \in Messages /\ fate[i] = "absent" /\ todo' = todo \ {i}
    BY <1>1 DEF GoesOn, IInv, ArrivalInv
  <2> QED  BY <1>1, <2>1, EnqueueStep DEF GoesOn
<1>2. CASE ~(handlers[i].next = "enqueue" /\ Enqueue(i))
  BY <1>2, WakeStep DEF GoesOn
<1> QED  BY <1>1, <1>2

LEMMA AbortsStep == ASSUME IInv, NEW i \in Inputs, Aborts(i) PROVE IInv'
<1>1. UNCHANGED <<todo, worker, current, turnActive, interrupting, capture, lock, stopped, doomed,
                  unwritten, recoveries, crashes>>
  BY DEF Aborts, flags
<1>2. handlers[i].at = "interrupt"
  BY DEF Aborts
<1>3. /\ QueueInv' /\ queue' \in Seq(Turns) /\ fate' \in [Turns -> Fates]
      /\ \A t \in Turns : fate'[t] = fate[t] \/ (fate[t] = "queued" /\ fate'[t] = "dropped")
      /\ \A t \in Turns : fate[t] \notin Unbegun => fate'[t] \notin Unbegun
  BY Drops DEF Aborts, IInv
<1>4. HistoryTypes' /\ WorkerInv' /\ StoppedTurnsAreSilent'
  BY <1>1 DEF IInv, HistoryTypes, WorkerInv, StoppedTurnsAreSilent
<1>5. QueueInv'
  BY <1>3
<1>6. StoppedInv'
  BY <1>1, <1>2, <1>3 DEF IInv, StoppedInv, BegunInv
<1>7. CASE i \notin Resets
  <2>1. UNCHANGED <<asks, source, pending, pendingContext, resume, left, client, connecting, hosts,
                    saved>>
    BY <1>7 DEF Aborts, servers, memory
  <2>2. /\ HandlerTypes' /\ handlers'[i].at = "absent"
        /\ \A j \in Inputs : j # i => handlers'[j] = handlers[j]
    BY <1>7, Returns DEF Aborts, IInv
  <2>3. TurnTypes'
    BY <1>1, <1>3, <1>7, <2>1 DEF IInv, TurnTypes
  <2>4. WorkerTypes'
    BY <1>1, <1>7, <2>1 DEF IInv, WorkerTypes, WorkerRows
  <2>5. HostTypes'
    BY <2>1 DEF IInv, HostTypes
  <2>6. HandlerTypes'
    BY <2>1, <2>2
  <2>7. AskTypes'
    BY <1>1, <1>7, <2>1 DEF IInv, AskTypes
  <2>8. ArrivalInv'
    BY <1>1, <1>3, <1>7, <2>1, <2>2 DEF IInv, ArrivalInv, TurnTypes
  <2>9. PickInv'
    BY <1>1, <1>7, <2>1 DEF IInv, PickInv, AskTypes, AskTables
  <2>10. BegunInv'
    BY <1>1, <1>3, <1>7, <2>1 DEF IInv, BegunInv, TurnTypes
  <2>11. AskInv'
    BY <1>1, <1>7, <2>1 DEF IInv, AskInv, AskTypes, AskTables
  <2>12. ClientInv'
    BY <1>1, <1>7, <2>1, <2>2 DEF IInv, ClientInv
  <2>13. NoOrphanHost'
    BY <1>1, <1>7, <2>1 DEF IInv, NoOrphanHost
  <2>14. LateStartupIsDisposed'
    BY <2>1 DEF IInv, LateStartupIsDisposed, HostTypes, HostTables
  <2>15. SourceIsCurrent'
    BY <1>1, <1>7, <2>1 DEF IInv, SourceIsCurrent
  <2> QED  BY <1>4, <1>5, <1>6, <2>3, <2>4, <2>5, <2>6, <2>7, <2>8, <2>9, <2>10, <2>11, <2>12,
              <2>13, <2>14, <2>15
              DEF IInv
<1>8. CASE i \in Resets /\ Open = 0
  <2>1. Silenced(asks')
    BY <1>8, Silences DEF Aborts, Forget, CloseClients
  <2>2. source' = None /\ pending' = None
    BY <1>8 DEF Aborts, Forget, CloseClients
  <2>3. /\ resume' = 0 /\ pendingContext' = {}
        /\ left' \subseteq Threads
    BY <1>8, Conversations DEF Aborts, Forget, IInv
  <2>4. /\ Open \in {0} \cup Hosts /\ hosts' \in HostTables /\ client' = 0 /\ connecting' = 0
        /\ Open # 0 => hosts'[Open].life = "closing"
        /\ \A h \in Hosts :
             /\ hosts[h].life \in {"closing", "gone"} => hosts'[h].life \in {"closing", "gone"}
             /\ hosts'[h].life \in {"starting", "up"} => worker.at = "dispose" /\ worker.host = h
    BY <1>8, Closes DEF Aborts, Forget, CloseClients
  <2>5. saved' = 0
    BY <1>8 DEF Aborts, Forget
  <2>6. /\ HandlerTypes' /\ handlers'[i].at = "absent"
        /\ \A j \in Inputs : j # i => handlers'[j] = handlers[j]
    BY <1>8, Returns DEF Aborts, Forget, IInv
  <2>7. TurnTypes'
    BY <1>1, <1>3, <1>8, <2>3 DEF IInv, TurnTypes
  <2>8. WorkerTypes'
    BY <1>1, <1>8, <2>2 DEF IInv, WorkerTypes, WorkerRows
  <2>9. HostTypes'
    BY <2>3, <2>4, <2>5 DEF IInv, HostTypes
  <2>10. HandlerTypes'
    BY <2>6
  <2>11. AskTypes'
    BY <1>1, <2>1, <2>2, SilencedAsks DEF IInv, AskTypes
  <2>12. ArrivalInv'
    BY <1>1, <1>3, <1>8, <2>6 DEF IInv, ArrivalInv, TurnTypes
  <2>13. PickInv'
    BY <1>1, <1>8, <2>1 DEF IInv, PickInv, Silenced
  <2>14. BegunInv'
    BY <1>1, <1>3, <1>8, <2>3 DEF IInv, BegunInv, TurnTypes
  <2>15. AskInv'
    BY <1>1, <2>1, <2>2, SilencedAsks DEF IInv, AskTypes
  <2>16. ClientInv'
    BY <2>4, <2>6 DEF IInv, ClientInv, HandlerTypes, HandlerRows
  <2>17. NoOrphanHost'
    BY <1>1, <1>8, <2>4 DEF IInv, NoOrphanHost
  <2>18. LateStartupIsDisposed'
    BY <2>4 DEF IInv, LateStartupIsDisposed, HostTypes, HostTables
  <2>19. SourceIsCurrent'
    BY <2>2, <2>4 DEF IInv, SourceIsCurrent
  <2> QED  BY <1>4, <1>5, <1>6, <2>7, <2>8, <2>9, <2>10, <2>11, <2>12, <2>13, <2>14, <2>15, <2>16,
              <2>17, <2>18, <2>19
              DEF IInv
<1>9. CASE i \in Resets /\ Open # 0
  <2>1. UNCHANGED <<saved>>
    BY <1>9 DEF Aborts, Forget
  <2>2. Silenced(asks')
    BY <1>9, Silences DEF Aborts, Forget, CloseClients
  <2>3. source' = None /\ pending' = None
    BY <1>9 DEF Aborts, Forget, CloseClients
  <2>4. /\ resume' = 0 /\ pendingContext' = {}
        /\ left' \subseteq Threads
    BY <1>9, Conversations DEF Aborts, Forget, IInv
  <2>5. /\ Open \in {0} \cup Hosts /\ hosts' \in HostTables /\ client' = 0 /\ connecting' = 0
        /\ Open # 0 => hosts'[Open].life = "closing"
        /\ \A h \in Hosts :
             /\ hosts[h].life \in {"closing", "gone"} => hosts'[h].life \in {"closing", "gone"}
             /\ hosts'[h].life \in {"starting", "up"} => worker.at = "dispose" /\ worker.host = h
    BY <1>9, Closes DEF Aborts, Forget, CloseClients
  <2>6. /\ HandlerTypes' /\ handlers'[i].at = "close" /\ handlers'[i].host = Open
        /\ handlers'[i].next = "clear"
        /\ \A j \in Inputs : j # i => handlers'[j] = handlers[j]
    BY <1>9, ClosesFor DEF Aborts, Forget, IInv
  <2>7. TurnTypes'
    BY <1>1, <1>3, <1>9, <2>1, <2>4 DEF IInv, TurnTypes
  <2>8. WorkerTypes'
    BY <1>1, <1>9, <2>1, <2>3 DEF IInv, WorkerTypes, WorkerRows
  <2>9. HostTypes'
    BY <2>1, <2>4, <2>5 DEF IInv, HostTypes
  <2>10. HandlerTypes'
    BY <2>1, <2>6
  <2>11. AskTypes'
    BY <1>1, <2>1, <2>2, <2>3, SilencedAsks DEF IInv, AskTypes
  <2>12. ArrivalInv'
    BY <1>1, <1>2, <1>3, <1>9, <2>1, <2>6 DEF IInv, ArrivalInv, TurnTypes
  <2>13. PickInv'
    BY <1>1, <1>9, <2>1, <2>2 DEF IInv, PickInv, Silenced
  <2>14. BegunInv'
    BY <1>1, <1>3, <1>9, <2>1, <2>4 DEF IInv, BegunInv, TurnTypes
  <2>15. AskInv'
    BY <1>1, <2>1, <2>2, <2>3, SilencedAsks DEF IInv, AskTypes
  <2>16. ClientInv'
    BY <1>9, <2>1, <2>5, <2>6 DEF IInv, ClientInv, HandlerTypes, HandlerRows
  <2>17. NoOrphanHost'
    BY <1>1, <1>9, <2>1, <2>5 DEF IInv, NoOrphanHost
  <2>18. LateStartupIsDisposed'
    BY <2>1, <2>5 DEF IInv, LateStartupIsDisposed, HostTypes, HostTables
  <2>19. SourceIsCurrent'
    BY <2>3, <2>5 DEF IInv, SourceIsCurrent
  <2> QED  BY <1>4, <1>5, <1>6, <2>7, <2>8, <2>9, <2>10, <2>11, <2>12, <2>13, <2>14, <2>15, <2>16,
              <2>17, <2>18, <2>19
              DEF IInv
<1> QED  BY <1>7, <1>8, <1>9

LEMMA InterruptTimesOutStep == ASSUME IInv, NEW i \in Inputs, InterruptTimesOut(i) PROVE IInv'
<1>1. UNCHANGED <<todo, queue, fate, pendingContext, worker, current, turnActive, interrupting,
                  capture, resume, saved, lock, stopped, doomed, left, unwritten, recoveries,
                  crashes>>
  BY DEF InterruptTimesOut, turns, flags, memory, history
<1>2. handlers[i].at = "interrupt"
      /\ handlers[i].next \in {"end", "enqueue", "wake", "drop", "clear", "swap"}
  BY DEF InterruptTimesOut, IInv, HandlerTypes, HandlerRows
<1>3. Silenced(asks')
  BY Silences DEF InterruptTimesOut, CloseClients
<1>4. source' = None /\ pending' = None
  BY DEF InterruptTimesOut, CloseClients
<1>5. /\ Open \in {0} \cup Hosts /\ hosts' \in HostTables /\ client' = 0 /\ connecting' = 0
      /\ Open # 0 => hosts'[Open].life = "closing"
      /\ \A h \in Hosts :
           /\ hosts[h].life \in {"closing", "gone"} => hosts'[h].life \in {"closing", "gone"}
           /\ hosts'[h].life \in {"starting", "up"} => worker.at = "dispose" /\ worker.host = h
  BY Closes DEF InterruptTimesOut, CloseClients
<1>6. TurnTypes' /\ HistoryTypes' /\ WorkerInv' /\ QueueInv' /\ BegunInv' /\ StoppedInv'
      /\ StoppedTurnsAreSilent'
  BY <1>1
     DEF IInv, TurnTypes, HistoryTypes, WorkerInv, QueueInv, BegunInv, StoppedInv,
         StoppedTurnsAreSilent
<1>7. WorkerTypes'
  BY <1>1, <1>4 DEF IInv, WorkerTypes, WorkerRows
<1>8. HostTypes'
  BY <1>1, <1>5 DEF IInv, HostTypes
<1>9. AskTypes'
  BY <1>1, <1>3, <1>4, SilencedAsks DEF IInv, AskTypes
<1>10. PickInv'
  BY <1>1, <1>3 DEF IInv, PickInv, Silenced
<1>11. AskInv'
  BY <1>1, <1>3, <1>4, SilencedAsks DEF IInv, AskTypes
<1>12. NoOrphanHost'
  BY <1>1, <1>5 DEF IInv, NoOrphanHost
<1>13. LateStartupIsDisposed'
  BY <1>5 DEF IInv, LateStartupIsDisposed, HostTypes, HostTables
<1>14. SourceIsCurrent'
  BY <1>4 DEF IInv, SourceIsCurrent
<1>15. CASE Open = 0
  <2>1. /\ HandlerTypes' /\ handlers'[i].at = "interrupt" /\ handlers'[i].next = handlers[i].next
        /\ \A j \in Inputs : j # i => handlers'[j] = handlers[j]
    BY <1>15 DEF InterruptTimesOut, IInv, HandlerTypes, HandlerRows
  <2>2. HandlerTypes'
    BY <2>1
  <2>3. ArrivalInv'
    BY <1>1, <1>2, <1>15, <2>1 DEF IInv, ArrivalInv, TurnTypes
  <2>4. ClientInv'
    BY <1>5, <1>15, <2>1 DEF IInv, ClientInv, HandlerTypes, HandlerRows
  <2> QED  BY <1>6, <1>7, <1>8, <1>9, <1>10, <1>11, <1>12, <1>13, <1>14, <2>2, <2>3, <2>4 DEF IInv
<1>16. CASE Open # 0
  <2>1. /\ HandlerTypes' /\ handlers'[i].at = "close" /\ handlers'[i].host = Open
        /\ handlers'[i].next = handlers[i].next
        /\ \A j \in Inputs : j # i => handlers'[j] = handlers[j]
    BY <1>16, <1>2, <1>3, <1>4, <1>5, ClosesFor DEF InterruptTimesOut, IInv
  <2>2. HandlerTypes'
    BY <2>1
  <2>3. ArrivalInv'
    BY <1>1, <1>2, <1>16, <2>1 DEF IInv, ArrivalInv, TurnTypes
  <2>4. ClientInv'
    BY <1>5, <1>16, <2>1 DEF IInv, ClientInv, HandlerTypes, HandlerRows
  <2> QED  BY <1>6, <1>7, <1>8, <1>9, <1>10, <1>11, <1>12, <1>13, <1>14, <2>2, <2>3, <2>4 DEF IInv
<1> QED  BY <1>15, <1>16

LEMMA DisconnectedStep == ASSUME IInv, NEW i \in Inputs, Disconnected(i) PROVE IInv'
<1>1. UNCHANGED <<todo, queue, fate, pendingContext, worker, current, turnActive, interrupting,
                  client, connecting, capture, source, asks, pending, lock, stopped, doomed,
                  unwritten, recoveries, crashes>>
  BY DEF Disconnected, turns, flags, human
<1>2. /\ handlers[i].at = "close" /\ handlers[i].host \in Hosts
      /\ hosts[handlers[i].host].life \in {"closing", "gone"}
  BY DEF Disconnected, IInv, ClientInv, HandlerTypes, HandlerRows
<1>3. /\ hosts' \in HostTables /\ hosts'[handlers[i].host].life = "gone"
      /\ \A h \in Hosts : h # handlers[i].host => hosts'[h] = hosts[h]
  BY <1>2, EndsHost DEF Disconnected, IInv
<1>4. TurnTypes' /\ WorkerTypes' /\ AskTypes' /\ HistoryTypes' /\ WorkerInv' /\ QueueInv'
      /\ PickInv' /\ BegunInv' /\ StoppedInv' /\ AskInv' /\ SourceIsCurrent'
      /\ StoppedTurnsAreSilent'
  BY <1>1
     DEF IInv, TurnTypes, WorkerTypes, AskTypes, HistoryTypes, WorkerInv, QueueInv, PickInv,
         BegunInv, StoppedInv, AskInv, SourceIsCurrent, StoppedTurnsAreSilent
<1>5. NoOrphanHost'
  BY <1>1, <1>3 DEF IInv, NoOrphanHost
<1>6. LateStartupIsDisposed'
  BY <1>1, <1>2, <1>3 DEF IInv, LateStartupIsDisposed, HostTypes, HostTables
<1>7. CASE handlers[i].next \notin {"clear", "swap"}
  <2>1. UNCHANGED <<saved, resume, left>>
    BY <1>7 DEF Disconnected, memory
  <2>2. /\ HandlerTypes' /\ handlers'[i].at = "interrupt" /\ handlers'[i].next = handlers[i].next
        /\ \A j \in Inputs : j # i => handlers'[j] = handlers[j]
    BY <1>7 DEF Disconnected, IInv, HandlerTypes, HandlerRows
  <2>3. HostTypes'
    BY <1>1, <1>3, <1>7, <2>1 DEF IInv, HostTypes
  <2>4. HandlerTypes'
    BY <2>1, <2>2
  <2>5. ArrivalInv'
    BY <1>1, <1>2, <1>7, <2>1, <2>2 DEF IInv, ArrivalInv, TurnTypes
  <2>6. ClientInv'
    BY <1>1, <1>2, <1>3, <1>7, <2>1, <2>2
       DEF IInv, ClientInv, WorkerTypes, WorkerRows, HandlerTypes, HandlerRows
  <2> QED  BY <1>4, <1>5, <1>6, <2>3, <2>4, <2>5, <2>6 DEF IInv
<1>8. CASE handlers[i].next = "clear"
  <2>1. UNCHANGED <<resume, left>>
    BY <1>8 DEF Disconnected
  <2>2. /\ HandlerTypes' /\ handlers'[i].at = "absent"
        /\ \A j \in Inputs : j # i => handlers'[j] = handlers[j]
    BY <1>8, Returns DEF Disconnected, IInv
  <2>3. saved' = 0
    BY <1>8 DEF Disconnected
  <2>4. HostTypes'
    BY <1>1, <1>3, <1>8, <2>1, <2>3 DEF IInv, HostTypes
  <2>5. HandlerTypes'
    BY <2>1, <2>2
  <2>6. ArrivalInv'
    BY <1>1, <1>8, <2>1, <2>2 DEF IInv, ArrivalInv, TurnTypes
  <2>7. ClientInv'
    BY <1>1, <1>2, <1>3, <1>8, <2>1, <2>2
       DEF IInv, ClientInv, WorkerTypes, WorkerRows, HandlerTypes, HandlerRows
  <2> QED  BY <1>4, <1>5, <1>6, <2>4, <2>5, <2>6, <2>7 DEF IInv
<1>9. CASE handlers[i].next = "swap"
  <2>1. /\ HandlerTypes' /\ handlers'[i].at = "absent"
        /\ \A j \in Inputs : j # i => handlers'[j] = handlers[j]
    BY <1>9, Returns DEF Disconnected, IInv
  <2>2. i \in Resumes
    BY <1>9, <1>2 DEF IInv, ArrivalInv
  <2>3. resume' \in {0} \cup Threads /\ saved' \in {0} \cup Threads
    BY <1>9, <1>3, <2>1, <2>2 DEF Disconnected, Swap, IInv, AskTypes, AskTables
  <2>4. left' \subseteq Threads
    BY Conversations DEF Disconnected, Swap, IInv
  <2>5. HostTypes'
    BY <1>1, <1>3, <1>9, <2>2, <2>3, <2>4 DEF IInv, HostTypes
  <2>6. HandlerTypes'
    BY <2>1, <2>2
  <2>7. ArrivalInv'
    BY <1>1, <1>9, <2>1, <2>2 DEF IInv, ArrivalInv, TurnTypes
  <2>8. ClientInv'
    BY <1>1, <1>2, <1>3, <1>9, <2>1, <2>2
       DEF IInv, ClientInv, WorkerTypes, WorkerRows, HandlerTypes, HandlerRows
  <2> QED  BY <1>4, <1>5, <1>6, <2>5, <2>6, <2>7, <2>8 DEF IInv
<1> QED  BY <1>7, <1>8, <1>9

LEMMA AskStep == ASSUME IInv, NEW q \in Questions, Ask(q) PROVE IInv'
<1>1. UNCHANGED <<todo, queue, fate, pendingContext, worker, current, turnActive, interrupting,
                  client, connecting, hosts, capture, resume, saved, source, handlers, pending,
                  lock, stopped, doomed, left, unwritten, recoveries, crashes>>
  BY DEF Ask, Others, Serving, turns, servers, memory, flags, history
<1>2. /\ worker.at = "running" /\ worker.turn = current /\ worker.turn \in Turns
      /\ asks[q].at = "absent" /\ q \in Asks
  BY DEF Ask, IInv, WorkerInv, WorkerTypes, WorkerRows
<1>3. asks' = [asks EXCEPT ![q] = [at |-> "waiting", turn |-> current, pick |-> 0]]
  BY <1>2 DEF Ask
<1>4. TurnTypes' /\ WorkerTypes' /\ HostTypes' /\ HandlerTypes' /\ HistoryTypes' /\ WorkerInv'
      /\ QueueInv' /\ ArrivalInv' /\ BegunInv' /\ StoppedInv' /\ ClientInv' /\ NoOrphanHost'
      /\ LateStartupIsDisposed' /\ SourceIsCurrent' /\ StoppedTurnsAreSilent'
  BY <1>1
     DEF IInv, TurnTypes, WorkerTypes, HostTypes, HandlerTypes, HistoryTypes, WorkerInv, QueueInv,
         ArrivalInv, BegunInv, StoppedInv, ClientInv, NoOrphanHost, LateStartupIsDisposed,
         SourceIsCurrent, StoppedTurnsAreSilent
<1>5. AskTypes'
  BY <1>1, <1>2, <1>3 DEF IInv, AskTypes, AskTables
<1>6. PickInv'
  BY <1>1, <1>3 DEF IInv, PickInv, AskTypes, AskTables
<1>7. AskInv'
  BY <1>1, <1>2, <1>3 DEF IInv, AskInv, AskTypes, AskTables
<1> QED  BY <1>4, <1>5, <1>6, <1>7 DEF IInv

LEMMA OpensStep == ASSUME IInv, NEW q \in Asks, Opens(q) PROVE IInv'
<1>1. UNCHANGED <<todo, queue, fate, pendingContext, worker, current, turnActive, interrupting,
                  client, connecting, hosts, capture, resume, saved, source, handlers, stopped,
                  doomed, left, unwritten, recoveries, crashes>>
  BY DEF Opens, Others, Serving, turns, servers, memory, flags, history
<1>2. asks[q].at \in {"waiting", "stale"} /\ lock = None
  BY DEF Opens
<1>3. \A r \in Asks : asks[r].at \notin Displayed
  BY <1>2 DEF IInv, AskInv
<1>4. TurnTypes' /\ WorkerTypes' /\ HostTypes' /\ HandlerTypes' /\ HistoryTypes' /\ WorkerInv'
      /\ QueueInv' /\ ArrivalInv' /\ BegunInv' /\ StoppedInv' /\ ClientInv' /\ NoOrphanHost'
      /\ LateStartupIsDisposed' /\ SourceIsCurrent' /\ StoppedTurnsAreSilent'
  BY <1>1
     DEF IInv, TurnTypes, WorkerTypes, HostTypes, HandlerTypes, HistoryTypes, WorkerInv, QueueInv,
         ArrivalInv, BegunInv, StoppedInv, ClientInv, NoOrphanHost, LateStartupIsDisposed,
         SourceIsCurrent, StoppedTurnsAreSilent
<1>5. CASE Presentable(q)
  <2>1. asks' = [asks EXCEPT ![q].at = "sending"] /\ pending' = q /\ lock' = q
    BY <1>5 DEF Opens
  <2>2. asks[q].at = "waiting" /\ ~interrupting
    BY <1>5 DEF Presentable
  <2>3. q \in Questions => current \in Turns /\ <<current, "told">> \notin stopped
    BY <1>1, <1>2, <1>3, <1>5, <2>1, <2>2
       DEF IInv, AskInv, StoppedInv, WorkerInv, WorkerTypes, WorkerRows
  <2>4. AskTypes'
    BY <2>1, <2>2, <2>3 DEF IInv, AskTypes, AskTables
  <2>5. PickInv'
    BY <1>1, <1>5, <2>1, <2>2, <2>3 DEF IInv, PickInv, AskTypes, AskTables
  <2>6. AskInv'
    BY <1>1, <1>3, <1>5, <2>1, <2>2, <2>3 DEF IInv, AskInv, AskTypes, AskTables
  <2> QED  BY <1>4, <2>4, <2>5, <2>6 DEF IInv
<1>6. CASE ~Presentable(q)
  <2>1. asks' = [asks EXCEPT ![q].at = "over"] /\ pending' = pending /\ lock' = lock
    BY <1>6 DEF Opens
  <2>2. AskTypes'
    BY <1>6, <2>1 DEF IInv, AskTypes, AskTables
  <2>3. PickInv'
    BY <1>1, <1>2, <1>3, <1>6, <2>1 DEF IInv, PickInv, AskTypes, AskTables
  <2>4. AskInv'
    BY <1>1, <1>3, <1>6, <2>1 DEF IInv, AskInv, AskTypes, AskTables
  <2> QED  BY <1>4, <2>2, <2>3, <2>4 DEF IInv
<1> QED  BY <1>5, <1>6

LEMMA SentStep == ASSUME IInv, NEW q \in Asks, Sent(q) PROVE IInv'
<1>1. UNCHANGED <<todo, queue, fate, pendingContext, worker, current, turnActive, interrupting,
                  client, connecting, hosts, capture, resume, saved, source, handlers, pending,
                  lock, stopped, doomed, left, unwritten, recoveries, crashes>>
  BY DEF Sent, Others, Serving, turns, servers, memory, flags, history
<1>2. asks[q].at = "sending" /\ asks' = [asks EXCEPT ![q].at = "shown"]
  BY DEF Sent
<1>3. TurnTypes' /\ WorkerTypes' /\ HostTypes' /\ HandlerTypes' /\ HistoryTypes' /\ WorkerInv'
      /\ QueueInv' /\ ArrivalInv' /\ BegunInv' /\ StoppedInv' /\ ClientInv' /\ NoOrphanHost'
      /\ LateStartupIsDisposed' /\ SourceIsCurrent' /\ StoppedTurnsAreSilent'
  BY <1>1
     DEF IInv, TurnTypes, WorkerTypes, HostTypes, HandlerTypes, HistoryTypes, WorkerInv, QueueInv,
         ArrivalInv, BegunInv, StoppedInv, ClientInv, NoOrphanHost, LateStartupIsDisposed,
         SourceIsCurrent, StoppedTurnsAreSilent
<1>4. AskTypes'
  BY <1>1, <1>2 DEF IInv, AskTypes, AskTables
<1>5. PickInv'
  BY <1>1, <1>2 DEF IInv, PickInv, AskTypes, AskTables
<1>6. AskInv'
  BY <1>1, <1>2 DEF IInv, AskInv, AskTypes, AskTables
<1> QED  BY <1>3, <1>4, <1>5, <1>6 DEF IInv

\* A question that is over gives the lock to the next.
LEMMA ReleasesStep ==
  ASSUME IInv, NEW q \in Asks, asks[q].at \notin {"waiting", "absent"},
         asks' = [asks EXCEPT ![q].at = "over"], Released(q),
         UNCHANGED Others, UNCHANGED Serving
  PROVE  IInv'
<1>1. UNCHANGED <<todo, queue, fate, pendingContext, worker, current, turnActive, interrupting,
                  client, connecting, hosts, capture, resume, saved, source, handlers, stopped,
                  doomed, left, unwritten, recoveries, crashes>>
  BY DEF Others, Serving, turns, servers, memory, flags, history
<1>2. asks[q].at \notin {"waiting", "absent"}
  OBVIOUS
<1>3. /\ asks' = [asks EXCEPT ![q].at = "over"]
      /\ pending' \in {pending, None} /\ (pending # q => pending' = pending)
      /\ lock' \in {lock, None} /\ (lock # q => lock' = lock)
  BY DEF Released
<1>4. TurnTypes' /\ WorkerTypes' /\ HostTypes' /\ HandlerTypes' /\ HistoryTypes' /\ WorkerInv'
      /\ QueueInv' /\ ArrivalInv' /\ BegunInv' /\ StoppedInv' /\ ClientInv' /\ NoOrphanHost'
      /\ LateStartupIsDisposed' /\ SourceIsCurrent' /\ StoppedTurnsAreSilent'
  BY <1>1
     DEF IInv, TurnTypes, WorkerTypes, HostTypes, HandlerTypes, HistoryTypes, WorkerInv, QueueInv,
         ArrivalInv, BegunInv, StoppedInv, ClientInv, NoOrphanHost, LateStartupIsDisposed,
         SourceIsCurrent, StoppedTurnsAreSilent
<1>5. AskTypes'
  BY <1>3 DEF IInv, AskTypes, AskTables
<1>6. PickInv'
  BY <1>1 DEF IInv, PickInv, AskTypes, AskTables
<1>7. AskInv'
  BY <1>1, <1>3 DEF IInv, AskInv, AskTypes, AskTables
<1> QED  BY <1>4, <1>5, <1>6, <1>7 DEF IInv

LEMMA UnansweredStep == ASSUME IInv, NEW q \in Asks, Unanswered(q) PROVE IInv'
BY ReleasesStep DEF Unanswered

LEMMA AskReturnsStep == ASSUME IInv, NEW q \in Asks, AskReturns(q) PROVE IInv'
BY ReleasesStep DEF AskReturns

LEMMA PickReturnsStep == ASSUME IInv, NEW p \in Asks, PickReturns(p) PROVE IInv'
<1>1. UNCHANGED <<todo, queue, fate, pendingContext, worker, current, turnActive, interrupting,
                  capture, stopped, doomed, unwritten, recoveries, crashes>>
  BY DEF PickReturns, turns, flags
<1>2. p \in Resumes /\ p \notin todo
  BY DEF PickReturns, IInv, PickInv
<1>3. Silenced(asks')
  BY Silences DEF PickReturns, Silenced, AskTables
<1>4. source' = None /\ pending' = None /\ lock' \in Asks \cup {None}
  BY DEF PickReturns, IInv, AskTypes
<1>5. /\ Open \in {0} \cup Hosts /\ hosts' \in HostTables /\ client' = 0 /\ connecting' = 0
      /\ Open # 0 => hosts'[Open].life = "closing"
      /\ \A h \in Hosts :
           /\ hosts[h].life \in {"closing", "gone"} => hosts'[h].life \in {"closing", "gone"}
           /\ hosts'[h].life \in {"starting", "up"} => worker.at = "dispose" /\ worker.host = h
  BY Closes DEF PickReturns
<1>6. TurnTypes' /\ HistoryTypes' /\ WorkerInv' /\ QueueInv' /\ BegunInv' /\ StoppedInv'
      /\ StoppedTurnsAreSilent'
  BY <1>1
     DEF IInv, TurnTypes, HistoryTypes, WorkerInv, QueueInv, BegunInv, StoppedInv,
         StoppedTurnsAreSilent
<1>7. WorkerTypes'
  BY <1>1, <1>4 DEF IInv, WorkerTypes, WorkerRows
<1>8. AskTypes'
  BY <1>3, <1>4, SilencedAsks DEF IInv, AskTypes
<1>9. PickInv'
  BY <1>1, <1>3 DEF IInv, PickInv, Silenced
<1>10. AskInv'
  BY <1>3, <1>4, SilencedAsks DEF IInv, AskTypes
<1>11. NoOrphanHost'
  BY <1>1, <1>5 DEF IInv, NoOrphanHost
<1>12. LateStartupIsDisposed'
  BY <1>5 DEF IInv, LateStartupIsDisposed, HostTypes, HostTables
<1>13. SourceIsCurrent'
  BY <1>4 DEF IInv, SourceIsCurrent
<1>14. CASE Open = 0
  <2>1. UNCHANGED <<handlers>>
    BY <1>14 DEF PickReturns
  <2>2. resume' \in {0} \cup Threads /\ saved' \in {0} \cup Threads
    BY <1>14 DEF PickReturns, Swap, IInv, AskTypes, AskTables
  <2>3. left' \subseteq Threads
    BY Conversations DEF PickReturns, Swap, IInv
  <2>4. HostTypes'
    BY <1>5, <1>14, <2>1, <2>2, <2>3 DEF IInv, HostTypes
  <2>5. HandlerTypes'
    BY <2>1 DEF IInv, HandlerTypes
  <2>6. ArrivalInv'
    BY <1>1, <1>14, <2>1 DEF IInv, ArrivalInv, TurnTypes
  <2>7. ClientInv'
    BY <1>5, <1>14, <2>1 DEF IInv, ClientInv, HandlerTypes, HandlerRows
  <2> QED  BY <1>6, <1>7, <1>8, <1>9, <1>10, <1>11, <1>12, <1>13, <2>4, <2>5, <2>6, <2>7 DEF IInv
<1>15. CASE Open # 0
  <2>1. UNCHANGED <<resume, saved, left>>
    BY <1>15 DEF PickReturns, memory
  <2>2. /\ HandlerTypes' /\ handlers'[p].at = "close" /\ handlers'[p].host = Open
        /\ handlers'[p].next = "swap"
        /\ \A j \in Inputs : j # p => handlers'[j] = handlers[j]
    BY <1>15, ClosesFor DEF PickReturns, IInv
  <2>3. HostTypes'
    BY <1>5, <1>15, <2>1 DEF IInv, HostTypes
  <2>4. HandlerTypes'
    BY <2>1, <2>2
  <2>5. ArrivalInv'
    BY <1>1, <1>2, <1>15, <2>1, <2>2 DEF IInv, ArrivalInv, TurnTypes
  <2>6. ClientInv'
    BY <1>5, <1>15, <2>1, <2>2 DEF IInv, ClientInv, HandlerTypes, HandlerRows
  <2> QED  BY <1>6, <1>7, <1>8, <1>9, <1>10, <1>11, <1>12, <1>13, <2>3, <2>4, <2>5, <2>6 DEF IInv
<1> QED  BY <1>14, <1>15

LEMMA RestsStep == ASSUME IInv, Rests PROVE IInv'
<1>1. UNCHANGED <<todo, queue, fate, pendingContext, current, turnActive, interrupting, client,
                  connecting, hosts, capture, resume, saved, source, handlers, asks, pending, lock,
                  stopped, doomed, left, unwritten, recoveries, crashes>>
  BY DEF Rests, Aside, turns, flags, servers, memory, human
<1>2. worker.at = "loop"
  BY DEF Rests
<1>3. worker' \in WorkerRows /\ worker'.at = "off" /\ worker'.turn = None /\ worker'.host = 0
  BY DEF Rests, Idle, WorkerRows
<1>4. TurnTypes' /\ HostTypes' /\ HandlerTypes' /\ AskTypes' /\ HistoryTypes' /\ QueueInv'
      /\ ArrivalInv' /\ PickInv' /\ StoppedInv' /\ LateStartupIsDisposed'
  BY <1>1
     DEF IInv, TurnTypes, HostTypes, HandlerTypes, AskTypes, HistoryTypes, QueueInv, ArrivalInv,
         PickInv, StoppedInv, LateStartupIsDisposed
<1>5. WorkerTypes'
  BY <1>1, <1>3 DEF IInv, WorkerTypes, WorkerRows
<1>6. WorkerInv'
  BY <1>1, <1>2, <1>3 DEF IInv, WorkerInv, WorkerTypes
<1>7. BegunInv'
  BY <1>1, <1>3 DEF IInv, BegunInv, TurnTypes
<1>8. AskInv'
  BY <1>1, <1>2 DEF IInv, AskInv, AskTypes, AskTables
<1>9. ClientInv'
  BY <1>1, <1>2, <1>3 DEF IInv, ClientInv
<1>10. NoOrphanHost'
  BY <1>1, <1>2 DEF IInv, NoOrphanHost
<1>11. SourceIsCurrent'
  BY <1>1, <1>2 DEF IInv, SourceIsCurrent
<1>12. StoppedTurnsAreSilent'
  BY <1>3 DEF IInv, StoppedTurnsAreSilent, WorkerInv
<1> QED  BY <1>4, <1>5, <1>6, <1>7, <1>8, <1>9, <1>10, <1>11, <1>12 DEF IInv

LEMMA ExcusesStep == ASSUME IInv, Excuses PROVE IInv'
<1>1. UNCHANGED <<todo, queue, fate, pendingContext, current, turnActive, interrupting, client,
                  connecting, hosts, capture, resume, saved, source, handlers, asks, pending, lock,
                  stopped, doomed, left, unwritten, recoveries, crashes>>
  BY DEF Excuses, Aside, turns, flags, servers, memory, human
<1>2. worker.at = "excuse"
  BY DEF Excuses
<1>3. worker' \in WorkerRows /\ worker'.at = "loop" /\ worker'.turn = None /\ worker'.host = 0
  BY DEF Excuses, Looping, Idle, WorkerRows
<1>4. TurnTypes' /\ HostTypes' /\ HandlerTypes' /\ AskTypes' /\ HistoryTypes' /\ QueueInv'
      /\ ArrivalInv' /\ PickInv' /\ StoppedInv' /\ LateStartupIsDisposed'
  BY <1>1
     DEF IInv, TurnTypes, HostTypes, HandlerTypes, AskTypes, HistoryTypes, QueueInv, ArrivalInv,
         PickInv, StoppedInv, LateStartupIsDisposed
<1>5. WorkerTypes'
  BY <1>1, <1>3 DEF IInv, WorkerTypes, WorkerRows
<1>6. WorkerInv'
  BY <1>1, <1>2, <1>3 DEF IInv, WorkerInv, WorkerTypes
<1>7. BegunInv'
  BY <1>1, <1>3 DEF IInv, BegunInv, TurnTypes
<1>8. AskInv'
  BY <1>1, <1>2 DEF IInv, AskInv, AskTypes, AskTables
<1>9. ClientInv'
  BY <1>1, <1>2, <1>3 DEF IInv, ClientInv
<1>10. NoOrphanHost'
  BY <1>1, <1>2 DEF IInv, NoOrphanHost
<1>11. SourceIsCurrent'
  BY <1>1, <1>2 DEF IInv, SourceIsCurrent
<1>12. StoppedTurnsAreSilent'
  BY <1>3 DEF IInv, StoppedTurnsAreSilent, WorkerInv
<1> QED  BY <1>4, <1>5, <1>6, <1>7, <1>8, <1>9, <1>10, <1>11, <1>12 DEF IInv

LEMMA RoutesStep == ASSUME IInv, Routes PROVE IInv'
<1>1. UNCHANGED <<todo, queue, pendingContext, turnActive, interrupting, client, connecting, hosts,
                  capture, resume, saved, source, handlers, asks, pending, lock, stopped, doomed,
                  left, unwritten, recoveries, crashes>>
  BY DEF Routes, Aside, servers, memory, human
<1>2. worker.at = "unwind"
  BY DEF Routes
<1>3. current' = None
  BY DEF Routes
<1>4. worker.turn = current /\ current \in Messages \cup Consults /\ fate[current] \notin Unbegun
  BY DEF Routes, IInv, WorkerInv, WorkerTypes, WorkerRows, BegunInv
<1>5. /\ fate' \in [Turns -> Fates]
      /\ \A t \in Turns : fate[t] \in Unbegun => fate'[t] = fate[t]
      /\ \A t \in Turns : fate[t] \notin Unbegun => fate'[t] \notin Unbegun
  BY <1>4 DEF Routes, IInv, TurnTypes
<1>6. HostTypes' /\ HandlerTypes' /\ AskTypes' /\ HistoryTypes' /\ PickInv'
      /\ LateStartupIsDisposed'
  BY <1>1 DEF IInv, HostTypes, HandlerTypes, AskTypes, HistoryTypes, PickInv, LateStartupIsDisposed
<1>7. TurnTypes'
  BY <1>1, <1>4, <1>5 DEF IInv, TurnTypes
<1>8. QueueInv'
  BY <1>1, <1>4, <1>5, StaysQueued DEF IInv
<1>9. ArrivalInv'
  BY <1>1, <1>4, <1>5 DEF IInv, ArrivalInv, TurnTypes
<1>10. StoppedInv'
  BY <1>1, <1>2, <1>3, <1>4, <1>5 DEF IInv, StoppedInv, BegunInv, TurnTypes
<1>11. CASE worker' = Looping
  <2>1. worker' \in WorkerRows /\ worker'.at = "loop" /\ worker'.turn = None /\ worker'.host = 0
    BY <1>11 DEF Looping, Idle, WorkerRows
  <2>2. WorkerTypes'
    BY <1>1, <1>3, <1>4, <1>11, <2>1 DEF IInv, WorkerTypes, WorkerRows
  <2>3. WorkerInv'
    BY <1>1, <1>2, <1>3, <1>4, <1>11, <2>1 DEF IInv, WorkerInv, WorkerTypes
  <2>4. BegunInv'
    BY <1>1, <1>3, <1>4, <1>5, <1>11, <2>1 DEF IInv, BegunInv, TurnTypes
  <2>5. AskInv'
    BY <1>1, <1>2, <1>3, <1>4, <1>11, <2>1 DEF IInv, AskInv, AskTypes, AskTables
  <2>6. ClientInv'
    BY <1>1, <1>2, <1>4, <1>11, <2>1 DEF IInv, ClientInv
  <2>7. NoOrphanHost'
    BY <1>1, <1>2 DEF IInv, NoOrphanHost
  <2>8. SourceIsCurrent'
    BY <1>1, <1>2, <1>3, <1>4, <1>11, <2>1 DEF IInv, SourceIsCurrent
  <2>9. StoppedTurnsAreSilent'
    BY <1>11, <2>1 DEF IInv, StoppedTurnsAreSilent, WorkerInv
  <2> QED  BY <1>6, <1>7, <1>8, <1>9, <1>10, <2>2, <2>3, <2>4, <2>5, <2>6, <2>7, <2>8, <2>9 DEF IInv
<1>12. CASE worker' # Looping
  <2>1. current \in Messages /\ ~interrupting
    BY <1>12, <1>3, <1>4, <1>5 DEF Routes
  <2>2. worker' \in WorkerRows /\ worker'.at \in {"deliver", "excuse"} /\ worker'.turn = current
        /\ worker'.host = 0
    BY <1>4, <1>5, <2>1 DEF Routes, At, WorkerRows
  <2>3. \A how \in {"told", "yielded"} : <<current, how>> \notin stopped
    BY <1>1, <1>2, <1>3, <1>4, <1>5, <1>12, <2>1, <2>2 DEF IInv, StoppedInv
  <2>4. WorkerTypes'
    BY <1>1, <1>3, <1>4, <1>12, <2>1, <2>2, <2>3 DEF IInv, WorkerTypes, WorkerRows
  <2>5. WorkerInv'
    BY <1>1, <1>2, <1>3, <1>4, <1>12, <2>1, <2>2, <2>3 DEF IInv, WorkerInv, WorkerTypes
  <2>6. BegunInv'
    BY <1>1, <1>3, <1>4, <1>5, <1>12, <2>1, <2>2, <2>3 DEF IInv, BegunInv, TurnTypes
  <2>7. AskInv'
    BY <1>1, <1>2, <1>3, <1>4, <1>12, <2>1, <2>2, <2>3 DEF IInv, AskInv, AskTypes, AskTables
  <2>8. ClientInv'
    BY <1>1, <1>2, <1>4, <1>12, <2>1, <2>2, <2>3 DEF IInv, ClientInv
  <2>9. NoOrphanHost'
    BY <1>1, <1>2, <1>4, <1>12, <2>1, <2>2, <2>3 DEF IInv, NoOrphanHost
  <2>10. SourceIsCurrent'
    BY <1>1, <1>2, <1>3, <1>4, <1>12, <2>1, <2>2, <2>3 DEF IInv, SourceIsCurrent
  <2>11. StoppedTurnsAreSilent'
    BY <1>1, <1>12, <2>1, <2>2, <2>3 DEF IInv, StoppedTurnsAreSilent, WorkerInv
  <2> QED  BY <1>6, <1>7, <1>8, <1>9, <1>10, <2>4, <2>5, <2>6, <2>7, <2>8, <2>9, <2>10, <2>11
              DEF IInv
<1> QED  BY <1>11, <1>12

LEMMA DeliversStep == ASSUME IInv, Delivers PROVE IInv'
<1>1. UNCHANGED <<todo, pendingContext, current, turnActive, interrupting, client, connecting,
                  hosts, capture, resume, saved, source, handlers, asks, pending, lock, stopped,
                  doomed, left, unwritten, crashes>>
  BY DEF Delivers, Aside, flags, servers, memory, human
<1>2. /\ worker.at = "deliver" /\ worker.turn \in Messages /\ current = None /\ fate[worker.turn] \notin Unbegun
      /\ \A how \in {"told", "yielded"} : <<worker.turn, how>> \notin stopped
      /\ worker.turn \notin pendingContext
  BY DEF Delivers, IInv, WorkerInv, BegunInv, StoppedTurnsAreSilent, HistoryTypes, TurnTypes
<1>3. worker' \in WorkerRows /\ worker'.at = "loop" /\ worker'.turn = None /\ worker'.host = 0
  BY DEF Delivers, Looping, Idle, WorkerRows
<1>4. HostTypes' /\ HandlerTypes' /\ AskTypes' /\ PickInv' /\ LateStartupIsDisposed'
  BY <1>1 DEF IInv, HostTypes, HandlerTypes, AskTypes, PickInv, LateStartupIsDisposed
<1>5. WorkerTypes'
  BY <1>1, <1>3 DEF IInv, WorkerTypes, WorkerRows
<1>6. WorkerInv'
  BY <1>1, <1>2, <1>3 DEF IInv, WorkerInv, WorkerTypes
<1>7. AskInv'
  BY <1>1, <1>2 DEF IInv, AskInv, AskTypes, AskTables
<1>8. ClientInv'
  BY <1>1, <1>2, <1>3 DEF IInv, ClientInv
<1>9. NoOrphanHost'
  BY <1>1, <1>2 DEF IInv, NoOrphanHost
<1>10. SourceIsCurrent'
  BY <1>1, <1>2 DEF IInv, SourceIsCurrent
<1>11. StoppedTurnsAreSilent'
  BY <1>3 DEF IInv, StoppedTurnsAreSilent, WorkerInv
<1>12. CASE UNCHANGED <<queue, recoveries>>
  <2>1. UNCHANGED <<recoveries, queue>>
    BY <1>12
  <2>2. /\ fate' \in [Turns -> Fates]
        /\ \A t \in Turns : fate[t] \in Unbegun => fate'[t] = fate[t]
        /\ \A t \in Turns : fate[t] \notin Unbegun => fate'[t] \notin Unbegun
    BY <1>2, <1>3, <2>1 DEF Delivers, IInv, TurnTypes
  <2>3. TurnTypes'
    BY <1>1, <1>12, <2>1, <2>2 DEF IInv, TurnTypes
  <2>4. HistoryTypes'
    BY <1>1, <1>12, <2>1 DEF IInv, HistoryTypes
  <2>5. QueueInv'
    BY <2>1, <2>2, StaysQueued DEF IInv
  <2>6. ArrivalInv'
    BY <1>1, <1>12, <2>1, <2>2 DEF IInv, ArrivalInv, TurnTypes
  <2>7. BegunInv'
    BY <1>1, <1>3, <1>12, <2>1, <2>2 DEF IInv, BegunInv, TurnTypes
  <2>8. StoppedInv'
    BY <1>1, <1>2, <1>12, <2>1, <2>2 DEF IInv, StoppedInv, TurnTypes
  <2> QED  BY <1>4, <1>5, <1>6, <1>7, <1>8, <1>9, <1>10, <1>11, <2>3, <2>4, <2>5, <2>6, <2>7, <2>8
              DEF IInv
<1>13. CASE ~UNCHANGED <<queue, recoveries>>
  <2>1. recoveries < MaxRecoveries /\ recoveries' = recoveries + 1
    BY <1>13 DEF Delivers, Granted
  <2>2. queue' = Append(queue, worker.turn) /\ fate' = [fate EXCEPT ![worker.turn] = "queued"]
    BY <1>13 DEF Delivers
  <2>3. /\ QueueInv' /\ queue' \in Seq(Turns) /\ fate' \in [Turns -> Fates]
        /\ \A t \in Turns : t # worker.turn => fate'[t] = fate[t]
    BY <1>1, <1>2, <1>3, <1>13, <2>1, <2>2, Joins DEF IInv
  <2>4. TurnTypes'
    BY <1>1, <1>13, <2>2, <2>3 DEF IInv, TurnTypes
  <2>5. HistoryTypes'
    BY <1>1, <1>13, <2>1 DEF IInv, HistoryTypes
  <2>6. QueueInv'
    BY <2>2, <2>3
  <2>7. ArrivalInv'
    BY <1>1, <1>2, <1>13, <2>2, <2>3 DEF IInv, ArrivalInv, TurnTypes
  <2>8. BegunInv'
    BY <1>1, <1>2, <1>3, <1>13, <2>2, <2>3 DEF IInv, BegunInv, TurnTypes
  <2>9. StoppedInv'
    BY <1>1, <1>2, <1>13, <2>2, <2>3 DEF IInv, StoppedInv, TurnTypes
  <2> QED  BY <1>4, <1>5, <1>6, <1>7, <1>8, <1>9, <1>10, <1>11, <2>4, <2>5, <2>6, <2>7, <2>8, <2>9
              DEF IInv
<1> QED  BY <1>12, <1>13

LEMMA CannotWriteStep == ASSUME IInv, CannotWrite PROVE IInv'
<1>1. UNCHANGED <<todo, pendingContext, turnActive, client, connecting, hosts, capture, resume,
                  saved, source, handlers, asks, pending, lock, stopped, doomed, left, recoveries,
                  crashes>>
  BY DEF CannotWrite, Aside, servers, memory, human
<1>2. worker.at = "loop"
  BY DEF CannotWrite
<1>3. queue # <<>> /\ queue' = Tail(queue) /\ fate' = [fate EXCEPT ![Head(queue)] = "running"]
  BY DEF CannotWrite
<1>4. /\ Head(queue) \in Turns /\ fate[Head(queue)] = "queued"
      /\ \A how \in {"told", "yielded"} : <<Head(queue), how>> \notin stopped
  BY <1>3, Leaves DEF IInv, StoppedInv
<1>5. /\ QueueInv' /\ queue' \in Seq(Turns) /\ fate' \in [Turns -> Fates]
      /\ \A t \in Turns : t # Head(queue) => fate'[t] = fate[t]
      /\ fate'[Head(queue)] = "running"
  BY <1>3, <1>4, Leaves DEF IInv
<1>6. Head(queue) \in Consults
  BY DEF CannotWrite
<1>7. current' = Head(queue) /\ interrupting' = FALSE
  BY DEF CannotWrite
<1>8. unwritten' = unwritten \cup {Head(queue)}
  BY DEF CannotWrite
<1>9. worker' \in WorkerRows /\ worker'.at = "excuse" /\ worker'.turn = Head(queue)
      /\ worker'.host = 0
  BY DEF CannotWrite, At, WorkerRows
<1>10. HostTypes' /\ HandlerTypes' /\ AskTypes' /\ PickInv' /\ LateStartupIsDisposed'
  BY <1>1 DEF IInv, HostTypes, HandlerTypes, AskTypes, PickInv, LateStartupIsDisposed
<1>11. TurnTypes'
  BY <1>1, <1>4, <1>5, <1>6 DEF IInv, TurnTypes
<1>12. WorkerTypes'
  BY <1>1, <1>2, <1>4, <1>6, <1>7, <1>9 DEF IInv, WorkerTypes, WorkerRows
<1>13. HistoryTypes'
  BY <1>1, <1>4, <1>6, <1>8 DEF IInv, HistoryTypes
<1>14. WorkerInv'
  BY <1>1, <1>2, <1>4, <1>6, <1>7, <1>8, <1>9 DEF IInv, WorkerInv, WorkerTypes
<1>15. QueueInv'
  BY <1>5, <1>6
<1>16. ArrivalInv'
  BY <1>1, <1>4, <1>5, <1>6 DEF IInv, ArrivalInv, TurnTypes
<1>17. BegunInv'
  BY <1>1, <1>3, <1>4, <1>5, <1>6, <1>7, <1>9 DEF IInv, BegunInv, TurnTypes
<1>18. StoppedInv'
  BY <1>1, <1>2, <1>3, <1>4, <1>5, <1>6, <1>7
     DEF IInv, StoppedInv, BegunInv, TurnTypes, HistoryTypes
<1>19. AskInv'
  BY <1>1, <1>2, <1>4, <1>6, <1>7, <1>9 DEF IInv, AskInv, AskTypes, AskTables
<1>20. ClientInv'
  BY <1>1, <1>2, <1>4, <1>6, <1>9 DEF IInv, ClientInv
<1>21. NoOrphanHost'
  BY <1>1, <1>2 DEF IInv, NoOrphanHost
<1>22. SourceIsCurrent'
  BY <1>1, <1>2, <1>4, <1>6, <1>7, <1>9 DEF IInv, SourceIsCurrent
<1>23. StoppedTurnsAreSilent'
  BY <1>8, <1>9 DEF IInv, StoppedTurnsAreSilent, WorkerInv
<1> QED  BY <1>10, <1>11, <1>12, <1>13, <1>14, <1>15, <1>16, <1>17, <1>18, <1>19, <1>20, <1>21,
            <1>22, <1>23
            DEF IInv

LEMMA TakesStep == ASSUME IInv, Takes PROVE IInv'
<1>1. UNCHANGED <<todo, capture, saved, source, handlers, asks, pending, lock, stopped, doomed,
                  left, unwritten, recoveries, crashes>>
  BY DEF Takes, Aside, human
<1>2. worker.at = "loop"
  BY DEF Takes
<1>3. queue # <<>> /\ queue' = Tail(queue) /\ fate' = [fate EXCEPT ![Head(queue)] = "running"]
  BY DEF Takes
<1>4. /\ Head(queue) \in Turns /\ fate[Head(queue)] = "queued"
      /\ \A how \in {"told", "yielded"} : <<Head(queue), how>> \notin stopped
  BY <1>3, Leaves DEF IInv, StoppedInv
<1>5. /\ QueueInv' /\ queue' \in Seq(Turns) /\ fate' \in [Turns -> Fates]
      /\ \A t \in Turns : t # Head(queue) => fate'[t] = fate[t]
      /\ fate'[Head(queue)] = "running"
  BY <1>3, <1>4, Leaves DEF IInv
<1>6. turnActive = FALSE
  BY <1>2 DEF IInv, WorkerInv, WorkerTypes
<1>7. /\ Head(queue) \in Notices => current' = current
      /\ Head(queue) \notin Notices => current' = Head(queue)
  BY DEF Takes
<1>8. Head(queue) \in Notices => interrupting' = interrupting
  BY DEF Takes
<1>9. Head(queue) \notin Notices => interrupting' = FALSE
  BY DEF Takes
<1>10. /\ interrupting' \in BOOLEAN
       /\ Head(queue) \in Notices /\ interrupting => interrupting'
  BY <1>1, <1>2, <1>3, <1>4, <1>5, <1>6, <1>7, <1>8, <1>9 DEF IInv, WorkerTypes
<1>11. pendingContext' = pendingContext \cup ({Head(queue)} \cap Notices)
  BY DEF Takes
<1>12. connecting = 0
  BY <1>2, <1>3, <1>4, <1>5, <1>6, <1>7, <1>8, <1>9, <1>10, <1>11 DEF IInv, ClientInv
<1>13. HandlerTypes' /\ AskTypes' /\ HistoryTypes' /\ PickInv'
  BY <1>1 DEF IInv, HandlerTypes, AskTypes, HistoryTypes, PickInv
<1>14. TurnTypes'
  BY <1>1, <1>3, <1>4, <1>5, <1>6, <1>11, <1>12 DEF IInv, TurnTypes
<1>15. QueueInv'
  BY <1>5, <1>6, <1>12
<1>16. ArrivalInv'
  BY <1>1, <1>4, <1>5, <1>6, <1>12 DEF IInv, ArrivalInv, TurnTypes
<1>17. StoppedInv'
  BY <1>1, <1>2, <1>3, <1>4, <1>5, <1>6, <1>7, <1>8, <1>9, <1>10, <1>12
     DEF IInv, StoppedInv, BegunInv, TurnTypes, HistoryTypes
<1>18. CASE client = 0 /\ worker' = At("dispose", Head(queue), 0) /\ connecting' = 0
       /\ hosts' = hosts
  <2>1. worker' \in WorkerRows /\ worker'.at = "dispose" /\ worker'.turn = Head(queue)
        /\ worker'.host = 0
    BY <1>18, <1>3, <1>4, <1>5, <1>6, <1>7, <1>8, <1>9, <1>10, <1>11, <1>12 DEF At, WorkerRows
  <2>2. connecting' = 0 /\ client' = 0 /\ hosts' = hosts
    BY <1>18 DEF Takes
  <2>3. turnActive' = turnActive /\ resume' = resume
    BY <1>18 DEF Takes
  <2>4. WorkerTypes'
    BY <1>1, <1>6, <1>7, <1>8, <1>9, <1>10, <1>12, <1>18, <2>1, <2>3
       DEF IInv, WorkerTypes, WorkerRows
  <2>5. HostTypes'
    BY <1>1, <1>4, <1>6, <1>12, <1>18, <2>2, <2>3 DEF IInv, HostTypes
  <2>6. WorkerInv'
    BY <1>4, <1>6, <1>7, <1>12, <1>18, <2>1, <2>3 DEF IInv, WorkerInv, WorkerTypes
  <2>7. BegunInv'
    BY <1>4, <1>5, <1>6, <1>7, <1>11, <1>12, <1>18, <2>1 DEF IInv, BegunInv, TurnTypes
  <2>8. AskInv'
    BY <1>1, <1>2, <1>4, <1>6, <1>7, <1>12, <1>18, <2>1 DEF IInv, AskInv, AskTypes, AskTables
  <2>9. ClientInv'
    BY <1>1, <1>4, <1>6, <1>12, <1>18, <2>1, <2>2 DEF IInv, ClientInv
  <2>10. NoOrphanHost'
    BY <1>2, <1>4, <1>6, <1>12, <1>18, <2>1, <2>2 DEF IInv, NoOrphanHost
  <2>11. LateStartupIsDisposed'
    BY <1>18, <2>2 DEF IInv, LateStartupIsDisposed, HostTypes, HostTables
  <2>12. SourceIsCurrent'
    BY <1>1, <1>6, <1>7, <1>8, <1>9, <1>10, <1>12, <1>18, <2>1, <2>2, <2>3 DEF IInv, SourceIsCurrent
  <2>13. StoppedTurnsAreSilent'
    BY <1>18, <2>1 DEF IInv, StoppedTurnsAreSilent, WorkerInv
  <2> QED  BY <1>13, <1>14, <1>15, <1>16, <1>17, <2>4, <2>5, <2>6, <2>7, <2>8, <2>9, <2>10, <2>11,
              <2>12, <2>13
              DEF IInv
<1>19. ASSUME NEW new \in Hosts,
              client = 0,
              hosts[new].life = "unused",
              connecting' = new,
              worker' = At("connect", Head(queue), new),
              hosts' = [hosts EXCEPT ![new] = [life |-> "starting", thread |-> resume]]
       PROVE  IInv'
  <2>1. worker' \in WorkerRows /\ worker'.at = "connect" /\ worker'.turn = Head(queue)
        /\ worker'.host = new
    BY <1>19, <1>3, <1>4, <1>5, <1>6, <1>7, <1>8, <1>9, <1>10, <1>11, <1>12 DEF At, WorkerRows
  <2>2. /\ connecting' = new /\ client' = 0 /\ client = 0 /\ hosts[new].life = "unused"
        /\ hosts' = [hosts EXCEPT ![new] = [life |-> "starting", thread |-> resume]]
    BY <1>19 DEF Takes
  <2>3. turnActive' = turnActive /\ resume' = resume
    BY <1>19 DEF Takes
  <2>4. WorkerTypes'
    BY <1>1, <1>6, <1>7, <1>8, <1>9, <1>10, <1>12, <1>19, <2>1, <2>3
       DEF IInv, WorkerTypes, WorkerRows
  <2>5. HostTypes'
    BY <1>1, <1>4, <1>6, <1>12, <1>19, <2>2, <2>3 DEF IInv, HostTypes, HostTables
  <2>6. WorkerInv'
    BY <1>4, <1>6, <1>7, <1>12, <1>19, <2>1, <2>3 DEF IInv, WorkerInv, WorkerTypes
  <2>7. BegunInv'
    BY <1>4, <1>5, <1>6, <1>7, <1>11, <1>12, <1>19, <2>1 DEF IInv, BegunInv, TurnTypes
  <2>8. AskInv'
    BY <1>1, <1>2, <1>4, <1>6, <1>7, <1>12, <1>19, <2>1 DEF IInv, AskInv, AskTypes, AskTables
  <2>9. ClientInv'
    BY <1>1, <1>4, <1>6, <1>12, <1>19, <2>1, <2>2
       DEF IInv, ClientInv, HostTypes, HostTables, HandlerTypes, HandlerRows
  <2>10. NoOrphanHost'
    BY <1>2, <1>4, <1>6, <1>12, <1>19, <2>1, <2>2 DEF IInv, NoOrphanHost, HostTypes, HostTables
  <2>11. LateStartupIsDisposed'
    BY <1>19, <2>2 DEF IInv, LateStartupIsDisposed, HostTypes, HostTables
  <2>12. SourceIsCurrent'
    BY <1>1, <1>6, <1>7, <1>8, <1>9, <1>10, <1>12, <1>19, <2>1, <2>2, <2>3 DEF IInv, SourceIsCurrent
  <2>13. StoppedTurnsAreSilent'
    BY <1>19, <2>1 DEF IInv, StoppedTurnsAreSilent, WorkerInv
  <2> QED  BY <1>13, <1>14, <1>15, <1>16, <1>17, <2>4, <2>5, <2>6, <2>7, <2>8, <2>9, <2>10, <2>11,
              <2>12, <2>13
              DEF IInv
<1>20. CASE client # 0 /\ hosts[client].life # "up"
  <2>1. client \in Hosts /\ hosts[client].life = "dead" /\ hosts[client].thread \in {0} \cup Threads
    BY <1>20 DEF IInv, HostTypes, HostTables, LateStartupIsDisposed
  <2>2. /\ worker' = At("replace", Head(queue), client) /\ client' = 0 /\ connecting' = client /\ hosts' = hosts
        /\ resume' = hosts[client].thread /\ turnActive' = turnActive
    BY <1>20 DEF Takes
  <2>3. worker' \in WorkerRows /\ worker'.at = "replace" /\ worker'.turn = Head(queue)
        /\ worker'.host = client
    BY <1>4, <1>5, <1>6, <1>7, <1>8, <1>9, <1>10, <1>11, <1>12, <1>20, <2>1, <2>2 DEF At, WorkerRows
  <2>4. WorkerTypes'
    BY <1>1, <1>6, <1>7, <1>8, <1>9, <1>10, <1>12, <1>20, <2>1, <2>2, <2>3
       DEF IInv, WorkerTypes, WorkerRows
  <2>5. HostTypes'
    BY <1>1, <1>4, <1>6, <1>12, <1>20, <2>1, <2>2 DEF IInv, HostTypes
  <2>6. WorkerInv'
    BY <1>4, <1>6, <1>7, <1>12, <1>20, <2>1, <2>2, <2>3 DEF IInv, WorkerInv, WorkerTypes
  <2>7. BegunInv'
    BY <1>5, <1>6, <1>7, <1>11, <1>12, <1>20, <2>1, <2>2, <2>3 DEF IInv, BegunInv, TurnTypes
  <2>8. AskInv'
    BY <1>1, <1>2, <1>4, <1>6, <1>7, <1>12, <1>20, <2>1, <2>2, <2>3
       DEF IInv, AskInv, AskTypes, AskTables
  <2>9. ClientInv'
    BY <1>1, <1>4, <1>6, <1>12, <1>20, <2>1, <2>2, <2>3 DEF IInv, ClientInv
  <2>10. NoOrphanHost'
    BY <1>2, <1>4, <1>6, <1>12, <1>20, <2>1, <2>2, <2>3 DEF IInv, NoOrphanHost
  <2>11. LateStartupIsDisposed'
    BY <2>1, <2>2 DEF IInv, LateStartupIsDisposed, HostTypes, HostTables
  <2>12. SourceIsCurrent'
    BY <1>1, <1>6, <1>7, <1>8, <1>9, <1>10, <1>12, <1>20, <2>1, <2>2, <2>3 DEF IInv, SourceIsCurrent
  <2>13. StoppedTurnsAreSilent'
    BY <2>1, <2>2, <2>3 DEF IInv, StoppedTurnsAreSilent, WorkerInv
  <2> QED  BY <1>13, <1>14, <1>15, <1>16, <1>17, <2>4, <2>5, <2>6, <2>7, <2>8, <2>9, <2>10, <2>11,
              <2>12, <2>13
              DEF IInv
<1>21. CASE client # 0 /\ hosts[client].life = "up" /\ (Head(queue) \in Notices \/ pendingContext # {})
  <2>1. UNCHANGED <<client, connecting, hosts, resume>>
    BY <1>21 DEF Takes, servers
  <2>2. client \in Hosts
    BY <1>21 DEF IInv, HostTypes
  <2>3. worker' = At("flush", Head(queue), client) /\ turnActive' = turnActive
    BY <1>21 DEF Takes
  <2>4. worker' \in WorkerRows /\ worker'.at = "flush" /\ worker'.turn = Head(queue)
        /\ worker'.host = client
    BY <1>3, <1>4, <1>5, <1>6, <1>7, <1>8, <1>9, <1>10, <1>11, <1>12, <1>21, <2>1, <2>2, <2>3
       DEF At, WorkerRows
  <2>5. WorkerTypes'
    BY <1>1, <1>6, <1>7, <1>8, <1>9, <1>10, <1>12, <1>21, <2>1, <2>2, <2>3, <2>4
       DEF IInv, WorkerTypes, WorkerRows
  <2>6. HostTypes'
    BY <1>1, <1>4, <1>6, <1>12, <1>21, <2>1, <2>2 DEF IInv, HostTypes
  <2>7. WorkerInv'
    BY <1>4, <1>6, <1>7, <1>12, <1>21, <2>1, <2>2, <2>3, <2>4 DEF IInv, WorkerInv, WorkerTypes
  <2>8. BegunInv'
    BY <1>4, <1>5, <1>6, <1>7, <1>11, <1>12, <1>21, <2>1, <2>2, <2>3, <2>4
       DEF IInv, BegunInv, TurnTypes
  <2>9. AskInv'
    BY <1>1, <1>2, <1>4, <1>6, <1>7, <1>12, <1>21, <2>1, <2>2, <2>3, <2>4
       DEF IInv, AskInv, AskTypes, AskTables
  <2>10. ClientInv'
    BY <1>1, <1>4, <1>6, <1>12, <1>21, <2>1, <2>2, <2>3, <2>4 DEF IInv, ClientInv
  <2>11. NoOrphanHost'
    BY <1>2, <1>4, <1>6, <1>12, <1>21, <2>1, <2>2, <2>3, <2>4 DEF IInv, NoOrphanHost
  <2>12. LateStartupIsDisposed'
    BY <2>1, <2>2 DEF IInv, LateStartupIsDisposed, HostTypes, HostTables
  <2>13. SourceIsCurrent'
    BY <1>1, <1>6, <1>7, <1>8, <1>9, <1>10, <1>12, <1>21, <2>1, <2>2, <2>3, <2>4
       DEF IInv, SourceIsCurrent
  <2>14. StoppedTurnsAreSilent'
    BY <2>2, <2>3, <2>4 DEF IInv, StoppedTurnsAreSilent, WorkerInv
  <2> QED  BY <1>13, <1>14, <1>15, <1>16, <1>17, <2>5, <2>6, <2>7, <2>8, <2>9, <2>10, <2>11, <2>12,
              <2>13, <2>14
              DEF IInv
<1>22. CASE client # 0 /\ hosts[client].life = "up" /\ ~(Head(queue) \in Notices \/ pendingContext # {})
  <2>1. UNCHANGED <<client, connecting, hosts, resume>>
    BY <1>22 DEF Takes, servers
  <2>2. client \in Hosts /\ Head(queue) \notin Notices
    BY <1>22 DEF IInv, HostTypes
  <2>3. worker' = At("submit", Head(queue), client) /\ turnActive' = TRUE
    BY <1>22 DEF Takes
  <2>4. worker' \in WorkerRows /\ worker'.at = "submit" /\ worker'.turn = Head(queue)
        /\ worker'.host = client
    BY <1>3, <1>4, <1>5, <1>6, <1>7, <1>8, <1>9, <1>10, <1>11, <1>12, <1>22, <2>1, <2>2, <2>3
       DEF At, WorkerRows
  <2>5. WorkerTypes'
    BY <1>1, <1>6, <1>7, <1>8, <1>9, <1>10, <1>12, <1>22, <2>1, <2>2, <2>3, <2>4
       DEF IInv, WorkerTypes, WorkerRows
  <2>6. HostTypes'
    BY <1>1, <1>4, <1>6, <1>12, <1>22, <2>1, <2>2 DEF IInv, HostTypes
  <2>7. WorkerInv'
    BY <1>4, <1>6, <1>7, <1>12, <1>22, <2>1, <2>2, <2>3, <2>4 DEF IInv, WorkerInv, WorkerTypes
  <2>8. BegunInv'
    BY <1>4, <1>5, <1>6, <1>7, <1>11, <1>12, <1>22, <2>1, <2>2, <2>3, <2>4
       DEF IInv, BegunInv, TurnTypes
  <2>9. AskInv'
    BY <1>1, <1>2, <1>4, <1>6, <1>7, <1>12, <1>22, <2>1, <2>2, <2>3, <2>4
       DEF IInv, AskInv, AskTypes, AskTables
  <2>10. ClientInv'
    BY <1>1, <1>4, <1>6, <1>12, <1>22, <2>1, <2>2, <2>3, <2>4 DEF IInv, ClientInv
  <2>11. NoOrphanHost'
    BY <1>2, <1>4, <1>6, <1>12, <1>22, <2>1, <2>2, <2>3, <2>4 DEF IInv, NoOrphanHost
  <2>12. LateStartupIsDisposed'
    BY <2>1, <2>2 DEF IInv, LateStartupIsDisposed, HostTypes, HostTables
  <2>13. SourceIsCurrent'
    BY <1>1, <1>6, <1>7, <1>8, <1>9, <1>10, <1>12, <1>22, <2>1, <2>2, <2>3, <2>4
       DEF IInv, SourceIsCurrent
  <2>14. StoppedTurnsAreSilent'
    BY <2>2, <2>3, <2>4 DEF IInv, StoppedTurnsAreSilent, WorkerInv
  <2> QED  BY <1>13, <1>14, <1>15, <1>16, <1>17, <2>5, <2>6, <2>7, <2>8, <2>9, <2>10, <2>11, <2>12,
              <2>13, <2>14
              DEF IInv
<1> QED  BY <1>18, <1>19, <1>20, <1>21, <1>22, Launches DEF Takes

\* An exception ends the start of a turn, and no app-server is left behind.
LEMMA RaisesStep ==
  ASSUME IInv, worker.at \in {"replace", "dispose", "flush"}, Raises(worker.turn), Starting,
         UNCHANGED <<client, memory, pendingContext>>, connecting' = 0, hosts' \in HostTables,
         \A h \in Hosts : hosts[h].life \in {"closing", "gone"} => hosts'[h].life \in {"closing", "gone"},
         \A h \in Hosts : hosts'[h].life \in {"starting", "up"} => h = client,
         client # 0 => hosts'[client].life \in {"up", "dead"}
  PROVE  IInv'
<1>1. UNCHANGED <<todo, queue, pendingContext, interrupting, client, capture, resume, saved,
                  handlers, lock, stopped, doomed, left, unwritten, recoveries, crashes>>
  BY DEF Starting, Aside, memory
<1>2. worker.at \in {"replace", "dispose", "flush"}
  OBVIOUS
<1>3. connecting' = 0
  OBVIOUS
<1>4. /\ hosts' \in HostTables
      /\ \A h \in Hosts : hosts[h].life \in {"closing", "gone"} => hosts'[h].life \in {"closing", "gone"}
      /\ \A h \in Hosts : hosts'[h].life \in {"starting", "up"} => h = client
      /\ client # 0 => hosts'[client].life \in {"up", "dead"}
  OBVIOUS
<1>5. worker.turn \in Turns /\ fate[worker.turn] \notin Unbegun
  BY DEF IInv, WorkerInv, WorkerTypes, WorkerRows, BegunInv
<1>6. /\ worker.turn \notin Notices => current = worker.turn
      /\ turnActive = FALSE
  BY DEF IInv, WorkerInv, WorkerTypes
<1>7. /\ source = None
      /\ \A q \in Questions : asks[q].at \notin Displayed \cup {"waiting"}
  BY DEF IInv, SourceIsCurrent, AskInv
<1>8. HandlerTypes' /\ HistoryTypes'
  BY <1>1 DEF IInv, HandlerTypes, HistoryTypes
<1>9. HostTypes'
  BY <1>1 DEF IInv, HostTypes
<1>10. LateStartupIsDisposed'
  BY DEF LateStartupIsDisposed, HostTypes, HostTables
<1>11. CASE worker.turn \in Notices
  <2>1. UNCHANGED <<source, pending, turnActive, current, asks, fate>>
    BY <1>11 DEF Raises, Begins
  <2>2. worker' \in WorkerRows /\ worker'.at = "loop" /\ worker'.turn = None /\ worker'.host = 0
    BY <1>11 DEF Raises, Looping, Idle, WorkerRows
  <2>3. TurnTypes'
    BY <1>1, <1>6, <1>7, <1>11, <2>1 DEF IInv, TurnTypes
  <2>4. WorkerTypes'
    BY <1>1, <1>5, <1>6, <1>7, <1>11, <2>1, <2>2 DEF IInv, WorkerTypes, WorkerRows
  <2>5. AskTypes'
    BY <1>1, <1>6, <1>7, <1>11, <2>1 DEF IInv, AskTypes
  <2>6. WorkerInv'
    BY <2>1, <2>2 DEF IInv, WorkerInv, WorkerTypes
  <2>7. QueueInv'
    BY <1>1, <1>6, <1>7, <1>11, <2>1 DEF IInv, QueueInv
  <2>8. ArrivalInv'
    BY <1>1, <1>6, <1>7, <1>11, <2>1 DEF IInv, ArrivalInv, TurnTypes
  <2>9. PickInv'
    BY <1>1, <1>6, <1>7, <1>11, <2>1 DEF IInv, PickInv
  <2>10. BegunInv'
    BY <2>1, <2>2 DEF IInv, BegunInv, TurnTypes
  <2>11. StoppedInv'
    BY <1>1, <1>2, <1>5, <1>6, <1>7, <1>11, <2>1 DEF IInv, StoppedInv
  <2>12. AskInv'
    BY <1>1, <1>5, <1>6, <1>7, <1>11, <2>1, <2>2 DEF IInv, AskInv, AskTypes, AskTables
  <2>13. ClientInv'
    BY <1>1, <1>3, <1>4, <1>5, <1>6, <1>7, <1>11, <2>1, <2>2
       DEF IInv, ClientInv, HandlerTypes, HandlerRows
  <2>14. NoOrphanHost'
    BY DEF NoOrphanHost
  <2>15. SourceIsCurrent'
    BY <2>1, <2>2 DEF IInv, SourceIsCurrent
  <2>16. StoppedTurnsAreSilent'
    BY <2>1, <2>2 DEF IInv, StoppedTurnsAreSilent, WorkerInv
  <2> QED  BY <1>8, <1>9, <1>10, <2>3, <2>4, <2>5, <2>6, <2>7, <2>8, <2>9, <2>10, <2>11, <2>12,
              <2>13, <2>14, <2>15, <2>16
              DEF IInv
<1>12. CASE worker.turn \in Consults \/ (worker.turn \in Messages /\ interrupting)
  <2>1. source' = None /\ pending' = None
    BY <1>12 DEF Raises, Ends
  <2>2. turnActive' = FALSE
    BY <1>12 DEF Raises, Ends
  <2>3. current' = None
    BY <1>12 DEF Raises, Ends
  <2>4. Silenced(asks')
    BY <1>12, Silences DEF Raises, Ends
  <2>5. fate' \in {[fate EXCEPT ![worker.turn] = state] : state \in {"failed", "dropped"}}
    BY <1>12 DEF Raises
  <2>6. /\ fate' \in [Turns -> Fates]
        /\ \A t \in Turns : fate[t] \in Unbegun => fate'[t] = fate[t]
        /\ \A t \in Turns : fate[t] \notin Unbegun => fate'[t] \notin Unbegun
    BY <1>5, <1>6, <1>7, <1>12, <2>1, <2>2, <2>3, <2>4, <2>5 DEF IInv, TurnTypes
  <2>7. worker' \in WorkerRows /\ worker'.at = "loop" /\ worker'.turn = None /\ worker'.host = 0
    BY <1>12 DEF Raises, Looping, Idle, WorkerRows
  <2>8. TurnTypes'
    BY <1>1, <1>5, <1>6, <1>7, <1>12, <2>5, <2>6 DEF IInv, TurnTypes
  <2>9. WorkerTypes'
    BY <1>1, <1>2, <1>5, <1>6, <1>7, <1>12, <2>1, <2>2, <2>3, <2>7 DEF IInv, WorkerTypes, WorkerRows
  <2>10. AskTypes'
    BY <1>1, <1>5, <1>6, <1>7, <1>12, <2>1, <2>4, SilencedAsks DEF IInv, AskTypes
  <2>11. WorkerInv'
    BY <2>2, <2>3, <2>7 DEF IInv, WorkerInv, WorkerTypes
  <2>12. QueueInv'
    BY <1>1, <1>5, <1>6, <1>7, <1>12, <2>5, <2>6, StaysQueued DEF IInv
  <2>13. ArrivalInv'
    BY <1>1, <1>5, <1>6, <1>7, <1>12, <2>5, <2>6 DEF IInv, ArrivalInv, TurnTypes
  <2>14. PickInv'
    BY <1>1, <1>6, <1>7, <1>12, <2>4 DEF IInv, PickInv, Silenced
  <2>15. BegunInv'
    BY <2>3, <2>5, <2>6, <2>7 DEF IInv, BegunInv, TurnTypes
  <2>16. StoppedInv'
    BY <1>1, <1>2, <1>5, <1>6, <1>7, <1>12, <2>3, <2>5, <2>6
       DEF IInv, StoppedInv, BegunInv, TurnTypes
  <2>17. AskInv'
    BY <1>1, <1>5, <1>6, <1>7, <1>12, <2>1, <2>3, <2>4, <2>7, SilencedAsks DEF IInv, AskTypes
  <2>18. ClientInv'
    BY <1>1, <1>3, <1>4, <1>5, <1>6, <1>7, <1>12, <2>7
       DEF IInv, ClientInv, HandlerTypes, HandlerRows
  <2>19. NoOrphanHost'
    BY DEF NoOrphanHost
  <2>20. SourceIsCurrent'
    BY <2>1, <2>2, <2>3, <2>7 DEF IInv, SourceIsCurrent
  <2>21. StoppedTurnsAreSilent'
    BY <1>12, <2>7 DEF IInv, StoppedTurnsAreSilent, WorkerInv
  <2> QED  BY <1>8, <1>9, <1>10, <2>8, <2>9, <2>10, <2>11, <2>12, <2>13, <2>14, <2>15, <2>16, <2>17,
              <2>18, <2>19, <2>20, <2>21
              DEF IInv
<1>13. CASE worker.turn \in Messages /\ ~interrupting
  <2>1. source' = None /\ pending' = None
    BY <1>13 DEF Raises, Ends
  <2>2. turnActive' = FALSE
    BY <1>13 DEF Raises, Ends
  <2>3. current' = None
    BY <1>13 DEF Raises, Ends
  <2>4. Silenced(asks')
    BY <1>13, Silences DEF Raises, Ends
  <2>5. fate' \in {[fate EXCEPT ![worker.turn] = state] : state \in {"failed", "dropped"}}
    BY <1>13 DEF Raises
  <2>6. /\ fate' \in [Turns -> Fates]
        /\ \A t \in Turns : fate[t] \in Unbegun => fate'[t] = fate[t]
        /\ \A t \in Turns : fate[t] \notin Unbegun => fate'[t] \notin Unbegun
    BY <1>5, <1>6, <1>7, <1>13, <2>1, <2>2, <2>3, <2>4, <2>5 DEF IInv, TurnTypes
  <2>7. \A how \in {"told", "yielded"} : <<worker.turn, how>> \notin stopped
    BY <1>13, <1>1, <1>2, <1>3, <1>4, <1>5, <1>6, <1>7, <2>1, <2>2, <2>3, <2>4, <2>5, <2>6
       DEF IInv, StoppedInv
  <2>8. worker' = At("excuse", worker.turn, 0)
    BY <1>13 DEF Raises
  <2>9. worker' \in WorkerRows /\ worker'.at = "excuse" /\ worker'.turn = worker.turn
        /\ worker'.host = 0
    BY <1>7, <1>13, <2>1, <2>2, <2>3, <2>4, <2>5, <2>6, <2>7, <2>8 DEF At, WorkerRows
  <2>10. TurnTypes'
    BY <1>1, <1>5, <1>6, <1>7, <1>13, <2>5, <2>6, <2>7 DEF IInv, TurnTypes
  <2>11. WorkerTypes'
    BY <1>1, <1>2, <1>5, <1>6, <1>7, <1>13, <2>1, <2>2, <2>3, <2>7, <2>8, <2>9
       DEF IInv, WorkerTypes, WorkerRows
  <2>12. AskTypes'
    BY <1>1, <1>5, <1>6, <1>7, <1>13, <2>1, <2>4, <2>7, SilencedAsks DEF IInv, AskTypes
  <2>13. WorkerInv'
    BY <2>2, <2>3, <2>7, <2>8, <2>9 DEF IInv, WorkerInv, WorkerTypes
  <2>14. QueueInv'
    BY <1>1, <1>5, <1>6, <1>7, <1>13, <2>5, <2>6, <2>7, StaysQueued DEF IInv
  <2>15. ArrivalInv'
    BY <1>1, <1>5, <1>6, <1>7, <1>13, <2>5, <2>6, <2>7 DEF IInv, ArrivalInv, TurnTypes
  <2>16. PickInv'
    BY <1>1, <1>5, <1>6, <1>7, <1>13, <2>4, <2>7 DEF IInv, PickInv, Silenced
  <2>17. BegunInv'
    BY <2>3, <2>5, <2>6, <2>7, <2>8, <2>9 DEF IInv, BegunInv, TurnTypes
  <2>18. StoppedInv'
    BY <1>1, <1>2, <1>5, <1>6, <1>7, <1>13, <2>3, <2>5, <2>6, <2>7
       DEF IInv, StoppedInv, BegunInv, TurnTypes
  <2>19. AskInv'
    BY <1>1, <1>6, <1>7, <1>13, <2>1, <2>3, <2>4, <2>7, <2>8, <2>9, SilencedAsks DEF IInv, AskTypes
  <2>20. ClientInv'
    BY <1>1, <1>3, <1>4, <1>5, <1>6, <1>7, <1>13, <2>7, <2>8, <2>9
       DEF IInv, ClientInv, HandlerTypes, HandlerRows
  <2>21. NoOrphanHost'
    BY DEF NoOrphanHost
  <2>22. SourceIsCurrent'
    BY <2>1, <2>2, <2>3, <2>7, <2>8, <2>9 DEF IInv, SourceIsCurrent
  <2>23. StoppedTurnsAreSilent'
    BY <1>1, <1>5, <1>6, <1>7, <1>13, <2>7, <2>8, <2>9 DEF IInv, StoppedTurnsAreSilent, WorkerInv
  <2> QED  BY <1>8, <1>9, <1>10, <2>10, <2>11, <2>12, <2>13, <2>14, <2>15, <2>16, <2>17, <2>18,
              <2>19, <2>20, <2>21, <2>22, <2>23
              DEF IInv
<1> QED  BY <1>11, <1>12, <1>13 DEF Raises

LEMMA FlushFailsStep == ASSUME IInv, FlushFails PROVE IInv'
<1>1. connecting = 0 /\ connecting' = 0 /\ hosts' = hosts /\ client' = client
  BY DEF FlushFails, servers, IInv, ClientInv
<1> QED
  BY <1>1, RaisesStep
  DEF FlushFails, IInv, HostTypes, NoOrphanHost, LateStartupIsDisposed

LEMMA DisposedStep == ASSUME IInv, Disposed PROVE IInv'
<1>1. /\ worker.at = "dispose" /\ client = 0 /\ connecting \in {0, worker.host}
      /\ worker.host \in {0} \cup Hosts
  BY DEF Disposed, IInv, ClientInv, WorkerTypes, WorkerRows
<1>2. /\ hosts' \in HostTables
      /\ worker.host # 0 => hosts'[worker.host].life = "gone"
      /\ \A g \in Hosts : g # worker.host => hosts'[g] = hosts[g]
  BY <1>1, EndsHost DEF Disposed, IInv
<1>3. \A h \in Hosts : hosts'[h].life \notin {"starting", "up"}
  BY <1>1, <1>2 DEF IInv, NoOrphanHost
<1>4. \A h \in Hosts : hosts[h].life \in {"closing", "gone"} => hosts'[h].life \in {"closing", "gone"}
  BY <1>1, <1>2
<1>5. /\ connecting' = 0 /\ Raises(worker.turn) /\ Starting
      /\ UNCHANGED <<client, memory, pendingContext>>
  BY <1>1 DEF Disposed
<1> QED  BY <1>1, <1>2, <1>3, <1>4, <1>5, RaisesStep

\* A new process takes the place of the dead one.
LEMMA RelaunchStep ==
  ASSUME IInv, Replaced, Wanted PROVE IInv'
<1>1. UNCHANGED <<todo, queue, fate, pendingContext, current, turnActive, interrupting, client,
                  capture, resume, saved, source, handlers, asks, pending, lock, stopped, doomed,
                  left, unwritten, recoveries, crashes>>
  BY DEF Replaced, Begins, Starting, Aside, memory
<1>2. worker.at = "replace" /\ worker.turn \in Turns
  BY DEF Replaced, IInv, WorkerInv, WorkerTypes, WorkerRows
<1>3. client = 0 /\ connecting = worker.host /\ worker.host \in Hosts
  BY <1>2 DEF Wanted, IInv, ClientInv, WorkerInv, WorkerTypes, WorkerRows
<1>4. /\ Ended(worker.host, "gone") \in HostTables /\ Ended(worker.host, "gone")[worker.host].life = "gone"
      /\ \A g \in Hosts : g # worker.host => Ended(worker.host, "gone")[g] = hosts[g]
  BY <1>3, EndsHost DEF IInv
<1>5. \A g \in Hosts : Ended(worker.host, "gone")[g].life \notin {"starting", "up"}
  BY <1>3, <1>4 DEF IInv, NoOrphanHost
<1>6. TurnTypes' /\ HandlerTypes' /\ AskTypes' /\ HistoryTypes' /\ QueueInv' /\ ArrivalInv'
      /\ PickInv' /\ StoppedInv'
  BY <1>1
     DEF IInv, TurnTypes, HandlerTypes, AskTypes, HistoryTypes, QueueInv, ArrivalInv, PickInv,
         StoppedInv
<1>7. CASE worker' = At("dispose", worker.turn, 0) /\ connecting' = 0
      /\ hosts' = Ended(worker.host, "gone")
  <2>1. worker' \in WorkerRows /\ worker'.at = "dispose" /\ worker'.turn = worker.turn
        /\ worker'.host = 0
    BY <1>7, <1>2, <1>3, <1>4, <1>5 DEF At, WorkerRows
  <2>2. connecting' = 0 /\ hosts' = Ended(worker.host, "gone")
    BY <1>7
  <2>3. WorkerTypes'
    BY <1>1, <1>4, <1>5, <1>7, <2>1 DEF IInv, WorkerTypes, WorkerRows
  <2>4. HostTypes'
    BY <1>1, <1>4, <1>5, <1>7, <2>2 DEF IInv, HostTypes
  <2>5. WorkerInv'
    BY <1>1, <1>2, <1>3, <1>4, <1>5, <1>7, <2>1 DEF IInv, WorkerInv, WorkerTypes
  <2>6. BegunInv'
    BY <1>1, <1>4, <1>5, <1>7, <2>1 DEF IInv, BegunInv, TurnTypes
  <2>7. AskInv'
    BY <1>1, <1>2, <1>3, <1>4, <1>5, <1>7, <2>1 DEF IInv, AskInv, AskTypes, AskTables
  <2>8. ClientInv'
    BY <1>1, <1>3, <1>4, <1>5, <1>7, <2>1, <2>2 DEF IInv, ClientInv, HandlerTypes, HandlerRows
  <2>9. NoOrphanHost'
    BY <1>5, <1>7, <2>1, <2>2 DEF IInv, NoOrphanHost
  <2>10. LateStartupIsDisposed'
    BY <1>1, <1>3, <1>4, <1>5, <1>7, <2>2 DEF IInv, LateStartupIsDisposed, HostTypes, HostTables
  <2>11. SourceIsCurrent'
    BY <1>1, <1>3, <1>4, <1>5, <1>7, <2>1 DEF IInv, SourceIsCurrent
  <2>12. StoppedTurnsAreSilent'
    BY <1>7, <2>1 DEF IInv, StoppedTurnsAreSilent, WorkerInv
  <2> QED  BY <1>6, <2>3, <2>4, <2>5, <2>6, <2>7, <2>8, <2>9, <2>10, <2>11, <2>12 DEF IInv
<1>8. ASSUME NEW new \in Hosts,
             Ended(worker.host, "gone")[new].life = "unused",
             connecting' = new,
             worker' = At("connect", worker.turn, new),
             hosts' = [Ended(worker.host, "gone") EXCEPT ![new] = [life |-> "starting", thread |-> resume]]
      PROVE  IInv'
  <2>1. worker' \in WorkerRows /\ worker'.at = "connect" /\ worker'.turn = worker.turn
        /\ worker'.host = new
    BY <1>8, <1>2, <1>3, <1>4, <1>5 DEF At, WorkerRows
  <2>2. /\ connecting' = new
        /\ hosts' = [Ended(worker.host, "gone") EXCEPT ![new] = [life |-> "starting", thread |-> resume]]
    BY <1>8
  <2>3. /\ hosts' \in HostTables /\ hosts'[new].life = "starting"
        /\ \A g \in Hosts : g # new => hosts'[g] = Ended(worker.host, "gone")[g]
    BY <1>4, <1>5, <1>8, <2>1, <2>2 DEF HostTables, IInv, HostTypes
  <2>4. WorkerTypes'
    BY <1>1, <1>4, <1>5, <1>8, <2>1 DEF IInv, WorkerTypes, WorkerRows
  <2>5. HostTypes'
    BY <1>1, <1>3, <1>4, <1>5, <1>8, <2>2, <2>3 DEF IInv, HostTypes
  <2>6. WorkerInv'
    BY <1>1, <1>2, <1>3, <1>4, <1>5, <1>8, <2>1 DEF IInv, WorkerInv, WorkerTypes
  <2>7. BegunInv'
    BY <1>1, <1>4, <1>5, <1>8, <2>1 DEF IInv, BegunInv, TurnTypes
  <2>8. AskInv'
    BY <1>1, <1>2, <1>3, <1>4, <1>5, <1>8, <2>1 DEF IInv, AskInv, AskTypes, AskTables
  <2>9. ClientInv'
    BY <1>1, <1>3, <1>4, <1>5, <1>8, <2>1, <2>2, <2>3 DEF IInv, ClientInv, HandlerTypes, HandlerRows
  <2>10. NoOrphanHost'
    BY <1>5, <1>8, <2>1, <2>2, <2>3 DEF IInv, NoOrphanHost
  <2>11. LateStartupIsDisposed'
    BY <1>1, <1>3, <1>4, <1>5, <1>8, <2>2, <2>3
       DEF IInv, LateStartupIsDisposed, HostTypes, HostTables
  <2>12. SourceIsCurrent'
    BY <1>1, <1>3, <1>4, <1>5, <1>8, <2>1 DEF IInv, SourceIsCurrent
  <2>13. StoppedTurnsAreSilent'
    BY <1>8, <2>1 DEF IInv, StoppedTurnsAreSilent, WorkerInv
  <2> QED  BY <1>6, <2>4, <2>5, <2>6, <2>7, <2>8, <2>9, <2>10, <2>11, <2>12, <2>13 DEF IInv
<1> QED  BY <1>7, <1>8, Launches DEF Replaced

LEMMA ReplacedStep == ASSUME IInv, Replaced PROVE IInv'
<1>1. CASE Wanted
  BY <1>1, RelaunchStep
<1>2. CASE ~Wanted
  <2>1. /\ worker.at = "replace" /\ client = 0 /\ connecting = 0 /\ worker.host \in {0} \cup Hosts
    BY <1>2 DEF Wanted, Replaced, IInv, ClientInv, WorkerTypes, WorkerRows
  <2>2. /\ connecting' = connecting /\ Raises(worker.turn) /\ Starting
        /\ UNCHANGED <<client, memory, pendingContext>>
    BY <1>2 DEF Replaced
  <2>3. /\ hosts' \in HostTables
        /\ worker.host # 0 => hosts'[worker.host].life = "gone"
        /\ \A g \in Hosts : g # worker.host => hosts'[g] = hosts[g]
    BY <1>2, <2>1, EndsHost DEF Replaced, IInv
  <2>4. \A h \in Hosts : hosts'[h].life \notin {"starting", "up"}
    BY <2>1, <2>3 DEF IInv, NoOrphanHost
  <2>5. \A h \in Hosts : hosts[h].life \in {"closing", "gone"} => hosts'[h].life \in {"closing", "gone"}
    BY <2>1, <2>3
  <2> QED  BY <2>1, <2>2, <2>3, <2>4, <2>5, RaisesStep
<1> QED  BY <1>1, <1>2

LEMMA ConnectFailsStep == ASSUME IInv, ConnectFails PROVE IInv'
<1>1. UNCHANGED <<todo, queue, fate, pendingContext, current, turnActive, interrupting, client,
                  connecting, capture, resume, saved, source, handlers, asks, pending, lock,
                  stopped, doomed, left, unwritten, recoveries, crashes>>
  BY DEF ConnectFails, Begins, Starting, Aside, memory
<1>2. /\ worker.at = "connect" /\ client = 0 /\ worker.host \in Hosts
      /\ connecting \in {0, worker.host}
  BY DEF ConnectFails, IInv, ClientInv, WorkerInv, WorkerTypes, WorkerRows
<1>3. worker' = [worker EXCEPT !.at = "dispose"]
  BY DEF ConnectFails
<1>4. /\ hosts' \in HostTables /\ hosts'[worker.host].life = "closing"
      /\ \A g \in Hosts : g # worker.host => hosts'[g] = hosts[g]
  BY <1>2, <1>3, EndsHost DEF ConnectFails, IInv
<1>5. TurnTypes' /\ HandlerTypes' /\ AskTypes' /\ HistoryTypes' /\ QueueInv' /\ ArrivalInv'
      /\ PickInv' /\ StoppedInv'
  BY <1>1
     DEF IInv, TurnTypes, HandlerTypes, AskTypes, HistoryTypes, QueueInv, ArrivalInv, PickInv,
         StoppedInv
<1>6. WorkerTypes'
  BY <1>1, <1>3 DEF IInv, WorkerTypes, WorkerRows
<1>7. HostTypes'
  BY <1>1, <1>4 DEF IInv, HostTypes
<1>8. WorkerInv'
  BY <1>1, <1>2, <1>3 DEF IInv, WorkerInv, WorkerTypes, WorkerRows
<1>9. BegunInv'
  BY <1>1, <1>3 DEF IInv, BegunInv, TurnTypes, WorkerTypes, WorkerRows
<1>10. AskInv'
  BY <1>1, <1>2 DEF IInv, AskInv, AskTypes, AskTables, WorkerTypes, WorkerRows
<1>11. ClientInv'
  BY <1>1, <1>2, <1>3, <1>4 DEF IInv, ClientInv, WorkerTypes, WorkerRows, HandlerTypes, HandlerRows
<1>12. NoOrphanHost'
  BY <1>2, <1>3, <1>4 DEF IInv, NoOrphanHost, WorkerTypes, WorkerRows
<1>13. LateStartupIsDisposed'
  BY <1>1, <1>2 DEF IInv, LateStartupIsDisposed, HostTypes, HostTables
<1>14. SourceIsCurrent'
  BY <1>1, <1>2 DEF IInv, SourceIsCurrent, WorkerTypes, WorkerRows
<1>15. StoppedTurnsAreSilent'
  BY <1>3 DEF IInv, StoppedTurnsAreSilent, WorkerTypes, WorkerRows
<1> QED  BY <1>5, <1>6, <1>7, <1>8, <1>9, <1>10, <1>11, <1>12, <1>13, <1>14, <1>15 DEF IInv

\* The startup is answered after the session was closed.
LEMMA UnwantedStep ==
  ASSUME IInv, worker.at = "connect", connecting # worker.host, worker' = [worker EXCEPT !.at = "dispose"],
         UNCHANGED <<servers, memory, fate, turnActive, pendingContext>>, Begins, Starting
  PROVE  IInv'
<1>1. UNCHANGED <<todo, queue, fate, pendingContext, current, turnActive, interrupting, client,
                  connecting, hosts, capture, resume, saved, source, handlers, asks, pending, lock,
                  stopped, doomed, left, unwritten, recoveries, crashes>>
  BY DEF servers, Begins, Starting, Aside, memory
<1>2. worker.at = "connect" /\ client = 0 /\ connecting = 0
  BY DEF IInv, ClientInv
<1>3. worker' = [worker EXCEPT !.at = "dispose"]
  OBVIOUS
<1>4. TurnTypes' /\ HostTypes' /\ HandlerTypes' /\ AskTypes' /\ HistoryTypes' /\ QueueInv'
      /\ ArrivalInv' /\ PickInv' /\ StoppedInv' /\ LateStartupIsDisposed'
  BY <1>1
     DEF IInv, TurnTypes, HostTypes, HandlerTypes, AskTypes, HistoryTypes, QueueInv, ArrivalInv,
         PickInv, StoppedInv, LateStartupIsDisposed
<1>5. WorkerTypes'
  BY <1>1 DEF IInv, WorkerTypes, WorkerRows
<1>6. WorkerInv'
  BY <1>1 DEF IInv, WorkerInv, WorkerTypes, WorkerRows
<1>7. BegunInv'
  BY <1>1 DEF IInv, BegunInv, TurnTypes, WorkerTypes, WorkerRows
<1>8. AskInv'
  BY <1>1 DEF IInv, AskInv, AskTypes, AskTables, WorkerTypes, WorkerRows
<1>9. ClientInv'
  BY <1>1 DEF IInv, ClientInv, WorkerTypes, WorkerRows, HandlerTypes, HandlerRows
<1>10. NoOrphanHost'
  BY <1>1 DEF IInv, NoOrphanHost, WorkerTypes, WorkerRows
<1>11. SourceIsCurrent'
  BY <1>1 DEF IInv, SourceIsCurrent, WorkerTypes, WorkerRows
<1>12. StoppedTurnsAreSilent'
  BY DEF StoppedTurnsAreSilent, WorkerTypes, WorkerRows
<1> QED  BY <1>4, <1>5, <1>6, <1>7, <1>8, <1>9, <1>10, <1>11, <1>12 DEF IInv

\* The turn goes on with the client it has, after the notices that were kept.
LEMMA SubmitsStep ==
  ASSUME IInv, worker.at \in {"connect", "flush"}, worker.host \in Hosts, client' = worker.host, connecting' = 0,
         pendingContext' \subseteq pendingContext, resume' \in {0} \cup Threads, saved' \in {0} \cup Threads,
         NEW fates \in [Turns -> Fates],
         \A t \in Turns : fates[t] = fate[t] \/ (t \in pendingContext /\ fates[t] = "done"),
         hosts' \in HostTables, hosts'[worker.host].life \in {"up", "dead"},
         \A h \in Hosts : hosts[h].life \in {"closing", "gone"} => hosts'[h].life \in {"closing", "gone"},
         \A h \in Hosts : hosts'[h].life \in {"starting", "up"} => h = worker.host,
         Submits(worker.turn, worker.host, pendingContext', fates), Starting
  PROVE  IInv'
<1>1. UNCHANGED <<todo, queue, interrupting, capture, handlers, lock, stopped, doomed, left,
                  unwritten, recoveries, crashes>>
  BY DEF Starting, Aside
<1>2. worker.at \in {"connect", "flush"}
  OBVIOUS
<1>3. pendingContext' \subseteq pendingContext
  OBVIOUS
<1>4. resume' \in {0} \cup Threads /\ saved' \in {0} \cup Threads
  OBVIOUS
<1>5. client' = worker.host /\ worker.host \in Hosts /\ connecting' = 0
  OBVIOUS
<1>6. /\ hosts' \in HostTables /\ hosts'[worker.host].life \in {"up", "dead"}
      /\ \A h \in Hosts : hosts[h].life \in {"closing", "gone"} => hosts'[h].life \in {"closing", "gone"}
      /\ \A h \in Hosts : hosts'[h].life \in {"starting", "up"} => h = worker.host
  OBVIOUS
<1>7. /\ fates \in [Turns -> Fates]
      /\ \A t \in Turns : fates[t] = fate[t] \/ (t \in pendingContext /\ fates[t] = "done")
  OBVIOUS
<1>8. worker.turn \in Turns /\ fate[worker.turn] \notin Unbegun
  BY DEF IInv, WorkerInv, WorkerTypes, WorkerRows, BegunInv
<1>9. /\ worker.turn \notin Notices => current = worker.turn
      /\ turnActive = FALSE
  BY DEF IInv, WorkerInv, WorkerTypes
<1>10. /\ source = None
       /\ \A q \in Questions : asks[q].at \notin Displayed \cup {"waiting"}
  BY DEF IInv, SourceIsCurrent, AskInv
<1>11. HandlerTypes' /\ HistoryTypes'
  BY <1>1 DEF IInv, HandlerTypes, HistoryTypes
<1>12. HostTypes'
  BY <1>1, <1>4, <1>5, <1>6, <1>7, <1>8, <1>9, <1>10 DEF IInv, HostTypes
<1>13. LateStartupIsDisposed'
  BY DEF LateStartupIsDisposed, HostTypes, HostTables
<1>14. CASE /\ worker' = At("flush", worker.turn, worker.host)
            /\ fate' = fates /\ UNCHANGED turnActive /\ Begins
  <2>1. UNCHANGED <<turnActive, source, pending, current, asks>>
    BY <1>14 DEF Begins
  <2>2. fate' = fates
    BY <1>14
  <2>3. /\ fate' \in [Turns -> Fates]
        /\ \A t \in Turns : fate[t] \in Unbegun => fate'[t] = fate[t]
        /\ \A t \in Turns : fate[t] \notin Unbegun => fate'[t] \notin Unbegun
    BY <1>10, <1>14, <2>1, <2>2 DEF IInv, TurnTypes, BegunInv
  <2>4. worker' \in WorkerRows /\ worker'.at = "flush" /\ worker'.turn = worker.turn
        /\ worker'.host = worker.host
    BY <1>14, <1>3, <1>4, <1>5, <1>6, <1>7, <1>8, <1>9, <1>10, <2>1, <2>2, <2>3 DEF At, WorkerRows
  <2>5. TurnTypes'
    BY <1>1, <1>3, <1>7, <1>8, <1>9, <1>10, <1>14, <2>1, <2>2, <2>3 DEF IInv, TurnTypes
  <2>6. WorkerTypes'
    BY <1>1, <1>7, <1>8, <1>9, <1>10, <1>14, <2>1, <2>4 DEF IInv, WorkerTypes, WorkerRows
  <2>7. AskTypes'
    BY <1>1, <1>7, <1>8, <1>9, <1>10, <1>14, <2>1 DEF IInv, AskTypes
  <2>8. WorkerInv'
    BY <1>14, <2>1, <2>4 DEF IInv, WorkerInv, WorkerTypes
  <2>9. QueueInv'
    BY <1>1, <1>7, <1>8, <1>9, <1>10, <1>14, <2>1, <2>2, <2>3, StaysQueued DEF IInv
  <2>10. ArrivalInv'
    BY <1>1, <1>7, <1>8, <1>9, <1>10, <1>14, <2>1, <2>2, <2>3 DEF IInv, ArrivalInv, TurnTypes
  <2>11. PickInv'
    BY <1>1, <1>7, <1>8, <1>9, <1>10, <1>14, <2>1 DEF IInv, PickInv
  <2>12. BegunInv'
    BY <1>14, <2>1, <2>2, <2>3, <2>4 DEF IInv, BegunInv, TurnTypes
  <2>13. StoppedInv'
    BY <1>1, <1>2, <1>7, <1>8, <1>9, <1>10, <1>14, <2>1, <2>2, <2>3
       DEF IInv, StoppedInv, BegunInv, TurnTypes
  <2>14. AskInv'
    BY <1>1, <1>7, <1>8, <1>9, <1>10, <1>14, <2>1, <2>4 DEF IInv, AskInv, AskTypes, AskTables
  <2>15. ClientInv'
    BY <1>1, <1>5, <1>6, <1>7, <1>8, <1>9, <1>10, <1>14, <2>1, <2>4
       DEF IInv, ClientInv, HandlerTypes, HandlerRows
  <2>16. NoOrphanHost'
    BY DEF NoOrphanHost
  <2>17. SourceIsCurrent'
    BY <1>14, <2>1, <2>4 DEF IInv, SourceIsCurrent
  <2>18. StoppedTurnsAreSilent'
    BY <1>14, <2>1, <2>4 DEF IInv, StoppedTurnsAreSilent, WorkerInv
  <2> QED  BY <1>11, <1>12, <1>13, <2>5, <2>6, <2>7, <2>8, <2>9, <2>10, <2>11, <2>12, <2>13, <2>14,
              <2>15, <2>16, <2>17, <2>18
              DEF IInv
<1>15. CASE /\ worker.turn \notin Notices
            /\ worker' = At("submit", worker.turn, worker.host) /\ turnActive' = TRUE /\ fate' = fates /\ Begins
  <2>1. UNCHANGED <<source, pending, current, asks>>
    BY <1>15 DEF Begins
  <2>2. worker.turn \notin Notices
    BY <1>15
  <2>3. turnActive' = TRUE
    BY <1>15
  <2>4. fate' = fates
    BY <1>15
  <2>5. /\ fate' \in [Turns -> Fates]
        /\ \A t \in Turns : fate[t] \in Unbegun => fate'[t] = fate[t]
        /\ \A t \in Turns : fate[t] \notin Unbegun => fate'[t] \notin Unbegun
    BY <2>1, <2>2, <2>3, <2>4 DEF IInv, TurnTypes, BegunInv
  <2>6. worker' \in WorkerRows /\ worker'.at = "submit" /\ worker'.turn = worker.turn
        /\ worker'.host = worker.host
    BY <1>15, <1>1, <1>2, <1>3, <1>4, <1>5, <1>6, <1>7, <1>8, <1>9, <1>10, <2>1, <2>2, <2>3, <2>4,
       <2>5
       DEF At, WorkerRows
  <2>7. TurnTypes'
    BY <1>1, <1>7, <1>8, <1>9, <1>10, <1>15, <2>1, <2>2, <2>4, <2>5 DEF IInv, TurnTypes
  <2>8. WorkerTypes'
    BY <1>1, <1>7, <1>8, <1>9, <1>10, <1>15, <2>1, <2>2, <2>3, <2>6
       DEF IInv, WorkerTypes, WorkerRows
  <2>9. AskTypes'
    BY <1>1, <1>7, <1>8, <1>9, <1>10, <1>15, <2>1, <2>2 DEF IInv, AskTypes
  <2>10. WorkerInv'
    BY <1>15, <2>1, <2>2, <2>3, <2>6 DEF IInv, WorkerInv, WorkerTypes
  <2>11. QueueInv'
    BY <1>1, <1>8, <1>9, <1>10, <1>15, <2>1, <2>2, <2>4, <2>5, StaysQueued DEF IInv
  <2>12. ArrivalInv'
    BY <1>1, <1>7, <1>8, <1>9, <1>10, <1>15, <2>1, <2>2, <2>4, <2>5 DEF IInv, ArrivalInv, TurnTypes
  <2>13. PickInv'
    BY <1>1, <1>7, <1>8, <1>9, <1>10, <1>15, <2>1, <2>2 DEF IInv, PickInv
  <2>14. BegunInv'
    BY <1>15, <2>1, <2>2, <2>4, <2>5, <2>6 DEF IInv, BegunInv, TurnTypes
  <2>15. StoppedInv'
    BY <1>1, <1>2, <1>7, <1>8, <1>9, <1>10, <1>15, <2>1, <2>2, <2>4, <2>5
       DEF IInv, StoppedInv, BegunInv, TurnTypes
  <2>16. AskInv'
    BY <1>1, <1>7, <1>8, <1>9, <1>10, <1>15, <2>1, <2>2, <2>6 DEF IInv, AskInv, AskTypes, AskTables
  <2>17. ClientInv'
    BY <1>1, <1>6, <1>7, <1>8, <1>9, <1>10, <1>15, <2>1, <2>2, <2>6
       DEF IInv, ClientInv, HandlerTypes, HandlerRows
  <2>18. NoOrphanHost'
    BY DEF NoOrphanHost
  <2>19. SourceIsCurrent'
    BY <1>15, <2>1, <2>2, <2>3, <2>6 DEF IInv, SourceIsCurrent
  <2>20. StoppedTurnsAreSilent'
    BY <2>1, <2>2, <2>6 DEF IInv, StoppedTurnsAreSilent, WorkerInv
  <2> QED  BY <1>11, <1>12, <1>13, <2>7, <2>8, <2>9, <2>10, <2>11, <2>12, <2>13, <2>14, <2>15,
              <2>16, <2>17, <2>18, <2>19, <2>20
              DEF IInv
<1>16. CASE worker' = Looping /\ fate' = [fates EXCEPT ![worker.turn] = "dropped"] /\ Ends
  <2>1. source' = None /\ pending' = None
    BY <1>16 DEF Ends
  <2>2. turnActive' = FALSE
    BY <1>16 DEF Ends
  <2>3. current' = None
    BY <1>16 DEF Ends
  <2>4. Silenced(asks')
    BY <1>16, Silences DEF Ends
  <2>5. fate' = [fates EXCEPT ![worker.turn] = "dropped"]
    BY <1>16
  <2>6. /\ fate' \in [Turns -> Fates]
        /\ \A t \in Turns : fate[t] \in Unbegun => fate'[t] = fate[t]
        /\ \A t \in Turns : fate[t] \notin Unbegun => fate'[t] \notin Unbegun
    BY <1>7, <1>8, <1>9, <1>10, <1>16, <2>1, <2>2, <2>3, <2>4, <2>5 DEF IInv, TurnTypes, BegunInv
  <2>7. worker' \in WorkerRows /\ worker'.at = "loop" /\ worker'.turn = None /\ worker'.host = 0
    BY <1>16 DEF Looping, Idle, WorkerRows
  <2>8. TurnTypes'
    BY <1>1, <1>3, <1>7, <1>8, <1>9, <1>10, <1>16, <2>5, <2>6 DEF IInv, TurnTypes
  <2>9. WorkerTypes'
    BY <1>1, <1>2, <1>7, <1>8, <1>9, <1>10, <1>16, <2>1, <2>2, <2>3, <2>7
       DEF IInv, WorkerTypes, WorkerRows
  <2>10. AskTypes'
    BY <1>1, <1>7, <1>8, <1>9, <1>10, <1>16, <2>1, <2>4, SilencedAsks DEF IInv, AskTypes
  <2>11. WorkerInv'
    BY <2>2, <2>3, <2>7 DEF IInv, WorkerInv, WorkerTypes
  <2>12. QueueInv'
    BY <1>1, <1>7, <1>8, <1>9, <1>10, <1>16, <2>5, <2>6, StaysQueued DEF IInv
  <2>13. ArrivalInv'
    BY <1>1, <1>7, <1>8, <1>9, <1>10, <1>16, <2>5, <2>6 DEF IInv, ArrivalInv, TurnTypes
  <2>14. PickInv'
    BY <1>1, <1>7, <1>8, <1>9, <1>10, <1>16, <2>4 DEF IInv, PickInv, Silenced
  <2>15. BegunInv'
    BY <1>16, <2>3, <2>5, <2>6, <2>7 DEF IInv, BegunInv, TurnTypes
  <2>16. StoppedInv'
    BY <1>1, <1>7, <1>8, <1>9, <1>10, <1>16, <2>3, <2>5, <2>6, EndsStopped DEF IInv
  <2>17. AskInv'
    BY <1>1, <1>8, <1>9, <1>10, <1>16, <2>1, <2>3, <2>4, <2>7, SilencedAsks DEF IInv, AskTypes
  <2>18. ClientInv'
    BY <1>1, <1>5, <1>6, <1>7, <1>8, <1>9, <1>10, <1>16, <2>7
       DEF IInv, ClientInv, HandlerTypes, HandlerRows
  <2>19. NoOrphanHost'
    BY DEF NoOrphanHost
  <2>20. SourceIsCurrent'
    BY <1>16, <2>1, <2>2, <2>3, <2>7 DEF IInv, SourceIsCurrent
  <2>21. StoppedTurnsAreSilent'
    BY <1>16, <2>7 DEF IInv, StoppedTurnsAreSilent, WorkerInv
  <2> QED  BY <1>11, <1>12, <1>13, <2>8, <2>9, <2>10, <2>11, <2>12, <2>13, <2>14, <2>15, <2>16,
              <2>17, <2>18, <2>19, <2>20, <2>21
              DEF IInv
<1>17. CASE /\ worker' = Looping /\ fate' = fates /\ UNCHANGED turnActive /\ Begins
  <2>1. UNCHANGED <<turnActive, source, pending, current, asks>>
    BY <1>17 DEF Begins
  <2>2. fate' = fates
    BY <1>17
  <2>3. /\ fate' \in [Turns -> Fates]
        /\ \A t \in Turns : fate[t] \in Unbegun => fate'[t] = fate[t]
        /\ \A t \in Turns : fate[t] \notin Unbegun => fate'[t] \notin Unbegun
    BY <1>10, <1>17, <2>1, <2>2 DEF IInv, TurnTypes, BegunInv
  <2>4. worker' \in WorkerRows /\ worker'.at = "loop" /\ worker'.turn = None /\ worker'.host = 0
    BY <1>17 DEF Looping, Idle, WorkerRows
  <2>5. TurnTypes'
    BY <1>1, <1>3, <1>7, <1>8, <1>9, <1>10, <1>17, <2>1, <2>2, <2>3 DEF IInv, TurnTypes
  <2>6. WorkerTypes'
    BY <1>1, <1>7, <1>8, <1>9, <1>10, <1>17, <2>1, <2>4 DEF IInv, WorkerTypes, WorkerRows
  <2>7. AskTypes'
    BY <1>1, <1>7, <1>8, <1>9, <1>10, <1>17, <2>1 DEF IInv, AskTypes
  <2>8. WorkerInv'
    BY <1>17, <2>1, <2>4 DEF IInv, WorkerInv, WorkerTypes
  <2>9. QueueInv'
    BY <1>1, <1>7, <1>8, <1>9, <1>10, <1>17, <2>1, <2>2, <2>3, StaysQueued DEF IInv
  <2>10. ArrivalInv'
    BY <1>1, <1>7, <1>8, <1>9, <1>10, <1>17, <2>1, <2>2, <2>3 DEF IInv, ArrivalInv, TurnTypes
  <2>11. PickInv'
    BY <1>1, <1>7, <1>8, <1>9, <1>10, <1>17, <2>1 DEF IInv, PickInv
  <2>12. BegunInv'
    BY <1>17, <2>1, <2>2, <2>3, <2>4 DEF IInv, BegunInv, TurnTypes
  <2>13. StoppedInv'
    BY <1>1, <1>2, <1>7, <1>8, <1>9, <1>10, <1>17, <2>1, <2>2, <2>3
       DEF IInv, StoppedInv, BegunInv, TurnTypes
  <2>14. AskInv'
    BY <1>1, <1>7, <1>8, <1>9, <1>10, <1>17, <2>1, <2>4 DEF IInv, AskInv, AskTypes, AskTables
  <2>15. ClientInv'
    BY <1>1, <1>5, <1>6, <1>7, <1>8, <1>9, <1>10, <1>17, <2>1, <2>4
       DEF IInv, ClientInv, HandlerTypes, HandlerRows
  <2>16. NoOrphanHost'
    BY DEF NoOrphanHost
  <2>17. SourceIsCurrent'
    BY <1>17, <2>1, <2>4 DEF IInv, SourceIsCurrent
  <2>18. StoppedTurnsAreSilent'
    BY <1>17, <2>1, <2>4 DEF IInv, StoppedTurnsAreSilent, WorkerInv
  <2> QED  BY <1>11, <1>12, <1>13, <2>5, <2>6, <2>7, <2>8, <2>9, <2>10, <2>11, <2>12, <2>13, <2>14,
              <2>15, <2>16, <2>17, <2>18
              DEF IInv
<1> QED  BY <1>14, <1>15, <1>16, <1>17 DEF Submits

LEMMA ConnectedStep == ASSUME IInv, Connected PROVE IInv'
<1>1. worker.at = "connect" /\ worker.host \in Hosts /\ client = 0
      /\ connecting \in {0, worker.host}
  BY DEF Connected, IInv, ClientInv, WorkerInv, WorkerTypes, WorkerRows
<1>2. CASE ~Wanted
  BY <1>1, <1>2, UnwantedStep DEF Connected, Wanted
<1>3. CASE Wanted
  <2> DEFINE asked == hosts[worker.host].thread
             thread == IF asked = 0 THEN worker.host ELSE asked
  <2>1. hosts[worker.host].life = "starting" /\ hosts \in HostTables
    BY <1>1, <1>3 DEF Connected, Wanted, IInv, ClientInv, HostTypes
  <2>2. /\ client' = worker.host /\ connecting' = 0 /\ Remembers(thread) /\ pendingContext' = pendingContext
        /\ Starting /\ Submits(worker.turn, worker.host, pendingContext, fate)
    BY <1>3 DEF Connected
  <2>3. hosts' = [hosts EXCEPT ![worker.host] = [life |-> "up", thread |-> thread]]
    BY <1>3, <2>1 DEF Connected
  <2>4. thread \in Threads
    BY <1>1, <2>1 DEF HostTables
  <2> HIDE DEF thread
  <2>5. /\ hosts' \in HostTables /\ hosts'[worker.host].life = "up"
        /\ \A g \in Hosts : g # worker.host => hosts'[g] = hosts[g]
    BY <1>1, <2>1, <2>3, <2>4 DEF HostTables
  <2>6. \A h \in Hosts : hosts[h].life \in {"closing", "gone"} => hosts'[h].life \in {"closing", "gone"}
    BY <1>1, <2>1, <2>5
  <2>7. \A h \in Hosts : hosts'[h].life \in {"starting", "up"} => h = worker.host
    BY <1>1, <2>5 DEF IInv, NoOrphanHost
  <2>8. resume' \in {0} \cup Threads /\ saved' \in {0} \cup Threads
    BY <2>2, <2>4 DEF Remembers
  <2>9. fate \in [Turns -> Fates] /\ pendingContext' = pendingContext
    BY <2>2 DEF IInv, TurnTypes
  <2>10. Submits(worker.turn, worker.host, pendingContext', fate)
    BY <2>2
  <2>11. \A t \in Turns : fate[t] = fate[t] \/ (t \in pendingContext /\ fate[t] = "done")
    OBVIOUS
  <2> QED
    BY <1>1, <2>2, <2>5, <2>6, <2>7, <2>8, <2>9, <2>10, <2>11, SubmitsStep
<1> QED  BY <1>2, <1>3

LEMMA FlushedStep == ASSUME IInv, Flushed PROVE IInv'
<1> DEFINE fates == [t \in Turns |-> IF t \in pendingContext THEN "done" ELSE fate[t]]
<1>1. worker.at = "flush" /\ worker.host \in Hosts /\ hosts[worker.host].life = "up"
      /\ connecting = 0
  BY DEF Flushed, IInv, ClientInv, WorkerInv, WorkerTypes, WorkerRows
<1>2. /\ pendingContext' = {} /\ Submits(worker.turn, worker.host, {}, fates) /\ Starting
      /\ UNCHANGED <<servers, memory>>
  BY DEF Flushed
<1>3. UNCHANGED <<client, connecting, hosts, resume, saved>>
  BY <1>2 DEF servers, memory
<1>4. fates \in [Turns -> Fates] /\ \A t \in Turns : fates[t] = fate[t] \/ (t \in pendingContext /\ fates[t] = "done")
  BY DEF IInv, TurnTypes
<1> HIDE DEF fates
<1>5. client = worker.host /\ \A h \in Hosts : hosts[h].life \in {"starting", "up"} => h = worker.host
  BY <1>1 DEF IInv, NoOrphanHost
<1>6. hosts \in HostTables /\ resume \in {0} \cup Threads /\ saved \in {0} \cup Threads
  BY DEF IInv, HostTypes
<1> QED  BY <1>1, <1>2, <1>3, <1>4, <1>5, <1>6, SubmitsStep

\* The turn is unwound; its client is whole, dead or given up.
LEMMA UnwindsStep ==
  ASSUME IInv, worker.at \in Working, NEW result \in {"reply", "error"}, Unwinds(result), Running,
         capture' \in {"none", "asked", "going", "reply", "error"},
         resume' \in {0} \cup Threads, saved' \in {0} \cup Threads, UNCHANGED <<client,
                                                                                connecting>>,
         hosts' \in HostTables,
         \A h \in Hosts : hosts[h].life \in {"closing", "gone"} => hosts'[h].life \in {"closing", "gone"},
         \A h \in Hosts : hosts'[h].life \in {"starting", "up"} => h = client,
         client # 0 => hosts'[client].life \in {"up", "dead"}
  PROVE  IInv'
<1>1. UNCHANGED <<todo, queue, pendingContext, current, interrupting, client, connecting, handlers,
                  lock, stopped, doomed, left, unwritten, recoveries, crashes>>
  BY DEF Running, Aside
<1>2. worker.at \in Working
  OBVIOUS
<1>3. capture' \in {"none", "asked", "going", "reply", "error"}
  OBVIOUS
<1>4. resume' \in {0} \cup Threads /\ saved' \in {0} \cup Threads
  OBVIOUS
<1>5. /\ hosts' \in HostTables
      /\ \A h \in Hosts : hosts[h].life \in {"closing", "gone"} => hosts'[h].life \in {"closing", "gone"}
      /\ \A h \in Hosts : hosts'[h].life \in {"starting", "up"} => h = client
      /\ client # 0 => hosts'[client].life \in {"up", "dead"}
  OBVIOUS
<1>6. connecting = 0
  BY DEF IInv, ClientInv
<1>7. /\ worker.turn \in Turns /\ worker.turn \notin Notices /\ current = worker.turn
      /\ worker.host \in {0} \cup Hosts /\ fate[worker.turn] \notin Unbegun
  BY DEF IInv, WorkerInv, WorkerTypes, WorkerRows, BegunInv
<1>8. source' = None /\ pending' = None
  BY DEF Unwinds
<1>9. turnActive' = FALSE
  BY DEF Unwinds
<1>10. Silenced(asks')
  BY Silences DEF Unwinds
<1>11. /\ worker' \in WorkerRows /\ worker'.at = "unwind"
       /\ worker'.turn = worker.turn /\ worker'.host = worker.host
  BY <1>7, <1>8, <1>9, <1>10 DEF Unwinds, At, WorkerRows
<1>12. /\ fate' \in [Turns -> Fates]
       /\ \A t \in Turns : fate[t] \in Unbegun => fate'[t] = fate[t]
       /\ \A t \in Turns : fate[t] \notin Unbegun => fate'[t] \notin Unbegun
  BY <1>7, <1>8, <1>9, <1>10, <1>11 DEF Unwinds, IInv, TurnTypes
<1>13. HandlerTypes' /\ HistoryTypes'
  BY <1>1 DEF IInv, HandlerTypes, HistoryTypes
<1>14. TurnTypes'
  BY <1>1, <1>6, <1>7, <1>12 DEF IInv, TurnTypes
<1>15. WorkerTypes'
  BY <1>1, <1>2, <1>3, <1>6, <1>7, <1>8, <1>9, <1>11 DEF IInv, WorkerTypes, WorkerRows
<1>16. HostTypes'
  BY <1>1 DEF IInv, HostTypes
<1>17. AskTypes'
  BY <1>1, <1>7, <1>8, <1>10, SilencedAsks DEF IInv, AskTypes
<1>18. WorkerInv'
  BY <1>1, <1>7, <1>9, <1>11 DEF IInv, WorkerInv, WorkerTypes
<1>19. QueueInv'
  BY <1>1, <1>7, <1>12, StaysQueued DEF IInv
<1>20. ArrivalInv'
  BY <1>1, <1>6, <1>7, <1>12 DEF IInv, ArrivalInv, TurnTypes
<1>21. PickInv'
  BY <1>1, <1>6, <1>7, <1>10 DEF IInv, PickInv, Silenced
<1>22. BegunInv'
  BY <1>1, <1>7, <1>11, <1>12 DEF IInv, BegunInv, TurnTypes
<1>23. StoppedInv'
  BY <1>1, <1>2, <1>6, <1>7, <1>12 DEF IInv, StoppedInv, BegunInv
<1>24. AskInv'
  BY <1>1, <1>6, <1>7, <1>8, <1>10, <1>11, SilencedAsks DEF IInv, AskTypes
<1>25. ClientInv'
  BY <1>1, <1>6, <1>7, <1>11 DEF IInv, ClientInv, HandlerTypes, HandlerRows
<1>26. NoOrphanHost'
  BY DEF NoOrphanHost
<1>27. LateStartupIsDisposed'
  BY DEF LateStartupIsDisposed, HostTypes, HostTables
<1>28. SourceIsCurrent'
  BY <1>8, <1>9, <1>11 DEF IInv, SourceIsCurrent
<1>29. StoppedTurnsAreSilent'
  BY <1>7, <1>11 DEF IInv, StoppedTurnsAreSilent, WorkerInv
<1> QED  BY <1>13, <1>14, <1>15, <1>16, <1>17, <1>18, <1>19, <1>20, <1>21, <1>22, <1>23, <1>24,
            <1>25, <1>26, <1>27, <1>28, <1>29
            DEF IInv

\* The turn is submitted: its source is live.
LEMMA GoesStep ==
  ASSUME IInv, Submit, worker' = [worker EXCEPT !.at = "running"], ~interrupting, hosts[worker.host].life = "up",
         capture' = "asked", source' = worker.turn, UNCHANGED <<pending, asks, turnActive, fate,
                                                                memory>>
  PROVE  IInv'
<1>1. UNCHANGED <<todo, queue, fate, pendingContext, current, turnActive, interrupting, client,
                  connecting, hosts, resume, saved, handlers, asks, pending, lock, stopped, doomed,
                  left, unwritten, recoveries, crashes>>
  BY DEF Submit, Running, Aside, servers, memory
<1>2. worker.at = "submit" /\ worker.turn = current /\ current \in Turns /\ worker.host \in Hosts
  BY DEF Submit, IInv, WorkerInv, WorkerTypes, WorkerRows
<1>3. turnActive /\ ~interrupting
  BY <1>2 DEF IInv, WorkerInv
<1>4. client = worker.host
  BY <1>2 DEF IInv, ClientInv, NoOrphanHost
<1>5. source' = worker.turn
  OBVIOUS
<1>6. capture' = "asked"
  OBVIOUS
<1>7. /\ worker' \in WorkerRows /\ worker'.at = "running"
      /\ worker'.turn = worker.turn /\ worker'.host = worker.host
  BY DEF IInv, WorkerTypes, WorkerRows
<1>8. \A q \in Questions : asks[q].at \notin Displayed \cup {"waiting"}
  BY <1>2, <1>3, <1>4, <1>5, <1>6, <1>7 DEF IInv, AskInv
<1>9. TurnTypes' /\ HostTypes' /\ HandlerTypes' /\ AskTypes' /\ HistoryTypes' /\ QueueInv'
      /\ ArrivalInv' /\ PickInv' /\ StoppedInv' /\ LateStartupIsDisposed'
  BY <1>1
     DEF IInv, TurnTypes, HostTypes, HandlerTypes, AskTypes, HistoryTypes, QueueInv, ArrivalInv,
         PickInv, StoppedInv, LateStartupIsDisposed
<1>10. WorkerTypes'
  BY <1>1, <1>3, <1>4, <1>5, <1>6, <1>7, <1>8 DEF IInv, WorkerTypes, WorkerRows
<1>11. WorkerInv'
  BY <1>1, <1>2, <1>3, <1>4, <1>7, <1>8 DEF IInv, WorkerInv, WorkerTypes
<1>12. BegunInv'
  BY <1>1 DEF IInv, BegunInv, TurnTypes
<1>13. AskInv'
  BY <1>1 DEF IInv, AskInv, AskTypes, AskTables
<1>14. ClientInv'
  BY <1>1, <1>4, <1>7, <1>8 DEF IInv, ClientInv
<1>15. NoOrphanHost'
  BY <1>1, <1>4, <1>7, <1>8 DEF IInv, NoOrphanHost
<1>16. SourceIsCurrent'
  BY <1>1, <1>2, <1>3, <1>4, <1>5, <1>7, <1>8 DEF IInv, SourceIsCurrent
<1>17. StoppedTurnsAreSilent'
  BY DEF StoppedTurnsAreSilent, WorkerInv
<1> QED  BY <1>9, <1>10, <1>11, <1>12, <1>13, <1>14, <1>15, <1>16, <1>17 DEF IInv

\* A client that the worker uses is the only one, and stays as it is.
LEMMA Kept ==
  ASSUME IInv, worker.at \in {"submit", "running"}
  PROVE  /\ hosts \in HostTables
         /\ client # 0 => hosts[client].life \in {"up", "dead"}
         /\ \A h \in Hosts : hosts[h].life \in {"starting", "up"} => h = client
         /\ worker.host \in Hosts /\ resume \in {0} \cup Threads /\ saved \in {0} \cup Threads
BY DEF IInv, HostTypes, WorkerInv, WorkerTypes, WorkerRows, ClientInv, NoOrphanHost,
       LateStartupIsDisposed

LEMMA SubmitStep == ASSUME IInv, Submit PROVE IInv'
<1>1. /\ worker.at = "submit" /\ UNCHANGED <<client, connecting, hosts>> /\ Running
      /\ capture \in {"none", "asked", "going", "reply", "error"}
  BY DEF Submit, servers, IInv, WorkerTypes
<1>2. CASE Unwinds("reply") /\ Remembers(hosts[worker.host].thread) /\ capture' = capture
  <2>1. resume' \in {0} \cup Threads /\ saved' \in {0} \cup Threads
    BY <1>1, <1>2, Kept DEF Remembers, HostTables
  <2> QED  BY <1>1, <1>2, <2>1, Kept, UnwindsStep
<1>3. CASE Unwinds("error") /\ UNCHANGED <<capture, memory>>
  BY <1>1, <1>3, Kept, UnwindsStep DEF memory
<1>4. CASE /\ ~interrupting /\ hosts[worker.host].life = "up"
           /\ worker' = [worker EXCEPT !.at = "running"] /\ capture' = "asked"
           /\ source' = worker.turn /\ UNCHANGED <<pending, asks, turnActive, fate, memory>>
  BY <1>4, GoesStep
<1> QED  BY <1>2, <1>3, <1>4 DEF Submit

LEMMA FinishesStep == ASSUME IInv, Finishes PROVE IInv'
<1>1. /\ worker.at = "running" /\ UNCHANGED <<client, connecting, hosts>> /\ Running
      /\ capture \in {"reply", "error"} /\ capture' = "none" /\ Unwinds(capture)
  BY DEF Finishes, servers
<1>2. resume' \in {0} \cup Threads /\ saved' \in {0} \cup Threads
  BY <1>1, Kept DEF Finishes, Remembers, HostTables, memory
<1>3. Unwinds("reply") \/ Unwinds("error")
  BY <1>1 DEF Unwinds
<1> QED  BY <1>1, <1>2, <1>3, Kept, UnwindsStep

LEMMA ClosedStep == ASSUME IInv, Closed PROVE IInv'
<1>1. /\ worker.at = "close" /\ UNCHANGED <<client, connecting, capture, memory>> /\ Running
      /\ Unwinds("error") /\ hosts' = Ended(worker.host, "gone")
  BY DEF Closed
<1>2. client = 0 /\ connecting = 0 /\ worker.host \in {0} \cup Hosts
  BY <1>1 DEF IInv, ClientInv, WorkerTypes, WorkerRows
<1>3. /\ hosts' \in HostTables
      /\ worker.host # 0 => hosts'[worker.host].life = "gone"
      /\ \A g \in Hosts : g # worker.host => hosts'[g] = hosts[g]
  BY <1>1, <1>2, EndsHost DEF IInv
<1>4. \A h \in Hosts : hosts'[h].life \notin {"starting", "up"}
  BY <1>1, <1>2, <1>3 DEF IInv, NoOrphanHost
<1>5. \A h \in Hosts : hosts[h].life \in {"closing", "gone"} => hosts'[h].life \in {"closing", "gone"}
  BY <1>2, <1>3
<1>6. /\ capture' \in {"none", "asked", "going", "reply", "error"}
      /\ resume' \in {0} \cup Threads /\ saved' \in {0} \cup Threads
  BY <1>1 DEF memory, IInv, WorkerTypes, HostTypes
<1> QED  BY <1>1, <1>2, <1>3, <1>4, <1>5, <1>6, UnwindsStep

LEMMA TurnTimesOutStep == ASSUME IInv, TurnTimesOut PROVE IInv'
<1>1. UNCHANGED <<todo, queue, fate, pendingContext, current, turnActive, interrupting, resume,
                  saved, handlers, lock, stopped, doomed, left, unwritten, recoveries, crashes>>
  BY DEF TurnTimesOut, Running, Aside, memory
<1>2. worker.at = "running" /\ turnActive /\ worker.turn = current /\ current \in Turns
  BY DEF TurnTimesOut, IInv, WorkerInv, WorkerTypes, WorkerRows
<1>3. Silenced(asks')
  BY Silences DEF TurnTimesOut, CloseClients
<1>4. source' = None /\ pending' = None
  BY DEF TurnTimesOut, CloseClients
<1>5. capture' = "none"
  BY DEF TurnTimesOut
<1>6. /\ Open \in {0} \cup Hosts /\ hosts' \in HostTables /\ client' = 0 /\ connecting' = 0
      /\ Open # 0 => hosts'[Open].life = "closing"
      /\ \A h \in Hosts :
           /\ hosts[h].life \in {"closing", "gone"} => hosts'[h].life \in {"closing", "gone"}
           /\ hosts'[h].life \in {"starting", "up"} => worker.at = "dispose" /\ worker.host = h
  BY Closes DEF TurnTimesOut, CloseClients
<1>7. worker' = [worker EXCEPT !.at = "close", !.host = Open]
  BY DEF TurnTimesOut
<1>8. /\ worker' \in WorkerRows /\ worker'.at = "close"
      /\ worker'.turn = worker.turn /\ worker'.host = Open
  BY <1>1, <1>2, <1>3, <1>4, <1>5, <1>6, <1>7 DEF IInv, WorkerTypes, WorkerRows
<1>9. TurnTypes' /\ HandlerTypes' /\ HistoryTypes' /\ QueueInv' /\ ArrivalInv' /\ StoppedInv'
  BY <1>1 DEF IInv, TurnTypes, HandlerTypes, HistoryTypes, QueueInv, ArrivalInv, StoppedInv
<1>10. WorkerTypes'
  BY <1>1, <1>4, <1>5, <1>7, <1>8 DEF IInv, WorkerTypes, WorkerRows
<1>11. HostTypes'
  BY <1>1, <1>6 DEF IInv, HostTypes
<1>12. AskTypes'
  BY <1>1, <1>3, <1>4, SilencedAsks DEF IInv, AskTypes
<1>13. WorkerInv'
  BY <1>1, <1>2, <1>7, <1>8 DEF IInv, WorkerInv, WorkerTypes
<1>14. PickInv'
  BY <1>1, <1>3 DEF IInv, PickInv, Silenced
<1>15. BegunInv'
  BY <1>1, <1>7, <1>8 DEF IInv, BegunInv, TurnTypes
<1>16. AskInv'
  BY <1>1, <1>3, <1>4, <1>7, <1>8, SilencedAsks DEF IInv, AskTypes
<1>17. ClientInv'
  BY <1>1, <1>6, <1>7, <1>8 DEF IInv, ClientInv, HandlerTypes, HandlerRows
<1>18. NoOrphanHost'
  BY <1>2, <1>6, <1>7, <1>8 DEF IInv, NoOrphanHost
<1>19. LateStartupIsDisposed'
  BY <1>6 DEF IInv, LateStartupIsDisposed, HostTypes, HostTables
<1>20. SourceIsCurrent'
  BY <1>4, <1>6, <1>7, <1>8 DEF IInv, SourceIsCurrent
<1>21. StoppedTurnsAreSilent'
  BY <1>8 DEF IInv, StoppedTurnsAreSilent, WorkerInv
<1> QED  BY <1>9, <1>10, <1>11, <1>12, <1>13, <1>14, <1>15, <1>16, <1>17, <1>18, <1>19, <1>20, <1>21
            DEF IInv

LEMMA StartsStep == ASSUME IInv, Starts PROVE IInv'
<1>1. UNCHANGED <<todo, queue, fate, pendingContext, worker, current, turnActive, interrupting,
                  client, connecting, hosts, resume, saved, source, handlers, asks, pending, lock,
                  stopped, doomed, left, unwritten, recoveries, crashes>>
  BY DEF Starts, Elsewhere, Aside, turns, flags, memory
<1>2. capture' \in {"going", "error"}
  BY DEF Starts
<1>3. TurnTypes' /\ HostTypes' /\ HandlerTypes' /\ AskTypes' /\ HistoryTypes' /\ WorkerInv'
      /\ QueueInv' /\ ArrivalInv' /\ PickInv' /\ BegunInv' /\ StoppedInv' /\ AskInv'
      /\ ClientInv' /\ NoOrphanHost' /\ LateStartupIsDisposed' /\ SourceIsCurrent'
      /\ StoppedTurnsAreSilent'
  BY <1>1
     DEF IInv, TurnTypes, HostTypes, HandlerTypes, AskTypes, HistoryTypes, WorkerInv, QueueInv,
         ArrivalInv, PickInv, BegunInv, StoppedInv, AskInv, ClientInv, NoOrphanHost,
         LateStartupIsDisposed, SourceIsCurrent, StoppedTurnsAreSilent
<1>4. WorkerTypes'
  BY <1>1, <1>2 DEF IInv, WorkerTypes, WorkerRows
<1> QED  BY <1>3, <1>4 DEF IInv

LEMMA DisconnectsStep == ASSUME IInv, Disconnects PROVE IInv'
<1>1. UNCHANGED <<todo, queue, fate, pendingContext, worker, current, turnActive, interrupting,
                  client, connecting, hosts, resume, saved, source, handlers, asks, pending, lock,
                  stopped, doomed, left, unwritten, recoveries, crashes>>
  BY DEF Disconnects, Elsewhere, Aside, turns, flags, memory
<1>2. capture' = "error"
  BY DEF Disconnects
<1>3. TurnTypes' /\ HostTypes' /\ HandlerTypes' /\ AskTypes' /\ HistoryTypes' /\ WorkerInv'
      /\ QueueInv' /\ ArrivalInv' /\ PickInv' /\ BegunInv' /\ StoppedInv' /\ AskInv'
      /\ ClientInv' /\ NoOrphanHost' /\ LateStartupIsDisposed' /\ SourceIsCurrent'
      /\ StoppedTurnsAreSilent'
  BY <1>1
     DEF IInv, TurnTypes, HostTypes, HandlerTypes, AskTypes, HistoryTypes, WorkerInv, QueueInv,
         ArrivalInv, PickInv, BegunInv, StoppedInv, AskInv, ClientInv, NoOrphanHost,
         LateStartupIsDisposed, SourceIsCurrent, StoppedTurnsAreSilent
<1>4. WorkerTypes'
  BY <1>1, <1>2 DEF IInv, WorkerTypes, WorkerRows
<1> QED  BY <1>3, <1>4 DEF IInv

LEMMA CompletesStep == ASSUME IInv, Completes PROVE IInv'
<1>1. UNCHANGED <<todo, queue, fate, pendingContext, worker, current, turnActive, interrupting,
                  client, connecting, hosts, resume, saved, source, handlers, pending, lock,
                  stopped, doomed, left, unwritten, recoveries, crashes>>
  BY DEF Completes, Elsewhere, Aside, turns, flags, memory
<1>2. capture' \in {"reply", "error"}
  BY DEF Completes
<1>3. /\ asks' \in AskTables
      /\ \A q \in Asks : asks'[q] = asks[q] \/ (asks'[q].at = "cancelled" /\ q \in Questions)
  BY AbandonedAsks DEF Completes, IInv
<1>4. TurnTypes' /\ HostTypes' /\ HandlerTypes' /\ HistoryTypes' /\ WorkerInv' /\ QueueInv'
      /\ ArrivalInv' /\ BegunInv' /\ StoppedInv' /\ ClientInv' /\ NoOrphanHost'
      /\ LateStartupIsDisposed' /\ SourceIsCurrent' /\ StoppedTurnsAreSilent'
  BY <1>1
     DEF IInv, TurnTypes, HostTypes, HandlerTypes, HistoryTypes, WorkerInv, QueueInv, ArrivalInv,
         BegunInv, StoppedInv, ClientInv, NoOrphanHost, LateStartupIsDisposed, SourceIsCurrent,
         StoppedTurnsAreSilent
<1>5. WorkerTypes'
  BY <1>1, <1>2 DEF IInv, WorkerTypes, WorkerRows
<1>6. AskTypes'
  BY <1>1, <1>3 DEF IInv, AskTypes
<1>7. PickInv'
  BY <1>1, <1>3 DEF IInv, PickInv
<1>8. AskInv'
  BY <1>1, <1>3 DEF IInv, AskInv, AskTypes, AskTables
<1> QED  BY <1>4, <1>5, <1>6, <1>7, <1>8 DEF IInv

LEMMA HostExitsStep == ASSUME IInv, NEW h \in Hosts, HostExits(h) PROVE IInv'
<1>1. UNCHANGED <<todo, queue, fate, pendingContext, worker, current, turnActive, interrupting,
                  client, connecting, resume, saved, source, handlers, pending, lock, stopped,
                  doomed, left, unwritten, recoveries, crashes>>
  BY DEF HostExits, Elsewhere, Aside, turns, flags, memory
<1>2. capture' \in {"none", "asked", "going", "reply", "error"}
  BY DEF HostExits, IInv, WorkerTypes
<1>3. /\ asks' \in AskTables
      /\ \A q \in Asks : asks'[q] = asks[q] \/ (asks'[q].at = "cancelled" /\ q \in Questions)
  BY AbandonedAsks DEF HostExits, IInv
<1>4. hosts[h].life \in {"starting", "up"} /\ hosts' = Ended(h, "dead")
  BY DEF HostExits, Ended
<1>5. /\ hosts' \in HostTables /\ hosts'[h].life = "dead"
      /\ \A g \in Hosts : g # h => hosts'[g] = hosts[g]
  BY <1>4, EndsHost DEF IInv
<1>6. TurnTypes' /\ HandlerTypes' /\ HistoryTypes' /\ WorkerInv' /\ QueueInv' /\ ArrivalInv'
      /\ BegunInv' /\ StoppedInv' /\ SourceIsCurrent' /\ StoppedTurnsAreSilent'
  BY <1>1
     DEF IInv, TurnTypes, HandlerTypes, HistoryTypes, WorkerInv, QueueInv, ArrivalInv, BegunInv,
         StoppedInv, SourceIsCurrent, StoppedTurnsAreSilent
<1>7. WorkerTypes'
  BY <1>1, <1>2 DEF IInv, WorkerTypes, WorkerRows
<1>8. HostTypes'
  BY <1>1, <1>5 DEF IInv, HostTypes
<1>9. AskTypes'
  BY <1>1, <1>3 DEF IInv, AskTypes
<1>10. PickInv'
  BY <1>1, <1>3 DEF IInv, PickInv
<1>11. AskInv'
  BY <1>1, <1>3 DEF IInv, AskInv, AskTypes, AskTables
<1>12. ClientInv'
  BY <1>1, <1>4, <1>5 DEF IInv, ClientInv, WorkerTypes, WorkerRows, HandlerTypes, HandlerRows
<1>13. NoOrphanHost'
  BY <1>1, <1>5 DEF IInv, NoOrphanHost
<1>14. LateStartupIsDisposed'
  BY <1>1, <1>5 DEF IInv, LateStartupIsDisposed, HostTypes, HostTables
<1> QED  BY <1>6, <1>7, <1>8, <1>9, <1>10, <1>11, <1>12, <1>13, <1>14 DEF IInv

LEMMA CrashStep == ASSUME IInv, Crash PROVE IInv'
<1>1. UNCHANGED <<todo, saved, stopped, doomed, left, unwritten, recoveries>>
  BY DEF Crash
<1>2. crashes < MaxCrashes /\ crashes' = crashes + 1
  BY DEF Crash
<1>3. queue' = <<>> /\ pendingContext' = {}
  BY DEF Crash
<1>4. /\ fate' \in [Turns -> Fates]
      /\ \A t \in Turns : fate[t] = "absent" => fate'[t] = "absent"
      /\ \A t \in Turns : fate[t] \notin Unbegun => fate'[t] \notin Unbegun
  BY DEF Crash, IInv, TurnTypes, Ongoing, Fates
<1>5. worker' \in WorkerRows /\ worker'.at = "off" /\ worker'.turn = None /\ worker'.host = 0
  BY DEF Crash, Idle, WorkerRows
<1>6. current' = None
  BY DEF Crash
<1>7. turnActive' = FALSE /\ interrupting' = FALSE
  BY DEF Crash
<1>8. client' = 0 /\ connecting' = 0
  BY DEF Crash
<1>9. hosts' \in HostTables /\ \A h \in Hosts : hosts'[h].life \notin {"starting", "up"}
  BY DEF Crash, IInv, HostTypes, HostTables
<1>10. capture' = "none"
  BY DEF Crash
<1>11. resume' = saved
  BY DEF Crash
<1>12. source' = None /\ pending' = None /\ lock' = None
  BY DEF Crash
<1>13. handlers' = [i \in Inputs |-> Absent]
  BY DEF Crash
<1>14. asks' = [q \in Asks |->
                  IF asks[q].at = "absent" THEN asks[q] ELSE [asks[q] EXCEPT !.at = "over"]]
  BY DEF Crash
<1>15. Silenced(asks')
  BY <1>14 DEF Silenced, IInv, AskTypes, AskTables
<1>16. TurnTypes'
  BY <1>1, <1>3, <1>4 DEF IInv, TurnTypes
<1>17. WorkerTypes'
  BY <1>1, <1>5, <1>6, <1>7, <1>10, <1>12 DEF IInv, WorkerTypes, WorkerRows
<1>18. HostTypes'
  BY <1>1, <1>8, <1>9, <1>11 DEF IInv, HostTypes
<1>19. HandlerTypes'
  BY <1>13 DEF HandlerTypes, HandlerRows, Absent
<1>20. AskTypes'
  BY <1>12, <1>14, <1>15, SilencedAsks DEF IInv, AskTypes
<1>21. HistoryTypes'
  BY <1>1, <1>2 DEF IInv, HistoryTypes
<1>22. WorkerInv'
  BY <1>5, <1>6, <1>7 DEF IInv, WorkerInv, WorkerTypes
<1>23. QueueInv'
  BY <1>3 DEF IInv, QueueInv, TurnTypes
<1>24. ArrivalInv'
  BY <1>1, <1>4, <1>13 DEF IInv, ArrivalInv, TurnTypes, Absent
<1>25. PickInv'
  BY <1>1, <1>15 DEF IInv, PickInv, Silenced
<1>26. BegunInv'
  BY <1>3, <1>4, <1>5, <1>6 DEF IInv, BegunInv, TurnTypes
<1>27. StoppedInv'
  BY <1>1, <1>4, <1>6, <1>7, EndsStopped DEF IInv
<1>28. AskInv'
  BY <1>12, <1>14, <1>15, SilencedAsks DEF IInv, AskTypes
<1>29. ClientInv'
  BY <1>8, <1>9, <1>13 DEF IInv, ClientInv, Absent
<1>30. NoOrphanHost'
  BY <1>9 DEF IInv, NoOrphanHost
<1>31. LateStartupIsDisposed'
  BY <1>8 DEF IInv, LateStartupIsDisposed, HostTypes, HostTables
<1>32. SourceIsCurrent'
  BY <1>8, <1>12 DEF IInv, SourceIsCurrent
<1>33. StoppedTurnsAreSilent'
  BY <1>5 DEF StoppedTurnsAreSilent, WorkerInv
<1> QED  BY <1>16, <1>17, <1>18, <1>19, <1>20, <1>21, <1>22, <1>23, <1>24, <1>25, <1>26, <1>27,
            <1>28, <1>29, <1>30, <1>31, <1>32, <1>33
            DEF IInv

-----------------------------------------------------------------------------
(***************************************************************************)
(* The specification.                                                      *)
(***************************************************************************)
LEMMA InitHolds == Init => IInv
<1> SUFFICES ASSUME Init PROVE IInv
  OBVIOUS
<1>1. queue = <<>> /\ queue \in Seq(Turns) /\ 1 .. Len(queue) = {}
  BY DEF Init
<1>2. TurnTypes /\ WorkerTypes /\ HostTypes /\ HistoryTypes
  <2>1. TurnTypes
    BY <1>1 DEF Init, TurnTypes, Fates
  <2>2. WorkerTypes
    BY DEF Init, WorkerTypes, WorkerRows, Idle
  <2>3. HostTypes
    BY DEF Init, HostTypes, HostTables
  <2>4. HistoryTypes
    BY DEF Init, HistoryTypes
  <2> QED  BY <2>1, <2>2, <2>3, <2>4
<1>3. HandlerTypes /\ AskTypes
  BY DEF Init, HandlerTypes, HandlerRows, AskTypes, AskTables, Absent
<1>4. QueueInv /\ ArrivalInv /\ PickInv /\ BegunInv /\ StoppedInv
  BY <1>1 DEF Init, QueueInv, ArrivalInv, PickInv, BegunInv, StoppedInv, Absent, Idle
<1>5. WorkerInv /\ AskInv /\ ClientInv /\ NoOrphanHost /\ LateStartupIsDisposed
  BY DEF Init, WorkerInv, AskInv, ClientInv, NoOrphanHost, LateStartupIsDisposed, Absent, Idle
<1>6. SourceIsCurrent /\ StoppedTurnsAreSilent
  BY DEF Init, SourceIsCurrent, StoppedTurnsAreSilent, Idle
<1> QED  BY <1>2, <1>3, <1>4, <1>5, <1>6 DEF IInv

LEMMA InputStep == ASSUME IInv, NEW i \in Inputs, Input(i) PROVE IInv'
<1>1. CASE \E pick \in Threads : Resume(i, pick)
  BY <1>1, ResumeStep
<1> QED
  BY <1>1, AnswerStep, AnswerTwiceStep, OverruleStep, MessageStep, BackgroundStep, StopStep,
     ResetStep
  DEF Input

LEMMA WorkerStep == ASSUME IInv, Worker PROVE IInv'
BY RestsStep, TakesStep, CannotWriteStep, ReplacedStep, ConnectedStep, ConnectFailsStep,
   DisposedStep, 
   FlushedStep, FlushFailsStep, SubmitStep, FinishesStep, ClosedStep, RoutesStep, DeliversStep, ExcusesStep
   DEF Worker

LEMMA NextStep == ASSUME IInv, [Next]_vars PROVE IInv'
<1>1. ASSUME NEW i \in Inputs, Input(i) PROVE IInv'
  BY <1>1, InputStep
<1>2. ASSUME NEW i \in Inputs, Handler(i) \/ InterruptTimesOut(i) PROVE IInv'
  BY <1>2, GoesOnStep, AbortsStep, DisconnectedStep, InterruptTimesOutStep DEF Handler
<1>3. ASSUME NEW q \in Questions, Ask(q) PROVE IInv'
  BY <1>3, AskStep
<1>4. ASSUME NEW q \in Asks, Escalation(q) PROVE IInv'
  BY <1>4, OpensStep, SentStep, UnansweredStep, AskReturnsStep, PickReturnsStep DEF Escalation
<1>5. CASE Worker \/ TurnTimesOut
  BY <1>5, WorkerStep, TurnTimesOutStep
<1>6. CASE Starts \/ Completes \/ Disconnects
  BY <1>6, StartsStep, CompletesStep, DisconnectsStep
<1>7. ASSUME NEW h \in Hosts, HostExits(h) PROVE IInv'
  BY <1>7, HostExitsStep
<1>8. CASE Crash
  BY <1>8, CrashStep
<1>9. CASE UNCHANGED vars
  <2>1. UNCHANGED <<todo, queue, fate, pendingContext, worker, current, turnActive, interrupting,
                    client,
                    connecting, hosts, capture, resume, saved, source, handlers, asks, pending, lock,
                    stopped, doomed, left, unwritten, recoveries, crashes>>
    BY <1>9 DEF vars, turns, flags, servers, memory, human, history
  <2>2. /\ TurnTypes' /\ WorkerTypes' /\ HostTypes' /\ HandlerTypes' /\ AskTypes' /\ HistoryTypes'
        /\ WorkerInv' /\ QueueInv' /\ ArrivalInv' /\ PickInv' /\ BegunInv' /\ StoppedInv'
    BY <2>1
    DEF IInv, TurnTypes, WorkerTypes, HostTypes, HandlerTypes, AskTypes, HistoryTypes, WorkerInv,
        QueueInv, ArrivalInv, PickInv, BegunInv, StoppedInv
  <2>3. AskInv' /\ ClientInv' /\ NoOrphanHost' /\ LateStartupIsDisposed' /\ SourceIsCurrent'
        /\ StoppedTurnsAreSilent'
    BY <2>1
    DEF IInv, AskInv, ClientInv, NoOrphanHost, LateStartupIsDisposed, SourceIsCurrent,
        StoppedTurnsAreSilent
  <2> QED  BY <2>2, <2>3 DEF IInv
<1>10. CASE Quiet
  BY <1>9, <1>10 DEF Quiet
<1> QED  BY <1>1, <1>2, <1>3, <1>4, <1>5, <1>6, <1>7, <1>8, <1>9, <1>10 DEF Next

\* The session stays in step: who is current, whose host is the client, who waits and who has
\* begun, what each handler and question is of; every later theorem rests on it.
THEOREM Invariance == Spec => []IInv
<1>1. IInv /\ [Next]_vars => IInv'
  BY NextStep
<1> QED  BY InitHolds, <1>1, PTL DEF Spec

\* Types and ranges of the variables.
THEOREM Typing == Spec => []TypeOK
<1>1. IInv => TypeOK
  BY DEF IInv, TurnTypes, WorkerTypes, WorkerRows, HostTypes, HostTables, HandlerTypes, HandlerRows,
         AskTypes, AskTables, HistoryTypes, TypeOK
<1> QED  BY <1>1, Invariance, PTL

\* No app-server is lost, and none that close() gave up becomes the client, however many are
\* launched, die, are slow to answer or are closed meanwhile.
THEOREM HostsStayOwned == Spec => []HostsAreOwned
<1>1. IInv => HostsAreOwned
  BY DEF IInv, HostsAreOwned
<1> QED  BY <1>1, Invariance, PTL

-----------------------------------------------------------------------------
(***************************************************************************)
(* Questions and answers.                                                  *)
(***************************************************************************)
\* A step that displays no question and gives no answer to one.
Calm == \A q \in Questions : asks'[q].at \in {"sending", "answered"} => asks'[q].at = asks[q].at

LEMMA Withdrawals ==
  ASSUME AskTypes, asks' \in {asks, Cancelled, Abandoned(asks), Abandoned(Cancelled)}
  PROVE  Calm
<1>1. Cancelled \in AskTables
  BY DEF Cancelled, AskTypes, AskTables
<1>2. \A q \in Questions : Cancelled[q].at \in {"sending", "answered"} => Cancelled[q].at = asks[q].at
  BY DEF Cancelled, AskTypes, AskTables
<1>3. ASSUME NEW table \in AskTables, NEW q \in Questions, Abandoned(table)[q].at \in {"sending", "answered"}
      PROVE  Abandoned(table)[q].at = table[q].at
  BY <1>3 DEF Abandoned, AskTables
<1> QED  BY <1>1, <1>2, <1>3 DEF Calm, AskTypes

LEMMA PickWithdraws == ASSUME AskTypes, NEW p \in Asks, PickReturns(p) PROVE Calm
<1>1. asks' = [Abandoned(Cancelled) EXCEPT ![p].at = "over"]
  BY DEF PickReturns
<1>2. Cancelled \in AskTables /\ \A q \in Questions :
        Cancelled[q].at \in {"sending", "answered"} => Cancelled[q].at = asks[q].at
  BY DEF Cancelled, AskTypes, AskTables
<1>3. Abandoned(Cancelled) \in AskTables /\ \A q \in Questions :
        Abandoned(Cancelled)[q].at \in {"sending", "answered"} => Abandoned(Cancelled)[q].at = Cancelled[q].at
  BY <1>2 DEF Abandoned, AskTables
<1>4. \A q \in Questions : asks'[q].at \in {Abandoned(Cancelled)[q].at, "over"}
  BY <1>1, <1>3 DEF AskTables
<1> QED  BY <1>2, <1>3, <1>4 DEF Calm

LEMMA AsksMove ==
  ASSUME IInv, [Next]_vars, ~Calm
  PROVE  (\E i \in Inputs : Answer(i)) \/ (\E q \in Asks : Opens(q))
<1> USE DEF IInv
<1>1. ASSUME NEW i \in Inputs, Input(i), ~Answer(i) PROVE Calm
  <2>1. asks' \in {asks, Cancelled, Abandoned(Cancelled)} \/ \E pick \in Threads : Resume(i, pick)
    BY <1>1 DEF Input, AnswerTwice, Overrule, Message, Background, Stop, Reset, Forget, CloseClients
  <2>2. ASSUME NEW pick \in Threads, Resume(i, pick) PROVE Calm
    BY <2>2 DEF Resume, Calm, AskTypes, AskTables
  <2> QED  BY <2>1, <2>2, Withdrawals
<1>2. ASSUME NEW i \in Inputs, Handler(i) \/ InterruptTimesOut(i) PROVE Calm
  <2>1. asks' \in {asks, Abandoned(Cancelled)}
    BY <1>2
       DEF Handler, GoesOn, Aborts, Disconnected, InterruptTimesOut, Forget, CloseClients, human
  <2> QED  BY <2>1, Withdrawals
<1>3. ASSUME NEW q \in Questions, Ask(q) PROVE Calm
  BY <1>3 DEF Ask, Calm, AskTypes, AskTables
<1>4. ASSUME NEW q \in Asks, Escalation(q), ~Opens(q) PROVE Calm
  <2>1. PickReturns(q) \/ \E state \in {"shown", "over"} : asks' = [asks EXCEPT ![q].at = state]
    BY <1>4 DEF Escalation, Sent, Unanswered, AskReturns
  <2>2. CASE \E state \in {"shown", "over"} : asks' = [asks EXCEPT ![q].at = state]
    BY <2>2 DEF Calm, AskTypes, AskTables
  <2> QED  BY <2>1, <2>2, PickWithdraws
<1>5. ASSUME Worker \/ TurnTimesOut PROVE Calm
  <2>1. asks' \in {asks, Cancelled, Abandoned(Cancelled)}
    BY <1>5
    DEF Worker, TurnTimesOut, Rests, Takes, CannotWrite, Replaced, Connected, ConnectFails, Disposed, Flushed,
        FlushFails, Submit, Finishes, Closed, Routes, Delivers, Excuses, Raises, Submits, Unwinds, Begins,
        Ends, CloseClients, human
  <2> QED  BY <2>1, Withdrawals
<1>6. ASSUME Starts \/ Completes \/ Disconnects \/ \E h \in Hosts : HostExits(h) PROVE Calm
  <2>1. asks' \in {asks, Abandoned(asks)}
    BY <1>6 DEF Starts, Completes, Disconnects, HostExits
  <2> QED  BY <2>1, Withdrawals
<1>7. ASSUME Crash PROVE Calm
  BY <1>7 DEF Crash, Calm, AskTypes, AskTables
<1>8. ASSUME UNCHANGED vars PROVE Calm
  <2>1. asks' = asks
    BY <1>8 DEF vars, human
  <2> QED  BY <2>1, Withdrawals
<1> QED  BY <1>1, <1>2, <1>3, <1>4, <1>5, <1>6, <1>7, <1>8 DEF Next, Quiet

\* Only the live turn acts, however many questions wait and whoever stops, closes or overrules
\* the turn meanwhile: its tools, its questions and its reply.
THEOREM OnlyTheLiveTurnActs == Spec => OnlyLiveTurnsAct
<1> DEFINE Live(q) ==
      /\ (asks[q].at # "sending" /\ asks'[q].at = "sending") =>
            asks[q].turn = current /\ turnActive /\ ~interrupting
      /\ (asks[q].at # "answered" /\ asks'[q].at = "answered") =>
            asks[q].turn = current /\ turnActive /\ <<current, "told">> \notin stopped
<1>1. ASSUME IInv, [Next]_vars PROVE \A q \in Questions : Live(q)
  <2>1. CASE Calm
    BY <2>1 DEF Calm
  <2>2. ASSUME NEW i \in Inputs, Answer(i) PROVE \A q \in Questions : Live(q)
    <3>1. /\ pending \in Asks /\ asks[pending].at \in Displayed /\ asks \in AskTables
          /\ \E state \in {"answered", "denied"} : asks' = [asks EXCEPT ![pending].at = state]
      BY <1>1, <2>2 DEF Answer, Awaited, IInv, AskTypes
    <3>2. ASSUME NEW q \in Questions, asks[q].at \in Displayed
          PROVE  asks[q].turn = current /\ turnActive /\ <<current, "told">> \notin stopped
      BY <1>1, <3>2 DEF IInv, AskInv, WorkerInv
    <3> QED  BY <3>1, <3>2 DEF AskTables
  <2>3. ASSUME NEW p \in Asks, Opens(p) PROVE \A q \in Questions : Live(q)
    <3>1. asks \in AskTables /\ \E state \in {"sending", "over"} : asks' = [asks EXCEPT ![p].at = state]
      BY <1>1, <2>3 DEF Opens, IInv, AskTypes
    <3>2. asks'[p].at = "sending" => asks[p].at = "waiting" /\ ~interrupting
      BY <2>3, <3>1 DEF Opens, Presentable, AskTables
    <3>3. p \in Questions /\ asks[p].at = "waiting" => asks[p].turn = current /\ turnActive
      BY <1>1 DEF IInv, AskInv, WorkerInv
    <3> QED  BY <3>1, <3>2, <3>3 DEF AskTables
  <2> QED  BY <1>1, <2>1, <2>2, <2>3, AsksMove
<1>2. IInv => SourceIsCurrent /\ StoppedTurnsAreSilent
  BY DEF IInv
<1>3. IInv /\ [Next]_vars => [\A q \in Questions : Live(q)]_vars
  BY <1>1
<1> QED
  BY Invariance, <1>2, <1>3, PTL DEF OnlyLiveTurnsAct, AnswersGoToLiveTurns, Spec

-----------------------------------------------------------------------------
(***************************************************************************)
(* One conversation.                                                       *)
(***************************************************************************)
\* Without /clear and /resume every app-server is of the remembered thread, in memory and on
\* disk: the client and the worker's know theirs, and one that starts was asked for it.
ThreadInv ==
  /\ left = {} /\ saved = resume
  /\ \A h \in Hosts : hosts[h].thread # 0 => hosts[h].thread = resume
  /\ client # 0 => hosts[client].thread # 0
  /\ worker.at \in With => hosts[worker.host].thread # 0
  /\ worker.at = "connect" /\ connecting = worker.host => hosts[worker.host].thread = resume
  /\ \A i \in Inputs : handlers[i].at # "absent" => handlers[i].next \notin {"clear", "swap"}

HandlersStay == \A i \in Inputs : handlers'[i].at # "absent" => handlers'[i].next \notin {"clear", "swap"}
ThreadsStay == \A h \in Hosts : hosts'[h].thread = hosts[h].thread

\* A step that neither starts a process nor hears of a thread.
LEMMA ThreadsKept ==
  ASSUME IInv, ThreadInv, UNCHANGED <<resume, saved, left>>, ThreadsStay, HandlersStay,
         client' \in {0, client},
         worker'.at \in With =>
           \/ worker.at \in With /\ worker'.host = worker.host
           \/ client # 0 /\ worker'.host = client,
         worker'.at = "connect" /\ connecting' = worker'.host =>
           worker.at = "connect" /\ worker' = worker /\ connecting' = connecting
  PROVE  ThreadInv'
<1>1. client \in {0} \cup Hosts /\ worker.host \in {0} \cup Hosts
  BY DEF IInv, HostTypes, WorkerTypes, WorkerRows
<1>2. worker.at \in With \cup {"connect"} => worker.host \in Hosts
  BY <1>1 DEF IInv, WorkerInv
<1> QED  BY <1>1, <1>2 DEF ThreadInv, ThreadsStay, HandlersStay

LEMMA EndedThreads ==
  ASSUME IInv, NEW h \in {0} \cup Hosts, NEW life
  PROVE  \A g \in Hosts : Ended(h, life)[g].thread = hosts[g].thread
BY DEF IInv, HostTypes, HostTables, Ended

LEMMA ClosedThreads ==
  ASSUME IInv, CloseClients PROVE ThreadsStay /\ client' = 0 /\ connecting' = 0
<1>1. Open \in {0} \cup Hosts
  BY DEF IInv, HostTypes, Open
<1> QED  BY <1>1, EndedThreads DEF CloseClients, ThreadsStay

\* What the handlers do next, when none is that of a /clear or a /resume.
LEMMA InputThreads ==
  ASSUME Resets = {}, Resumes = {}, IInv, ThreadInv, NEW i \in Inputs, Input(i)
  PROVE  ThreadInv'
<1>1. UNCHANGED <<servers, memory, left>> /\ ThreadsStay
  BY DEF Input, Answer, AnswerTwice, Overrule, Message, Background, Stop, Reset, Resume, Unmoved,
         memory, servers, ThreadsStay
<1>2. worker' = worker \/ worker' = Woken
  BY DEF Input, Answer, AnswerTwice, Overrule, Message, Background, Stop, Reset, Resume, Enqueue
<1>3. worker' = worker \/ worker'.at = "loop"
  BY <1>2 DEF Woken, Idle
<1>4. \/ handlers' = handlers \/ handlers' = [handlers EXCEPT ![i] = Absent]
      \/ \E next \in {"wake", "enqueue", "drop"} : handlers' = Interrupting(i, next)
  BY DEF Input, Answer, AnswerTwice, Overrule, Message, Background, Stop, Reset, Resume, Enqueue
<1>5. HandlersStay
  <2>1. CASE handlers' = handlers
    BY <2>1 DEF HandlersStay, ThreadInv
  <2>2. CASE handlers' = [handlers EXCEPT ![i] = Absent]
    BY <2>2 DEF HandlersStay, ThreadInv, Absent, IInv, HandlerTypes
  <2>3. CASE \E next \in {"wake", "enqueue", "drop"} : handlers' = Interrupting(i, next)
    BY <2>3 DEF HandlersStay, ThreadInv, Interrupting, IInv, HandlerTypes
  <2> QED  BY <1>4, <2>1, <2>2, <2>3
<1> QED  BY <1>1, <1>3, <1>5, ThreadsKept DEF memory, servers

LEMMA HandlerThreads ==
  ASSUME Resets = {}, Resumes = {}, IInv, ThreadInv, NEW i \in Inputs,
         Handler(i) \/ InterruptTimesOut(i)
  PROVE  ThreadInv'
<1>1. handlers[i].at # "absent" /\ handlers[i].next \notin {"clear", "swap"}
  BY DEF Handler, GoesOn, Aborts, Disconnected, InterruptTimesOut, ThreadInv
<1>2. UNCHANGED <<resume, saved, left>>
  BY <1>1 DEF Handler, GoesOn, Aborts, Disconnected, InterruptTimesOut, Unmoved, memory, history
<1>3. ThreadsStay /\ client' \in {0, client} /\ connecting' \in {0, connecting}
  <2>1. CASE GoesOn(i)
    BY <2>1 DEF GoesOn, Unmoved, servers, ThreadsStay
  <2>2. CASE Aborts(i)
    BY <2>2 DEF Aborts, servers, ThreadsStay
  <2>3. CASE Disconnected(i)
    <3>1. handlers[i].host \in {0} \cup Hosts
      BY DEF IInv, HandlerTypes, HandlerRows
    <3> QED  BY <2>3, <3>1, EndedThreads DEF Disconnected, ThreadsStay
  <2>4. CASE InterruptTimesOut(i)
    BY <2>4, ClosedThreads DEF InterruptTimesOut
  <2> QED  BY <2>1, <2>2, <2>3, <2>4 DEF Handler
<1>4. worker' = worker \/ worker'.at = "loop"
  <2>1. worker' = worker \/ worker' = Woken
    BY DEF Handler, GoesOn, Aborts, Disconnected, InterruptTimesOut, Enqueue
  <2> QED  BY <2>1 DEF Woken, Idle
<1>5. HandlersStay
  <2>1. \/ handlers' = [handlers EXCEPT ![i] = Absent]
        \/ handlers' = Interrupting(i, "wake")
        \/ handlers' = [handlers EXCEPT ![i].hit = None]
        \/ handlers' = [handlers EXCEPT ![i].at = "interrupt"]
        \/ handlers' = Closing(i, handlers[i].next)
    BY <1>1 DEF Handler, GoesOn, Aborts, Disconnected, InterruptTimesOut, Enqueue
  <2>2. handlers \in [Inputs -> HandlerRows]
    BY DEF IInv, HandlerTypes
  <2>3. CASE handlers' = [handlers EXCEPT ![i] = Absent]
    BY <2>2, <2>3 DEF HandlersStay, ThreadInv, Absent
  <2>4. CASE handlers' = Interrupting(i, "wake")
    BY <2>2, <2>4 DEF HandlersStay, ThreadInv, Interrupting
  <2>5. CASE handlers' = [handlers EXCEPT ![i].hit = None]
    BY <1>1, <2>2, <2>5 DEF HandlersStay, ThreadInv, HandlerRows
  <2>6. CASE handlers' = [handlers EXCEPT ![i].at = "interrupt"]
    BY <1>1, <2>2, <2>6 DEF HandlersStay, ThreadInv, HandlerRows
  <2>7. CASE handlers' = Closing(i, handlers[i].next)
    BY <1>1, <2>2, <2>7 DEF HandlersStay, ThreadInv, Closing
  <2> QED  BY <2>1, <2>3, <2>4, <2>5, <2>6, <2>7
<1>6. connecting' = 0 => ~(worker'.at = "connect" /\ connecting' = worker'.host)
  <2>1. worker.at = "connect" => worker.host # 0
    BY DEF IInv, WorkerInv
  <2> QED  BY <1>4, <2>1
<1> QED  BY <1>2, <1>3, <1>4, <1>5, <1>6, ThreadsKept

LEMMA AskThreads ==
  ASSUME Resets = {}, Resumes = {}, IInv, ThreadInv,
         (\E q \in Questions : Ask(q)) \/ (\E q \in Asks : Escalation(q))
  PROVE  ThreadInv'
<1>1. UNCHANGED <<resume, saved, left, hosts, client, connecting, worker, handlers>>
  BY DEF Ask, Escalation, Opens, Sent, Unanswered, AskReturns, PickReturns, Others, Serving, memory,
         servers, history
<1> QED  BY <1>1 DEF ThreadInv

\* The app-server and its runs.
LEMMA ServerThreads ==
  ASSUME IInv, ThreadInv,
         Starts \/ Completes \/ Disconnects \/ (\E h \in Hosts : HostExits(h)) \/ UNCHANGED vars
  PROVE  ThreadInv'
<1>1. UNCHANGED <<resume, saved, left, client, connecting, worker, handlers>>
  BY DEF Starts, Completes, Disconnects, HostExits, Elsewhere, Aside, memory, vars, servers, history
<1>2. ThreadsStay
  <2>1. hosts' = hosts \/ \E h \in Hosts : hosts' = [hosts EXCEPT ![h].life = "dead"]
    BY DEF Starts, Completes, Disconnects, HostExits, vars, servers
  <2>2. ASSUME NEW h \in Hosts, hosts' = [hosts EXCEPT ![h].life = "dead"] PROVE ThreadsStay
    <3>1. hosts \in HostTables
      BY DEF IInv, HostTypes
    <3> QED  BY <2>2, <3>1 DEF ThreadsStay, HostTables
  <2> QED  BY <2>1, <2>2 DEF ThreadsStay
<1>3. HandlersStay
  BY <1>1 DEF ThreadInv, HandlersStay
<1> QED  BY <1>1, <1>2, <1>3, ThreadsKept


\* A process that is launched is asked for the remembered thread.
LEMMA LaunchThreads ==
  ASSUME IInv, ThreadInv, NEW t \in Turns, NEW table \in HostTables,
         \A h \in Hosts : table[h].thread = hosts[h].thread,
         Launch(t, table), client' = 0, UNCHANGED <<resume, saved, left>>, HandlersStay
  PROVE  ThreadInv'
<1>1. resume \in {0} \cup Threads
  BY DEF IInv, HostTypes
<1>2. CASE {h \in Hosts : table[h].life = "unused"} = {}
  <2>1. worker' = At("dispose", t, 0) /\ hosts' = table
    BY <1>2 DEF Launch
  <2>2. worker'.at = "dispose"
    BY <2>1 DEF At
  <2> QED  BY <2>1, <2>2 DEF ThreadInv, HandlersStay
<1>3. CASE {h \in Hosts : table[h].life = "unused"} # {}
  <2>1. PICK new \in Hosts :
          /\ worker' = At("connect", t, new) /\ connecting' = new
          /\ hosts' = [table EXCEPT ![new] = [life |-> "starting", thread |-> resume]]
    BY <1>3 DEF Launch
  <2>2. worker'.at = "connect" /\ worker'.host = new
    BY <2>1 DEF At
  <2>3. hosts'[new].thread = resume /\ \A h \in Hosts : h # new => hosts'[h].thread = hosts[h].thread
    BY <2>1 DEF HostTables
  <2> QED  BY <2>2, <2>3 DEF ThreadInv, HandlersStay
<1> QED  BY <1>2, <1>3

LEMMA TakesThreads == ASSUME IInv, ThreadInv, Takes PROVE ThreadInv'
<1>1. UNCHANGED <<handlers, left, saved>> /\ HandlersStay
  BY DEF Takes, Aside, ThreadInv, HandlersStay
<1>2. client \in {0} \cup Hosts /\ hosts \in HostTables
  BY DEF IInv, HostTypes
<1>3. CASE client = 0
  <2>1. Launch(Head(queue), hosts) /\ UNCHANGED <<client, resume>>
    BY <1>3 DEF Takes
  <2>2. Head(queue) \in Turns
    BY DEF Takes, IInv, TurnTypes
  <2> QED  BY <1>1, <1>2, <1>3, <2>1, <2>2, LaunchThreads
<1>4. CASE client # 0 /\ hosts[client].life # "up"
  <2>1. client' = 0 /\ resume' = hosts[client].thread /\ hosts' = hosts
        /\ worker' = At("replace", Head(queue), client)
    BY <1>4 DEF Takes
  <2>2. resume' = resume /\ worker'.at = "replace"
    BY <1>2, <1>4, <2>1 DEF ThreadInv, At
  <2> QED  BY <1>1, <2>1, <2>2 DEF ThreadInv
<1>5. CASE client # 0 /\ hosts[client].life = "up"
  <2>1. UNCHANGED <<client, connecting, hosts, resume>>
        /\ \E place \in {"flush", "submit"} : worker' = At(place, Head(queue), client)
    BY <1>5 DEF Takes, servers
  <2>2. worker'.at \in {"flush", "submit"} /\ worker'.host = client
    BY <2>1 DEF At
  <2> QED  BY <1>1, <1>5, <2>1, <2>2, ThreadsKept DEF ThreadsStay
<1> QED  BY <1>3, <1>4, <1>5

LEMMA Raised == ASSUME NEW t, Raises(t) PROVE worker'.at \in {"loop", "excuse"}
BY DEF Raises, Looping, Idle, At

LEMMA ReplacedThreads == ASSUME IInv, ThreadInv, Replaced PROVE ThreadInv'
<1>1. /\ UNCHANGED <<handlers, left, saved, resume, client>> /\ HandlersStay
      /\ client = 0
  BY DEF Replaced, Starting, Aside, memory, ThreadInv, HandlersStay, IInv, ClientInv
<1>2. /\ worker.host \in {0} \cup Hosts /\ worker.turn \in Turns
      /\ Ended(worker.host, "gone") \in HostTables
      /\ \A g \in Hosts : Ended(worker.host, "gone")[g].thread = hosts[g].thread
  <2>1. worker.host \in {0} \cup Hosts /\ worker.turn \in Turns
    BY DEF Replaced, IInv, WorkerTypes, WorkerRows, WorkerInv
  <2>2. Ended(worker.host, "gone") \in HostTables
    BY <2>1, EndsHost DEF IInv
  <2> QED  BY <2>1, <2>2, EndedThreads
<1>3. CASE Wanted
  <2>1. Launch(worker.turn, Ended(worker.host, "gone"))
    BY <1>3 DEF Replaced
  <2> QED  BY <1>1, <1>2, <2>1, LaunchThreads
<1>4. CASE ~Wanted
  <2>1. hosts' = Ended(worker.host, "gone") /\ Raises(worker.turn)
    BY <1>4 DEF Replaced
  <2>2. ThreadsStay /\ worker'.at \in {"loop", "excuse"}
    BY <1>2, <2>1, Raised DEF ThreadsStay
  <2> QED  BY <1>1, <2>2, ThreadsKept
<1> QED  BY <1>3, <1>4

\* The host's answer is remembered in memory and on disk.
LEMMA ConnectedThreads == ASSUME IInv, ThreadInv, Connected PROVE ThreadInv'
<1>1. /\ UNCHANGED <<handlers, left>> /\ HandlersStay
      /\ worker.at = "connect" /\ worker.host \in Hosts /\ hosts \in HostTables
  BY DEF Connected, Starting, Aside, ThreadInv, HandlersStay, IInv, WorkerInv, WorkerTypes,
         WorkerRows,
         HostTypes
<1>2. CASE ~Wanted
  <2>1. worker' = [worker EXCEPT !.at = "dispose"] /\ UNCHANGED <<servers, memory>>
    BY <1>2 DEF Connected
  <2>2. worker'.at = "dispose"
    BY <2>1 DEF IInv, WorkerTypes, WorkerRows
  <2> QED  BY <1>1, <2>1, <2>2, ThreadsKept DEF servers, memory, ThreadsStay
<1>3. CASE Wanted
  <2>1. PICK host \in Hosts, thread \in Threads :
          /\ host = worker.host
          /\ thread = IF hosts[host].thread = 0 THEN host ELSE hosts[host].thread
    BY <1>1 DEF HostTables
  <2>2. /\ client' = host /\ connecting' = 0 /\ resume' = thread /\ saved' = thread
        /\ \E life : hosts' = [hosts EXCEPT ![host] = [life |-> life, thread |-> thread]]
        /\ Submits(worker.turn, host, pendingContext, fate)
    BY <1>3, <2>1 DEF Connected, Remembers
  <2>3. hosts'[host].thread = thread /\ \A h \in Hosts : h # host => hosts'[h] = hosts[h]
    BY <1>1, <2>2 DEF HostTables
  <2>4. hosts[host].thread = resume
    BY <1>1, <1>3, <2>1 DEF ThreadInv, Wanted
  <2>5. \A h \in Hosts : hosts'[h].thread # 0 => hosts'[h].thread = thread
    BY <2>1, <2>3, <2>4 DEF ThreadInv
  <2>6. worker'.at \in {"loop", "flush", "submit"} /\ (worker'.at # "loop" => worker'.host = host)
    BY <2>2 DEF Submits, At, Looping, Idle
  <2>7. thread # 0
    OBVIOUS
  <2> QED  BY <1>1, <2>2, <2>3, <2>5, <2>6, <2>7 DEF ThreadInv, HandlersStay
<1> QED  BY <1>2, <1>3

\* The other steps of the worker hear of no new thread.
LEMMA WorkerThreads == ASSUME IInv, ThreadInv, Worker \/ TurnTimesOut PROVE ThreadInv'
<1>1. UNCHANGED <<handlers, left>> /\ HandlersStay
  <2>1. UNCHANGED <<handlers, left>>
    BY DEF Worker, TurnTimesOut, Rests, Takes, CannotWrite, Replaced, Connected, ConnectFails,
           Disposed,
       Flushed, FlushFails, Submit, Finishes, Closed, Routes, Delivers, Excuses, Aside, Starting, Running
  <2> QED  BY <2>1 DEF ThreadInv, HandlersStay
<1>2. /\ worker.host \in {0} \cup Hosts /\ worker \in WorkerRows
      /\ worker.at \in With => worker.host \in Hosts
  BY DEF IInv, WorkerTypes, WorkerRows, WorkerInv
<1>3. CASE Rests \/ CannotWrite \/ Routes \/ Delivers \/ Excuses
  <2>1. UNCHANGED <<servers, memory>> /\ worker'.at \in {"off", "loop", "excuse", "deliver"}
    BY <1>3 DEF Rests, CannotWrite, Routes, Delivers, Excuses, Idle, Looping, At
  <2> QED  BY <1>1, <2>1, ThreadsKept DEF servers, memory, ThreadsStay
<1>4. CASE ConnectFails
  <2>1. UNCHANGED <<client, memory>> /\ ThreadsStay
    BY <1>2, <1>4, EndedThreads DEF ConnectFails, ThreadsStay
  <2>2. worker'.at = "dispose"
    BY <1>2, <1>4 DEF ConnectFails, WorkerRows
  <2> QED  BY <1>1, <2>1, <2>2, ThreadsKept DEF memory
<1>5. CASE Disposed
  <2>1. UNCHANGED <<client, memory>> /\ ThreadsStay /\ worker'.at \in {"loop", "excuse"}
    BY <1>2, <1>5, EndedThreads, Raised DEF Disposed, ThreadsStay
  <2> QED  BY <1>1, <2>1, ThreadsKept DEF memory
<1>6. CASE Flushed \/ FlushFails
  <2>1. UNCHANGED <<servers, memory>> /\ worker.at = "flush"
    BY <1>6 DEF Flushed, FlushFails
  <2>2. worker'.at \in {"loop", "excuse"} \/ (worker'.at \in With /\ worker'.host = worker.host)
    BY <1>6, Raised DEF Flushed, FlushFails, Submits, Looping, Idle, At
  <2> QED  BY <1>1, <2>1, <2>2, ThreadsKept DEF servers, memory, ThreadsStay
<1>7. CASE Submit \/ Finishes
  <2>1. UNCHANGED servers /\ worker.at \in {"submit", "running"}
    BY <1>7 DEF Submit, Finishes
  <2>2. hosts[worker.host].thread = resume
    BY <1>2, <2>1 DEF ThreadInv
  <2>3. Remembers(hosts[worker.host].thread) \/ UNCHANGED memory
    BY <1>7 DEF Submit, Finishes
  <2>4. UNCHANGED <<resume, saved>>
    BY <2>2, <2>3 DEF Remembers, memory, ThreadInv
  <2>5. worker'.at = "unwind" \/ (worker'.at = "running" /\ worker'.host = worker.host)
    BY <1>2, <1>7 DEF Submit, Finishes, Unwinds, At, WorkerRows
  <2> QED  BY <1>1, <2>1, <2>4, <2>5, ThreadsKept DEF servers, ThreadsStay
<1>8. CASE Closed
  <2>1. UNCHANGED <<client, memory>> /\ ThreadsStay
    BY <1>2, <1>8, EndedThreads DEF Closed, ThreadsStay
  <2>2. worker'.at = "unwind"
    BY <1>8 DEF Closed, Unwinds, At
  <2> QED  BY <1>1, <2>1, <2>2, ThreadsKept DEF memory
<1>9. CASE TurnTimesOut
  <2>1. UNCHANGED memory /\ CloseClients
    BY <1>9 DEF TurnTimesOut
  <2>2. worker'.at = "close"
    BY <1>2, <1>9 DEF TurnTimesOut, WorkerRows
  <2> QED  BY <1>1, <2>1, <2>2, ClosedThreads, ThreadsKept DEF memory
<1> QED
  BY <1>3, <1>4, <1>5, <1>6, <1>7, <1>8, <1>9, TakesThreads, ReplacedThreads, ConnectedThreads
     DEF Worker

LEMMA CrashThreads == ASSUME IInv, ThreadInv, Crash PROVE ThreadInv'
<1>1. worker'.at = "off" /\ client' = 0 /\ saved' = saved /\ resume' = saved /\ left' = left
  BY DEF Crash, Idle
<1>2. ThreadsStay
  <2>1. hosts' = [h \in Hosts |-> IF hosts[h].life = "unused" THEN hosts[h]
                                  ELSE [hosts[h] EXCEPT !.life = "gone"]]
    BY DEF Crash
  <2> QED  BY <2>1 DEF ThreadsStay, IInv, HostTypes, HostTables
<1>3. HandlersStay
  BY DEF Crash, HandlersStay, Absent
<1> QED  BY <1>1, <1>2, <1>3 DEF ThreadInv, ThreadsStay, HandlersStay

LEMMA ThreadsInitially == Init => ThreadInv
BY DEF Init, ThreadInv, Idle, Absent

LEMMA ThreadsStep ==
  ASSUME Resets = {}, Resumes = {}, IInv, ThreadInv, [Next]_vars PROVE ThreadInv'
<1>1. ASSUME NEW i \in Inputs, Input(i) \/ Handler(i) \/ InterruptTimesOut(i) PROVE ThreadInv'
  BY <1>1, InputThreads, HandlerThreads
<1>2. CASE (\E q \in Questions : Ask(q)) \/ (\E q \in Asks : Escalation(q))
  BY <1>2, AskThreads
<1>3. CASE Worker \/ TurnTimesOut
  BY <1>3, WorkerThreads
<1>4. CASE \/ Starts \/ Completes \/ Disconnects \/ (\E h \in Hosts : HostExits(h))
           \/ Quiet \/ UNCHANGED vars
  BY <1>4, ServerThreads DEF Quiet
<1>5. CASE Crash
  BY <1>5, CrashThreads
<1> QED  BY <1>1, <1>2, <1>3, <1>4, <1>5 DEF Next

\* While the human leaves no conversation by /clear or /resume, all the app-servers there ever
\* were belong to the same one: neither crashes nor failed, closed, late or replaced
\* clients fork or lose it (_ensure_client, _run_turn and the saved session id).
THEOREM ConversationIsNotForked ==
  ASSUME Resets = {}, Resumes = {} PROVE Spec => []OneConversation
<1>1. IInv /\ ThreadInv /\ [Next]_vars => ThreadInv'
  BY ThreadsStep
<1>2. ThreadInv => OneConversation
  BY DEF ThreadInv, OneConversation
<1> QED  BY <1>1, <1>2, Invariance, ThreadsInitially, PTL DEF Spec
=============================================================================
