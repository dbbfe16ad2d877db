--------------------------- MODULE A2ATasksProofs ---------------------------
(***************************************************************************)
(* One inbound A2A task, for any number of messages, faults, redeliveries, *)
(* cancellations and stops, with webhooks during the catch-up or after it: *)
(*                                                                         *)
(*  - the gate keeps the jobs, the tool process and the progress jobs      *)
(*    apart, so that no progress text follows an outcome (IInv), and a job *)
(*    launches its progress once (NotLaunched);                            *)
(*  - a message has one job at a time, and one whose outcome was sent is   *)
(*    not run again, unless the catch-up took it up while it was underway  *)
(*    (ServeInv);                                                          *)
(*  - nothing is done or told of a message that was answered, unless its   *)
(*    fence was overtaken or its progress job forgotten (AnswerInv).       *)
(***************************************************************************)
EXTENDS A2ATasks, TLAPS

Phases == {"down", "listening", "open", "catching", "up", "closing", "stopping", "draining"}
RegStates == {"none", "queued", "running", "finalized"}
Before == {"new", "stopPrev", "clear", "ack", "ackPost"}    \* jobs that will ask for a turn
Holding == {"check", "post", "lastPost"}                    \* jobs past the gate
PastGate == {"read1", "summary", "read2", "post"}           \* progress past the gate
Admitted == {"ackOld", "ackNew", "postOld", "postNew"}      \* steps of an admitted event

ProgressSteps == {"none", "wait", "atGate"} \cup PastGate
Progresses ==
  [step : ProgressSteps, stop : {"no", "stop", "kill"}, by : SUBSET (Jobs \cup {Cleanup})]

ServiceOK ==
  /\ task \in [state : {"none", "working", "input", "done", "canceled"}, latest : 0 .. NumMessages]
  /\ task.state = "working" => task.latest \in Messages
  /\ landed \subseteq Messages /\ limbo \subseteq Messages \X Outcomes
  /\ events \subseteq 0 .. NumMessages /\ late \subseteq Messages

RegOK ==
  reg \in [Messages -> [state : RegStates, receipt : BOOLEAN,
                        progress : {"never", "idle", "unsent", "sent"}]]

FilesOK == fence \in 0 .. NumMessages /\ canceled \subseteq 0 .. NumMessages

HookOK ==
  /\ hook \in [kind : {"none", "cancel", "created", "message", "found"}, m : 0 .. NumMessages,
               step : {"none", "fetch", "drain"} \cup Admitted]
  /\ hook.step \in Admitted => hook.m \in Messages

CatchOK ==
  /\ phase \in Phases
  /\ catch \in [next : 1 .. NumMessages + 1, step : {"look", "read"}, seen : [Messages -> RegStates]]

JobOK == job \in [Jobs -> Steps]

SessionOK ==
  /\ queue \in Seq(Jobs)
  /\ turn \in [j : Jobs \cup {<<0, 0>>}, step : {"none", "run", "called"} \cup Outcomes,
               sent : {"none"} \cup Outcomes]
  /\ turn.step # "none" => turn.j \in Jobs

ProgOK ==
  /\ prog \in [Jobs -> Progresses]
  /\ owner \in Jobs \cup {NoJob} /\ saw \in [Jobs -> 0 .. NumMessages]

\* The gate file is held by exactly one: a job, the tool process or a progress job.
GateOK ==
  /\ gate \in {"free", "reply", "tool", "progress"}
  /\ gate = "reply" <=> \E j \in Jobs : job[j] \in Holding
  /\ gate = "tool" <=> turn.step \in Outcomes
  /\ gate = "progress" <=> \E i \in Jobs : prog[i].step \in PastGate
  /\ \A i, j \in Jobs : job[i] \in Holding /\ job[j] \in Holding => i = j
  /\ \A i, j \in Jobs : prog[i].step \in PastGate /\ prog[j].step \in PastGate => i = j

\* Progress is on its way only while no outcome was sent or tried: what it saw when it took
\* the gate holds until it lets go.
ProgressKeepsToTheFence == \A i \in Jobs : prog[i].step \in PastGate => fence = 0

IInv ==
  /\ ServiceOK /\ RegOK /\ FilesOK /\ HookOK /\ CatchOK /\ JobOK /\ SessionOK /\ ProgOK
  /\ GateOK /\ ProgressKeepsToTheFence

\* A job launches its progress once.
Unlaunched == {"new", "stopPrev", "clear"}
NotLaunched == \A j \in Jobs : job[j] \in Unlaunched => prog[j].step = "none"
-----------------------------------------------------------------------------
\* Where the message is waited for or worked on.
Queued(m) == \E i \in DOMAIN queue : queue[i][1] = m
InTurn(m) == turn.step # "none" /\ turn.j[1] = m
Idle(m) == (\A s \in Slots : job[<<m, s>>] = "none") /\ ~Queued(m) /\ ~InTurn(m)
Known(m) == reg[m].state # "none"

OneJob(m) == \A i, k \in Jobs : i[1] = m /\ k[1] = m /\ job[i] # "none" /\ job[k] # "none" => i = k

\* A job that has not asked yet is alone with its message, which no outcome was sent for.
Fresh(m) ==
  (\E j \in Jobs : j[1] = m /\ job[j] \in Before) => fence # m /\ ~Queued(m) /\ ~InTurn(m)

\* A waiting turn is the only one of its message, which no outcome was sent for.
Waiting(m) ==
  \A i \in DOMAIN queue : queue[i][1] = m =>
    /\ fence # m /\ ~InTurn(m)
    /\ \A k \in DOMAIN queue : queue[k][1] = m => k = i

Answering(m) == (\E j \in Jobs : j[1] = m /\ job[j] = "gate") => ~Queued(m)

\* An event that will start a job is the first of its message.
FirstOfItsMessage(m) == hook.m = m /\ Starts(hook.step) => Idle(m) /\ fence # m

Alone(m) == OneJob(m) /\ Fresh(m) /\ Waiting(m) /\ Answering(m) /\ FirstOfItsMessage(m)

\* What is worked on, will be, or was read by the catch-up has an entry.
Registered ==
  /\ \A m \in Messages : ~Idle(m) \/ catch.seen[m] # "none" => Known(m)
  /\ Starts(hook.step) => Known(hook.m)
  /\ catch.step = "read" => catch.next \in Messages /\ catch.seen[catch.next] # "none"

ServeInv == Registered /\ \A m \in Messages \ raced : Alone(m)
-----------------------------------------------------------------------------
\* _write_a2a_registry and the receipt leave an entry of the same type.
LEMMA WriteKeeps ==
  ASSUME RegOK, NEW m \in Messages, NEW s \in RegStates, NEW keep,
         Write(m, s, keep) \/ Receipted(m) \/ UNCHANGED reg
  PROVE  RegOK'
<1> USE DEF RegOK
<1>1. CASE Write(m, s, keep)
  <2>1. Written(reg[m], s, keep) \in [state : RegStates, receipt : BOOLEAN,
                                      progress : {"never", "idle", "unsent", "sent"}]
    BY DEF Written
  <2> QED  BY <1>1, <2>1 DEF Write
<1>2. CASE Receipted(m)
  BY <1>2 DEF Receipted, RegStates
<1>3. CASE UNCHANGED reg
  BY <1>3
<1> QED  BY <1>1, <1>2, <1>3

\* The service accepts an outcome.
LEMMA AcceptedKeeps ==
  ASSUME ServiceOK, NEW m \in Messages, NEW o \in Outcomes, Accepted(m, o)
  PROVE  /\ task' \in [state : {"none", "working", "input", "done", "canceled"},
                       latest : 0 .. NumMessages]
         /\ task'.state # "working" /\ landed' \subseteq Messages
<1>1. task \in [state : {"none", "working", "input", "done", "canceled"},
                latest : 0 .. NumMessages]
      /\ landed \subseteq Messages
  BY DEF ServiceOK
<1>2. task' = [task EXCEPT !.state = o] /\ landed' = landed \cup {m}
  BY DEF Accepted
<1>3. o \in {"done", "input"}
  BY DEF Outcomes
<1> QED  BY <1>1, <1>2, <1>3

LEMMA LimboKeeps ==
  ASSUME IInv, NEW j \in Jobs, NEW o \in Outcomes
  PROVE  j[1] \in Messages /\ limbo \cup {<<j[1], o>>} \subseteq Messages \X Outcomes
BY DEF IInv, ServiceOK, Jobs

\* A new job takes a free slot.
LEMMA TrackStarts ==
  ASSUME JobOK, NEW m \in Messages, Track(m)
  PROVE  \E s \in Slots : job[<<m, s>>] = "none" /\ job' = [job EXCEPT ![<<m, s>>] = "new"]
BY DEF Track, Free, Quiet

\* Nobody takes the gate or leaves it.
LEMMA GateUndisturbed ==
  ASSUME IInv, gate' = gate,
         \A j \in Jobs : job'[j] \in Holding <=> job[j] \in Holding,
         turn'.step \in Outcomes <=> turn.step \in Outcomes,
         \A i \in Jobs : prog'[i].step \in PastGate <=> prog[i].step \in PastGate
  PROVE  GateOK'
BY DEF IInv, GateOK

\* A job that does not hold the gate goes on to a step that does not either.
LEMMA JobOutside ==
  ASSUME IInv, NEW j \in Jobs, NEW s \in Steps \ Holding, job[j] \notin Holding,
         job' = [job EXCEPT ![j] = s], UNCHANGED <<gate, turn, prog>>
  PROVE  GateOK'
<1>1. \A i \in Jobs : job'[i] \in Holding <=> job[i] \in Holding
  BY DEF IInv, JobOK
<1> QED  BY <1>1, GateUndisturbed

LEMMA TrackOutside ==
  ASSUME IInv, NEW m \in Messages, Track(m) \/ UNCHANGED job, UNCHANGED <<gate, turn, prog>>
  PROVE  GateOK'
<1>1. CASE Track(m)
  <2>1. PICK s \in Slots : job[<<m, s>>] = "none" /\ job' = [job EXCEPT ![<<m, s>>] = "new"]
    BY <1>1, TrackStarts DEF IInv
  <2>2. <<m, s>> \in Jobs /\ "new" \in Steps \ Holding /\ job[<<m, s>>] \notin Holding
    BY <2>1 DEF Jobs, Steps, Holding
  <2> QED  BY <2>1, <2>2, JobOutside
<1>2. CASE UNCHANGED job
  BY <1>2, GateUndisturbed
<1> QED  BY <1>1, <1>2

LEMMA AskKeeps ==
  ASSUME IInv, NEW j \in Jobs, Ask(j) \/ UNCHANGED queue, turn' = turn
  PROVE  SessionOK'
<1>1. queue' \in Seq(Jobs)
  <2>1. Append(queue, j) \in Seq(Jobs)
    BY DEF IInv, SessionOK
  <2> QED  BY <2>1 DEF IInv, SessionOK, Ask
<1> QED  BY <1>1 DEF IInv, SessionOK

\* The text that an earlier message left is one of the texts there are.
LEMMA InheritedIsText ==
  ASSUME RegOK, NEW m \in Messages
  PROVE  Inherited(m) \subseteq {"never", "idle", "unsent", "sent"}
<1>1. \A n \in Messages : reg[n].progress \in {"never", "idle", "unsent", "sent"}
  BY DEF RegOK
<1> QED  BY <1>1 DEF Inherited

\* The one that holds the gate lets go of it.
LEMMA JobLetsGo ==
  ASSUME IInv, NEW j \in Jobs, job[j] \in Holding, gate' = "free",
         job' = [job EXCEPT ![j] = "stop"] \/ job' = [job EXCEPT ![j] = "canceled"],
         UNCHANGED <<turn, prog>>
  PROVE  GateOK'
<1>1. \A i \in Jobs : job'[i] \notin Holding
  BY DEF IInv, JobOK, GateOK, Holding
<1>2. gate = "reply"
  BY DEF IInv, GateOK
<1> QED  BY <1>1, <1>2 DEF IInv, GateOK

\* What dies with its sender is the outcome of a message.
LEMMA InFlightIsTyped == ASSUME IInv PROVE InFlight \subseteq Messages \X Outcomes
<1>1. \A j \in Jobs : <<j[1], "done">> \in Messages \X Outcomes
  BY DEF Jobs, Outcomes
<1>2. turn.step \in Outcomes => <<turn.j[1], turn.step>> \in Messages \X Outcomes
  BY DEF IInv, SessionOK, Jobs, Outcomes
<1> QED  BY <1>1, <1>2 DEF InFlight

\* A progress job that starts, goes on, is told to stop or ends.
LEMMA ProgressMoves ==
  ASSUME ProgOK, NEW i \in Jobs, NEW r \in Progresses, prog' = [prog EXCEPT ![i] = r],
         owner' \in {owner, i, NoJob}, saw' = saw
  PROVE  ProgOK' /\ prog'[i] = r /\ \A k \in Jobs : k # i => prog'[k] = prog[k]
BY DEF ProgOK

LEMMA StepOf ==
  ASSUME NEW x \in Progresses, NEW s \in ProgressSteps
  PROVE  [x EXCEPT !.step = s] = [step |-> s, stop |-> x.stop, by |-> x.by]
BY DEF Progresses

LEMMA OneProgressMoves ==
  ASSUME ProgOK, NEW i \in Jobs, NEW s \in ProgressSteps, Step(i, s) \/ (Ended(i) /\ s = "none"),
         saw' = saw
  PROVE  ProgOK' /\ prog'[i].step = s /\ \A k \in Jobs : k # i => prog'[k] = prog[k]
<1>1. prog[i] \in Progresses
  BY DEF ProgOK
<1>2. CASE Step(i, s)
  <2> DEFINE r == [step |-> s, stop |-> prog[i].stop, by |-> prog[i].by]
  <2>1. r \in Progresses /\ r.step = s
    BY <1>1 DEF Progresses
  <2>2. prog' = [prog EXCEPT ![i] = r] /\ owner' = owner
    <3>1. \A k \in Jobs : prog'[k] = IF k = i THEN [prog[i] EXCEPT !.step = s] ELSE prog[k]
      BY <1>2 DEF Step, ProgOK
    <3>2. prog'[i] = r
      BY <1>1, <3>1, StepOf
    <3> QED  BY <1>2, <3>1, <3>2 DEF Step, ProgOK
  <2> HIDE DEF r
  <2> QED  BY <2>1, <2>2, ProgressMoves
<1>3. CASE Ended(i) /\ s = "none"
  <2>1. NoProg \in Progresses /\ NoProg.step = "none"
    BY DEF NoProg, Progresses, ProgressSteps
  <2>2. prog' = [prog EXCEPT ![i] = NoProg] /\ owner' \in {owner, NoJob}
    BY <1>3 DEF Ended
  <2> HIDE DEF NoProg
  <2> QED  BY <1>3, <2>1, <2>2, ProgressMoves
<1> QED  BY <1>2, <1>3

\* Only the progress job that holds the gate, or takes a free one, changes who is past it.
LEMMA ProgressAtGate ==
  ASSUME IInv, NEW i \in Jobs, NEW s \in ProgressSteps,
         Step(i, s) \/ (Ended(i) /\ s = "none"), saw' = saw,
         prog[i].step \in PastGate \/ gate = "free" \/ s \notin PastGate,
         prog[i].step \in PastGate \/ s \notin PastGate \/ fence = 0,
         IF s \in PastGate THEN gate' = "progress"
         ELSE IF prog[i].step \in PastGate THEN gate' = "free" ELSE gate' = gate,
         UNCHANGED <<job, turn, fence>>
  PROVE  ProgOK' /\ GateOK' /\ ProgressKeepsToTheFence'
<1>1. ProgOK' /\ prog'[i].step = s /\ \A k \in Jobs : k # i => prog'[k] = prog[k]
  BY OneProgressMoves DEF IInv
<1>2. ProgressKeepsToTheFence'
  BY <1>1 DEF IInv, ProgressKeepsToTheFence
<1>3. CASE prog[i].step \in PastGate
  <2>1. gate = "progress" /\ \A k \in Jobs : prog[k].step \in PastGate => k = i
    BY <1>3 DEF IInv, GateOK
  <2> QED  BY <1>1, <1>2, <1>3, <2>1 DEF IInv, GateOK
<1>4. CASE prog[i].step \notin PastGate /\ s \in PastGate
  <2>1. gate = "free" /\ \A k \in Jobs : prog[k].step \notin PastGate
    BY <1>4 DEF IInv, GateOK
  <2> QED  BY <1>1, <1>2, <1>4, <2>1 DEF IInv, GateOK
<1>5. CASE prog[i].step \notin PastGate /\ s \notin PastGate
  <2>1. \A k \in Jobs : prog'[k].step \in PastGate <=> prog[k].step \in PastGate
    BY <1>1, <1>5
  <2> QED  BY <1>1, <1>2, <1>5, <2>1, GateUndisturbed
<1> QED  BY <1>3, <1>4, <1>5

\* Being told to stop moves no progress job.
LEMMA StopKeeps ==
  ASSUME IInv, NEW w \in Jobs \cup {Cleanup}, owner \in Jobs, Stop(w), UNCHANGED <<owner, saw>>
  PROVE  ProgOK' /\ \A k \in Jobs : prog'[k].step = prog[k].step
<1> DEFINE r == [prog[owner] EXCEPT !.stop = IF @ = "no" THEN "stop" ELSE @, !.by = @ \cup {w}]
<1>1. prog[owner] \in Progresses
  BY DEF IInv, ProgOK
<1>2. r \in Progresses /\ r.step = prog[owner].step
  BY <1>1 DEF Progresses
<1>3. prog' = [prog EXCEPT ![owner] = r]
  BY <1>1 DEF Stop, IInv, ProgOK, Progresses
<1> HIDE DEF r
<1> QED  BY <1>2, <1>3, ProgressMoves DEF IInv

\* A launched progress job waits; it is the one the gateway knows of.
LEMMA LaunchKeeps ==
  ASSUME IInv, NEW j \in Jobs, Launch(j), prog[j].step \notin PastGate, saw' \in [Jobs -> 0 .. NumMessages]
  PROVE  /\ ProgOK' /\ prog'[j].step = "wait" /\ \A k \in Jobs : k # j => prog'[k] = prog[k]
         /\ \A k \in Jobs : prog'[k].step \in PastGate <=> prog[k].step \in PastGate
<1> DEFINE r == [NoProg EXCEPT !.step = "wait"]
<1>1. r \in Progresses /\ r.step = "wait"
  BY DEF NoProg, Progresses, ProgressSteps
<1>2. prog' = [prog EXCEPT ![j] = r] /\ owner' = j
  BY DEF Launch
<1> HIDE DEF r
<1>3. "wait" \notin PastGate
  BY DEF PastGate
<1> QED  BY <1>1, <1>2, <1>3 DEF IInv, ProgOK

\* What a conjunct is about has not changed.
LEMMA Kept ==
  ASSUME IInv
  PROVE  /\ UNCHANGED <<task, landed, limbo, events, late>> => ServiceOK'
         /\ UNCHANGED <<reg>> => RegOK'
         /\ UNCHANGED <<fence, canceled>> => FilesOK'
         /\ UNCHANGED <<hook>> => HookOK'
         /\ UNCHANGED <<phase, catch>> => CatchOK'
         /\ UNCHANGED <<job>> => JobOK'
         /\ UNCHANGED <<queue, turn>> => SessionOK'
         /\ UNCHANGED <<prog, owner, saw>> => ProgOK'
         /\ UNCHANGED <<gate, job, turn, prog>> => GateOK'
         /\ UNCHANGED <<prog, fence>> => ProgressKeepsToTheFence'
BY DEF IInv, ServiceOK, RegOK, FilesOK, HookOK, CatchOK, JobOK, SessionOK, ProgOK, GateOK,
       ProgressKeepsToTheFence

LEMMA CallerSendsStep == ASSUME IInv, CallerSends PROVE IInv'
<1>1. UNCHANGED <<receipt, landed, limbo, reg, fence, gate, phase, hook, catch, canceled, job,
                  prog, owner, saw, queue, turn, late, faults>>
  BY DEF CallerSends, files, memory, session, progress
<1>2. ServiceOK'
  <2>1. task.latest + 1 \in Messages /\ task.latest + 1 \in 0 .. NumMessages
    BY A2AAssumption DEF IInv, ServiceOK, Messages, CallerSends
  <2>2. task' = [state |-> "working", latest |-> task.latest + 1]
        /\ events' = events \cup {task.latest + 1}
    BY DEF CallerSends
  <2> QED  BY <1>1, <2>1, <2>2 DEF IInv, ServiceOK
<1> QED  BY <1>1, <1>2, Kept DEF IInv

LEMMA CallerCancelsStep == ASSUME IInv, CallerCancels PROVE IInv'
<1>1. UNCHANGED <<receipt, landed, limbo, reg, fence, gate, phase, hook, catch, canceled, job,
                  prog, owner, saw, queue, turn, late>>
  BY DEF CallerCancels, files, memory, session, progress
<1>2. ServiceOK'
  BY A2AAssumption DEF IInv, ServiceOK, CallerCancels
<1> QED  BY <1>1, <1>2, Kept DEF IInv

LEMMA RedeliverStep == ASSUME IInv, NEW m \in Messages, Redeliver(m) PROVE IInv'
<1>1. UNCHANGED <<task, receipt, landed, limbo, reg, fence, gate, phase, hook, catch, canceled,
                  job, prog, owner, saw, queue, turn, late>>
  BY DEF Redeliver, files, memory, session, progress
<1>2. ServiceOK'
  BY DEF IInv, ServiceOK, Messages, Redeliver
<1> QED  BY <1>1, <1>2, Kept DEF IInv

LEMMA ArrivesLateStep ==
  ASSUME IInv, NEW m \in Messages, NEW o \in Outcomes, ArrivesLate(m, o)
  PROVE  IInv'
<1>1. UNCHANGED <<receipt, events, reg, fence, gate, phase, hook, catch, canceled, job, prog, owner, saw,
                  queue, turn, late, faults>>
  BY DEF ArrivesLate, files, memory, session, progress
<1>2. ServiceOK'
  <2>1. limbo' \subseteq limbo /\ (UNCHANGED <<task, landed>> \/ Accepted(m, o))
    BY DEF ArrivesLate
  <2>2. CASE Accepted(m, o)
    BY <1>1, <2>1, <2>2, AcceptedKeeps DEF IInv, ServiceOK
  <2> QED  BY <1>1, <2>1, <2>2 DEF IInv, ServiceOK
<1> QED  BY <1>1, <1>2, Kept DEF IInv

LEMMA DeliverStep == ASSUME IInv, NEW m \in 0 .. NumMessages, Deliver(m) PROVE IInv'
<1>1. UNCHANGED <<task, receipt, landed, limbo, reg, fence, gate, phase, catch, canceled, job,
                  prog, owner, saw, queue, turn, late, faults>>
  BY DEF Deliver, files, session, progress
<1>2. ServiceOK'
  BY DEF IInv, ServiceOK, Deliver
<1>3. HookOK'
  BY DEF HookOK, Admitted, Deliver
<1> QED  BY <1>1, <1>2, <1>3, Kept DEF IInv

LEMMA AdmitStep == ASSUME IInv, Admit PROVE IInv'
<1>1. UNCHANGED <<task, receipt, landed, limbo, fence, gate, phase, catch, job, prog, owner, saw, queue, turn,
                  late, faults>>
  BY DEF Admit, session, progress
<1>2. ServiceOK'
  BY DEF IInv, ServiceOK, Admit, Written, Write, Answer
<1>3. RegOK'
  <2>1. hook.m \in Messages
    BY A2AAssumption DEF IInv, HookOK, Messages, Admit
  <2>2. Write(hook.m, "queued", FALSE) \/ Receipted(hook.m) \/ UNCHANGED reg
    BY DEF Admit
  <2> QED  BY <2>1, <2>2, WriteKeeps DEF IInv, RegStates
<1>4. FilesOK'
  BY DEF IInv, FilesOK, Admit, Written, Write, Answer
<1>5. HookOK'
  BY A2AAssumption DEF IInv, HookOK, Admitted, Messages, Admit, Written, Write, Answer, NoHook
<1> QED  BY <1>1, <1>2, <1>3, <1>4, <1>5, Kept DEF IInv

LEMMA AdmitFailsStep == ASSUME IInv, AdmitFails PROVE IInv'
<1>1. UNCHANGED <<task, receipt, landed, limbo, reg, fence, gate, phase, catch, canceled, job,
                  prog, owner, saw, queue, turn, late>>
  BY DEF AdmitFails, files, session, progress
<1>2. ServiceOK'
  <2>1. events' \subseteq events \cup {hook.m} /\ hook.m \in 0 .. NumMessages
    BY DEF IInv, HookOK, Answer, AdmitFails
  <2> QED  BY <1>1, <2>1 DEF IInv, ServiceOK
<1>3. HookOK'
  BY A2AAssumption DEF HookOK, Admitted, AdmitFails, Answer, NoHook
<1> QED  BY <1>1, <1>2, <1>3, Kept DEF IInv

LEMMA AcknowledgeStep == ASSUME IInv, Acknowledge PROVE IInv'
<1>1. UNCHANGED <<task, receipt, landed, limbo, fence, gate, phase, catch, canceled, prog, owner, saw, queue,
                  turn, late, faults>>
  BY DEF Acknowledge, session, progress
<1>2. ServiceOK'
  <2>1. events' \subseteq events \cup {hook.m} /\ hook.m \in 0 .. NumMessages
    BY DEF IInv, HookOK, Answer, Acknowledge
  <2> QED  BY <1>1, <2>1 DEF IInv, ServiceOK
<1>3. RegOK'
  <2>1. hook.m \in Messages
    BY DEF IInv, HookOK, Admitted, Acknowledge
  <2>2. Write(hook.m, "finalized", FALSE) \/ Receipted(hook.m) \/ UNCHANGED reg
    BY DEF Acknowledge
  <2> QED  BY <2>1, <2>2, WriteKeeps DEF IInv, RegStates
<1>4. HookOK'
  <2>1. hook' = NoHook \/ hook' = [hook EXCEPT !.step = "postNew"]
        \/ hook' = [hook EXCEPT !.step = "postOld"]
    BY DEF Acknowledge, Answer
  <2>2. hook.m \in Messages
    BY DEF Acknowledge, IInv, HookOK, Admitted
  <2> QED  BY <2>1, <2>2, A2AAssumption DEF IInv, HookOK, Admitted, NoHook
<1>5. JobOK'
  BY <1>1
     DEF IInv, JobOK, Steps, Jobs, Slots, Acknowledge, Settled, SettledStates, Terminal, Closing,
         Written, Write, Receipted, Track, Answer, Starts, NoHook
<1>6. GateOK'
  <2>1. hook.m \in Messages /\ (Track(hook.m) \/ UNCHANGED job)
    BY DEF Acknowledge, IInv, HookOK, Admitted
  <2> QED  BY <1>1, <2>1, TrackOutside
<1> QED  BY <1>1, <1>2, <1>3, <1>4, <1>5, <1>6, Kept DEF IInv

LEMMA ReceiptSentStep == ASSUME IInv, ReceiptSent PROVE IInv'
<1>1. UNCHANGED <<task, landed, limbo, fence, gate, phase, catch, canceled, prog, owner, saw, queue, turn,
                  late, faults>>
  BY DEF ReceiptSent, session, progress
<1>2. ServiceOK'
  BY <1>1, A2AAssumption
     DEF IInv, ServiceOK, SessionOK, Messages, ReceiptSent, Receipted, Track, Answer, Starts, NoHook
<1>3. RegOK'
  <2>1. hook.m \in Messages
    BY DEF IInv, HookOK, Admitted, ReceiptSent
  <2>2. Write(hook.m, "finalized", FALSE) \/ Receipted(hook.m) \/ UNCHANGED reg
    BY DEF ReceiptSent
  <2> QED  BY <2>1, <2>2, WriteKeeps DEF IInv, RegStates
<1>4. HookOK'
  <2>1. hook' = NoHook
    BY DEF ReceiptSent, Answer
  <2> QED  BY <2>1, A2AAssumption DEF HookOK, Admitted, NoHook
<1>5. JobOK'
  BY <1>1 DEF IInv, JobOK, Steps, Jobs, Slots, ReceiptSent, Receipted, Track, Answer, Starts, NoHook
<1>6. GateOK'
  <2>1. hook.m \in Messages /\ (Track(hook.m) \/ UNCHANGED job)
    BY DEF ReceiptSent, IInv, HookOK, Admitted
  <2> QED  BY <1>1, <2>1, TrackOutside
<1> QED  BY <1>1, <1>2, <1>3, <1>4, <1>5, <1>6, Kept DEF IInv

LEMMA AcknowledgeFailsStep ==
  ASSUME IInv, NEW arrives \in BOOLEAN, AcknowledgeFails(arrives)
  PROVE  IInv'
<1>1. UNCHANGED <<task, landed, limbo, reg, fence, gate, phase, catch, canceled, prog, owner, saw, queue, turn,
                  late>>
  BY DEF AcknowledgeFails, files, session, progress
<1>2. ServiceOK'
  <2>1. events' \subseteq events \cup {hook.m} /\ hook.m \in 0 .. NumMessages
    BY DEF IInv, HookOK, Answer, AcknowledgeFails
  <2> QED  BY <1>1, <2>1 DEF IInv, ServiceOK
<1>3. HookOK'
  <2>1. hook' = NoHook
    BY DEF AcknowledgeFails, Answer
  <2> QED  BY <2>1, A2AAssumption DEF HookOK, Admitted, NoHook
<1>4. JobOK'
  BY <1>1
     DEF IInv, JobOK, Steps, Jobs, Slots, AcknowledgeFails, Fault, Track, Answer, Starts, NoHook
<1>5. GateOK'
  <2>1. hook.m \in Messages /\ (Track(hook.m) \/ UNCHANGED job)
    BY DEF AcknowledgeFails, IInv, HookOK, Admitted
  <2> QED  BY <1>1, <2>1, TrackOutside
<1> QED  BY <1>1, <1>2, <1>3, <1>4, <1>5, Kept DEF IInv

\* What a cancellation does to the jobs and to the progress they wait for.
LEMMA CancelKeeps ==
  ASSUME IInv, CancelJobs, owner' \in {owner, NoJob}, UNCHANGED <<turn, fence>>
  PROVE  JobOK' /\ ProgOK' /\ GateOK' /\ ProgressKeepsToTheFence'
<1>1. JobOK'
  BY DEF JobOK, Steps, AfterCancel, CancelJobs
<1>2. \A i \in Jobs : prog'[i] \in Progresses /\ prog'[i].step = prog[i].step
  <2> TAKE i \in Jobs
  <2>1. prog[i] \in Progresses
    BY DEF IInv, ProgOK
  <2>2. prog'[i] = prog[i] \/ prog'[i] = [prog[i] EXCEPT !.stop = "kill"]
    BY DEF CancelJobs
  <2>3. [prog[i] EXCEPT !.stop = "kill"] = [step |-> prog[i].step, stop |-> "kill", by |-> prog[i].by]
    BY <2>1 DEF Progresses
  <2> QED  BY <2>1, <2>2, <2>3 DEF Progresses
<1>3. ProgOK'
  <2>1. prog' \in [Jobs -> Progresses]
    <3>1. prog' = [j \in Jobs |-> prog'[j]]
      BY DEF CancelJobs
    <3> QED  BY <1>2, <3>1
  <2>2. saw' \in [Jobs -> 0 .. NumMessages]
    BY A2AAssumption DEF CancelJobs
  <2> QED  BY <2>1, <2>2 DEF IInv, ProgOK
<1>4. GateOK'
  <2>1. \A j \in Jobs : job'[j] = AfterCancel(job[j])
    BY DEF CancelJobs
  <2>2. \A j \in Jobs : job'[j] \in Holding <=> job[j] \in {"post", "lastPost"}
    BY <2>1 DEF AfterCancel, Holding
  <2>3. gate' = IF \E j \in Jobs : job[j] = "check" THEN "free" ELSE gate
    BY DEF CancelJobs
  <2>4. CASE \E j \in Jobs : job[j] = "check"
    <3>1. gate = "reply" /\ \A j \in Jobs : job[j] \notin {"post", "lastPost"}
      BY <2>4 DEF IInv, GateOK, Holding
    <3>2. gate' = "free" /\ \A j \in Jobs : job'[j] \notin Holding
      BY <2>2, <2>3, <2>4, <3>1
    <3>3. turn'.step \notin Outcomes /\ \A i \in Jobs : prog'[i].step \notin PastGate
      BY <1>2, <3>1 DEF IInv, GateOK
    <3> QED  BY <3>2, <3>3 DEF GateOK
  <2>5. CASE ~\E j \in Jobs : job[j] = "check"
    <3>1. gate' = gate /\ \A j \in Jobs : job'[j] \in Holding <=> job[j] \in Holding
      BY <2>2, <2>3, <2>5 DEF Holding
    <3> QED  BY <1>2, <3>1, GateUndisturbed
  <2> QED  BY <2>4, <2>5
<1>5. ProgressKeepsToTheFence'
  BY <1>2 DEF IInv, ProgressKeepsToTheFence
<1> QED  BY <1>1, <1>3, <1>4, <1>5

LEMMA CancelTaskStep == ASSUME IInv, CancelTask PROVE IInv'
<1>1. UNCHANGED <<task, receipt, landed, limbo, events, reg, fence, phase, catch, owner, queue, turn,
                  late, faults>>
  BY DEF CancelTask, service, files, session
<1>2. FilesOK'
  BY <1>1, A2AAssumption DEF IInv, FilesOK, Messages, CancelTask
<1>3. HookOK'
  BY DEF IInv, HookOK, Admitted, CancelTask
<1>4. JobOK' /\ ProgOK' /\ GateOK' /\ ProgressKeepsToTheFence'
  BY <1>1, CancelKeeps DEF CancelTask
<1> QED  BY <1>1, <1>2, <1>3, <1>4, Kept DEF IInv

LEMMA CancelAgainStep == ASSUME IInv, CancelAgain PROVE IInv'
<1>1. UNCHANGED <<task, receipt, landed, limbo, events, reg, fence, phase, hook, catch, canceled,
                  owner, queue, turn, late, faults>>
  BY DEF CancelAgain, service, files, memory, session
<1>2. JobOK' /\ ProgOK' /\ GateOK' /\ ProgressKeepsToTheFence'
  BY <1>1, CancelKeeps DEF CancelAgain
<1> QED  BY <1>1, <1>2, Kept DEF IInv

LEMMA CancelEndsStep == ASSUME IInv, CancelEnds PROVE IInv'
<1>1. UNCHANGED <<task, receipt, landed, limbo, reg, fence, gate, phase, catch, canceled, job,
                  prog, owner, saw, queue, turn, late, faults>>
  BY DEF CancelEnds, files, session, progress
<1>2. ServiceOK'
  BY DEF IInv, ServiceOK, CancelEnds, Answer
<1>3. HookOK'
  BY A2AAssumption DEF HookOK, Admitted, CancelEnds, Answer, NoHook
<1> QED  BY <1>1, <1>2, <1>3, Kept DEF IInv

\* The job starts its progress, or waits to clear the fence away first.
LEMMA StartProgressKeeps ==
  ASSUME IInv, NotLaunched, NEW j \in Jobs, StartProgress(j), job[j] \in {"new", "stopPrev"},
         UNCHANGED <<fence, gate, turn>>
  PROVE  RegOK' /\ JobOK' /\ ProgOK' /\ GateOK' /\ ProgressKeepsToTheFence'
<1>1. j[1] \in Messages
  BY DEF Jobs
<1>2. RegOK'
  <2>1. PICK text \in Inherited(j[1]) :
          reg' = [reg EXCEPT ![j[1]].state = "running", ![j[1]].progress = text]
    BY DEF StartProgress
  <2>2. text \in {"never", "idle", "unsent", "sent"}
    BY <1>1, InheritedIsText DEF IInv
  <2> QED  BY <1>1, <2>1, <2>2 DEF IInv, RegOK, RegStates
<1>3. \E s \in {"ack", "clear"} : job' = [job EXCEPT ![j] = s]
  BY DEF StartProgress
<1>4. JobOK' /\ \A i \in Jobs : job'[i] \in Holding <=> job[i] \in Holding
  BY <1>3 DEF IInv, JobOK, Steps, Holding
<1>5. CASE fence \in {0, j[1]}
  <2>1. Launch(j) /\ saw' = saw
    BY <1>5 DEF StartProgress
  <2>2. prog[j].step \notin PastGate /\ saw' \in [Jobs -> 0 .. NumMessages]
    BY <2>1 DEF NotLaunched, Unlaunched, PastGate, IInv, ProgOK
  <2>3. ProgOK' /\ \A k \in Jobs : prog'[k].step \in PastGate <=> prog[k].step \in PastGate
    BY <2>1, <2>2, LaunchKeeps
  <2>4. GateOK'
    BY <1>4, <2>3, GateUndisturbed
  <2>5. ProgressKeepsToTheFence'
    BY <2>3 DEF IInv, ProgressKeepsToTheFence
  <2> QED  BY <1>2, <1>4, <2>3, <2>4, <2>5
<1>6. CASE fence \notin {0, j[1]}
  <2>1. UNCHANGED <<prog, owner>> /\ saw' = [saw EXCEPT ![j] = fence]
    BY <1>6 DEF StartProgress
  <2>2. ProgOK'
    BY <2>1 DEF IInv, ProgOK, FilesOK
  <2>3. GateOK' /\ ProgressKeepsToTheFence'
    BY <1>4, <2>1, GateUndisturbed, Kept DEF IInv
  <2> QED  BY <1>2, <1>4, <2>2, <2>3
<1> QED  BY <1>5, <1>6

LEMMA BeginJobStep ==
  ASSUME IInv, NotLaunched, NEW j \in Jobs, BeginJob(j) \/ GoOn(j)
  PROVE  IInv'
<1>1. UNCHANGED <<task, receipt, landed, limbo, events, fence, gate, phase, hook, catch, canceled,
                  queue, turn, late, faults>>
  BY DEF BeginJob, GoOn, service, memory, session
<1>2. CASE StartProgress(j) /\ job[j] \in {"new", "stopPrev"}
  BY <1>1, <1>2, StartProgressKeeps, Kept DEF IInv
<1>3. CASE job[j] = "new" /\ owner # NoJob /\ Write(j[1], "running", FALSE) /\ Stop(j)
           /\ job' = [job EXCEPT ![j] = "stopPrev"] /\ UNCHANGED <<owner, saw>>
  <2>1. RegOK'
    BY <1>3, WriteKeeps DEF IInv, RegStates, Jobs
  <2>2. JobOK' /\ \A i \in Jobs : job'[i] \in Holding <=> job[i] \in Holding
    BY <1>3 DEF IInv, JobOK, Steps, Holding
  <2>3. ProgOK' /\ \A k \in Jobs : prog'[k].step = prog[k].step
    BY <1>3, StopKeeps DEF IInv, ProgOK
  <2>4. GateOK'
    BY <1>1, <2>2, <2>3, GateUndisturbed
  <2>5. ProgressKeepsToTheFence'
    BY <1>1, <2>3 DEF IInv, ProgressKeepsToTheFence
  <2> QED  BY <1>1, <2>1, <2>2, <2>3, <2>4, <2>5, Kept DEF IInv
<1> QED  BY <1>2, <1>3 DEF BeginJob, GoOn

LEMMA ClearFenceStep == ASSUME IInv, NotLaunched, NEW j \in Jobs, ClearFence(j) PROVE IInv'
<1>1. UNCHANGED <<task, receipt, landed, limbo, events, reg, gate, phase, hook, catch, canceled,
                  queue, turn, late, faults>>
  BY DEF ClearFence, service, memory, session
<1>2. job[j] = "clear" /\ job' = [job EXCEPT ![j] = "ack"] /\ fence' \in {fence, 0} /\ Launch(j)
      /\ saw' = [saw EXCEPT ![j] = 0]
  BY DEF ClearFence
<1>3. FilesOK'
  BY <1>1, <1>2, A2AAssumption DEF IInv, FilesOK
<1>4. JobOK' /\ \A i \in Jobs : job'[i] \in Holding <=> job[i] \in Holding
  BY <1>2 DEF IInv, JobOK, Steps, Holding
<1>5. prog[j].step \notin PastGate /\ saw' \in [Jobs -> 0 .. NumMessages]
  BY <1>2, A2AAssumption DEF NotLaunched, Unlaunched, PastGate, IInv, ProgOK
<1>6. ProgOK' /\ \A k \in Jobs : prog'[k].step \in PastGate <=> prog[k].step \in PastGate
  BY <1>2, <1>5, LaunchKeeps
<1>7. GateOK'
  BY <1>1, <1>4, <1>6, GateUndisturbed
<1>8. ProgressKeepsToTheFence'
  BY <1>2, <1>6 DEF IInv, ProgressKeepsToTheFence
<1> QED  BY <1>1, <1>3, <1>4, <1>6, <1>7, <1>8, Kept DEF IInv

LEMMA JobAcknowledgesStep == ASSUME IInv, NEW j \in Jobs, JobAcknowledges(j) PROVE IInv'
<1>1. UNCHANGED <<task, receipt, landed, limbo, events, fence, gate, phase, hook, catch, canceled,
                  prog, owner, saw, turn, late, faults>>
  BY DEF JobAcknowledges, service, memory, progress
<1>2. RegOK'
  <2>1. j[1] \in Messages
    BY DEF Jobs
  <2>2. Write(j[1], "finalized", FALSE) \/ Receipted(j[1]) \/ UNCHANGED reg
    BY DEF JobAcknowledges
  <2> QED  BY <2>1, <2>2, WriteKeeps DEF IInv, RegStates
<1>3. JobOK'
  BY DEF IInv, JobOK, Steps, JobAcknowledges, Written, Write, Ask, Leave
<1>4. SessionOK'
  <2>1. Ask(j) \/ UNCHANGED queue
    BY DEF JobAcknowledges
  <2> QED  BY <1>1, <2>1, AskKeeps
<1>5. GateOK'
  <2>1. job[j] = "ack" /\ \E s \in {"stop", "turn", "ackPost"} : job' = [job EXCEPT ![j] = s]
    BY DEF JobAcknowledges, Ask, Leave
  <2>2. {"stop", "turn", "ackPost"} \subseteq Steps \ Holding /\ job[j] \notin Holding
    BY <2>1 DEF Steps, Holding
  <2> QED  BY <1>1, <2>1, <2>2, JobOutside
<1> QED  BY <1>1, <1>2, <1>3, <1>4, <1>5, Kept DEF IInv

LEMMA JobReceiptSentStep == ASSUME IInv, NEW j \in Jobs, JobReceiptSent(j) PROVE IInv'
<1>1. UNCHANGED <<task, landed, limbo, events, fence, gate, phase, hook, catch, canceled, prog, owner, saw,
                  turn, late, faults>>
  BY DEF JobReceiptSent, memory, progress
<1>2. RegOK'
  <2>1. j[1] \in Messages
    BY DEF Jobs
  <2>2. Write(j[1], "finalized", FALSE) \/ Receipted(j[1]) \/ UNCHANGED reg
    BY DEF JobReceiptSent
  <2> QED  BY <2>1, <2>2, WriteKeeps DEF IInv, RegStates
<1>3. JobOK'
  BY <1>1 DEF IInv, JobOK, Steps, JobReceiptSent, Ask
<1>4. SessionOK'
  <2>1. Ask(j) \/ UNCHANGED queue
    BY DEF JobReceiptSent
  <2> QED  BY <1>1, <2>1, AskKeeps
<1>5. GateOK'
  <2>1. job[j] \in {"ackPost", "lastAck"}
        /\ \E s \in {"turn", "canceled"} : job' = [job EXCEPT ![j] = s]
    BY DEF JobReceiptSent, Ask
  <2>2. {"turn", "canceled"} \subseteq Steps \ Holding /\ job[j] \notin Holding
    BY <2>1 DEF Steps, Holding
  <2> QED  BY <1>1, <2>1, <2>2, JobOutside
<1> QED  BY <1>1, <1>2, <1>3, <1>4, <1>5, Kept DEF IInv

LEMMA JobReceiptFailsStep ==
  ASSUME IInv, NEW j \in Jobs, NEW arrives \in BOOLEAN, JobReceiptFails(j, arrives)
  PROVE  IInv'
<1>1. UNCHANGED <<task, landed, limbo, events, reg, fence, gate, phase, hook, catch, canceled,
                  prog, owner, saw, turn, late, faults>>
  BY DEF JobReceiptFails, files, memory, progress
<1>2. JobOK'
  BY DEF IInv, JobOK, Steps, JobReceiptFails, Ask
<1>3. SessionOK'
  BY DEF IInv, SessionOK, JobReceiptFails, Ask
<1>4. GateOK'
  <2>1. job[j] \in {"ack", "ackPost"} /\ job' = [job EXCEPT ![j] = "turn"]
    BY DEF JobReceiptFails, Ask
  <2>2. "turn" \in Steps \ Holding /\ job[j] \notin Holding
    BY <2>1 DEF Steps, Holding
  <2> QED  BY <1>1, <2>1, <2>2, JobOutside
<1> QED  BY <1>1, <1>2, <1>3, <1>4, Kept DEF IInv

LEMMA StartTurnStep == ASSUME IInv, StartTurn PROVE IInv'
<1>1. UNCHANGED <<task, receipt, landed, limbo, events, reg, fence, gate, phase, hook, catch,
                  canceled, job, prog, owner, saw, late, faults>>
  BY DEF StartTurn, service, files, memory, progress
<1>2. SessionOK'
  <2>1. queue \in Seq(Jobs) /\ queue # <<>>
    BY DEF StartTurn, IInv, SessionOK
  <2>2. Head(queue) \in Jobs /\ Tail(queue) \in Seq(Jobs)
    BY <2>1
  <2>3. queue' = Tail(queue) /\ turn' = [j |-> Head(queue), step |-> "run", sent |-> "none"]
    BY DEF StartTurn, NoTurn
  <2> QED  BY <2>2, <2>3 DEF SessionOK
<1>3. GateOK'
  <2>1. turn.step \notin Outcomes /\ turn'.step \notin Outcomes
    BY DEF StartTurn, Outcomes, NoTurn
  <2> QED  BY <1>1, <2>1, GateUndisturbed DEF StartTurn
<1> QED  BY <1>1, <1>2, <1>3, Kept DEF IInv

LEMMA EndTurnStep == ASSUME IInv, NEW answer \in BOOLEAN, EndTurn(answer) PROVE IInv'
<1>1. UNCHANGED <<task, receipt, landed, limbo, events, fence, gate, phase, hook, catch, canceled,
                  prog, owner, saw, queue, late, faults>>
  BY DEF EndTurn, service, memory, progress
<1>2. RegOK'
  <2>1. turn.j[1] \in Messages
    BY DEF IInv, SessionOK, Jobs, EndTurn
  <2>2. Write(turn.j[1], "finalized", turn.sent = "input") \/ UNCHANGED reg
    BY DEF EndTurn
  <2> QED  BY <2>1, <2>2, WriteKeeps DEF IInv, RegStates
<1>3. JobOK'
  BY DEF IInv, JobOK, Steps, EndTurn, Leave
<1>4. SessionOK'
  BY DEF IInv, SessionOK, EndTurn, NoTurn, NoJob
<1>5. GateOK'
  <2>1. turn.step \notin Outcomes /\ turn'.step \notin Outcomes
    BY DEF EndTurn, Outcomes, NoTurn
  <2>2. job' = job \/ (job[turn.j] = "turn" /\ \E s \in {"stop", "gate"} : job' = [job EXCEPT ![turn.j] = s])
    BY DEF EndTurn, Leave
  <2>3. \A i \in Jobs : job'[i] \in Holding <=> job[i] \in Holding
    BY <2>2 DEF IInv, JobOK, Holding
  <2> QED  BY <1>1, <2>1, <2>3, GateUndisturbed
<1> QED  BY <1>1, <1>2, <1>3, <1>4, <1>5, Kept DEF IInv

LEMMA FailTurnStep == ASSUME IInv, FailTurn PROVE IInv'
<1>1. UNCHANGED <<task, receipt, landed, limbo, events, reg, fence, gate, phase, hook, catch,
                  canceled, prog, owner, saw, queue, late>>
  BY DEF FailTurn, service, files, memory, progress
<1>2. JobOK'
  BY DEF IInv, JobOK, Steps, FailTurn, Leave
<1>3. SessionOK'
  BY DEF IInv, SessionOK, FailTurn, NoTurn, NoJob
<1>4. GateOK'
  <2>1. turn.step \notin Outcomes /\ turn'.step \notin Outcomes
    BY DEF FailTurn, Outcomes, NoTurn
  <2>2. job' = job \/ (job[turn.j] = "turn" /\ job' = [job EXCEPT ![turn.j] = "stop"])
    BY DEF FailTurn, Leave
  <2>3. \A i \in Jobs : job'[i] \in Holding <=> job[i] \in Holding
    BY <2>2 DEF IInv, JobOK, Holding
  <2> QED  BY <1>1, <2>1, <2>3, GateUndisturbed
<1> QED  BY <1>1, <1>2, <1>3, <1>4, Kept DEF IInv

LEMMA TakeGateStep == ASSUME IInv, NEW j \in Jobs, TakeGate(j) PROVE IInv'
<1>1. UNCHANGED <<task, receipt, landed, limbo, events, reg, phase, hook, catch, canceled, prog, owner, saw,
                  queue, turn, late, faults>>
  BY DEF TakeGate, service, memory, session, progress
<1>2. FilesOK'
  <2>1. j[1] \in Messages /\ fence' = j[1]
    BY DEF TakeGate, Jobs
  <2> QED  BY <1>1, <2>1 DEF IInv, FilesOK, Messages
<1>3. JobOK'
  BY DEF IInv, JobOK, Steps, TakeGate
<1>4. GateOK'
  BY <1>1 DEF IInv, GateOK, JobOK, Holding, TakeGate
<1>5. ProgressKeepsToTheFence'
  <2>1. \A i \in Jobs : prog[i].step \notin PastGate
    BY DEF IInv, GateOK, TakeGate
  <2> QED  BY <1>1, <2>1 DEF ProgressKeepsToTheFence
<1> QED  BY <1>1, <1>2, <1>3, <1>4, <1>5, Kept DEF IInv

LEMMA CheckTaskStep == ASSUME IInv, NEW j \in Jobs, CheckTask(j) PROVE IInv'
<1>1. UNCHANGED <<task, receipt, landed, limbo, events, fence, phase, hook, catch, canceled, prog, owner, saw,
                  queue, turn, late, faults>>
  BY DEF CheckTask, service, memory, session, progress
<1>2. RegOK'
  <2>1. j[1] \in Messages
    BY DEF Jobs
  <2>2. Write(j[1], "finalized", FALSE) \/ Receipted(j[1]) \/ UNCHANGED reg
    BY DEF CheckTask
  <2> QED  BY <2>1, <2>2, WriteKeeps DEF IInv, RegStates
<1>3. JobOK'
  BY DEF IInv, JobOK, Steps, CheckTask, Written, Write, Leave
<1>4. GateOK'
  BY <1>1 DEF IInv, GateOK, JobOK, Holding, CheckTask, Written, Write, Leave
<1> QED  BY <1>1, <1>2, <1>3, <1>4, Kept DEF IInv

LEMMA CheckFailsStep == ASSUME IInv, NEW j \in Jobs, CheckFails(j) PROVE IInv'
<1>1. UNCHANGED <<task, receipt, landed, limbo, events, reg, fence, phase, hook, catch, canceled,
                  prog, owner, saw, queue, turn, late>>
  BY DEF CheckFails, service, files, memory, session, progress
<1>2. JobOK'
  BY DEF IInv, JobOK, Steps, CheckFails, Leave
<1>3. GateOK'
  BY <1>1 DEF IInv, GateOK, JobOK, Holding, CheckFails, Leave
<1> QED  BY <1>1, <1>2, <1>3, Kept DEF IInv

LEMMA AnswerSentStep == ASSUME IInv, NEW j \in Jobs, AnswerSent(j) PROVE IInv'
<1>1. UNCHANGED <<receipt, limbo, events, fence, phase, hook, catch, canceled, prog, owner, saw, queue, turn,
                  late, faults>>
  BY DEF AnswerSent, memory, session, progress
<1>2. ServiceOK'
  <2>1. j[1] \in Messages /\ "done" \in Outcomes /\ Accepted(j[1], "done")
    BY DEF AnswerSent, Jobs, Outcomes
  <2> QED  BY <1>1, <2>1, AcceptedKeeps DEF IInv, ServiceOK
<1>3. RegOK'
  <2>1. j[1] \in Messages
    BY DEF Jobs
  <2>2. Write(j[1], "finalized", FALSE) \/ Receipted(j[1]) \/ UNCHANGED reg
    BY DEF AnswerSent
  <2> QED  BY <2>1, <2>2, WriteKeeps DEF IInv, RegStates
<1>4. JobOK'
  BY DEF IInv, JobOK, Steps, AnswerSent, Written, Write, Leave
<1>5. GateOK'
  <2>1. job[j] \in Holding /\ gate' = "free"
    BY DEF AnswerSent, Holding
  <2>2. job' = [job EXCEPT ![j] = "stop"] \/ job' = [job EXCEPT ![j] = "canceled"]
    BY DEF AnswerSent, Leave
  <2> QED  BY <1>1, <2>1, <2>2, JobLetsGo
<1> QED  BY <1>1, <1>2, <1>3, <1>4, <1>5, Kept DEF IInv

LEMMA AnswerFailsStep ==
  ASSUME IInv, NEW j \in Jobs, NEW later \in BOOLEAN, AnswerFails(j, later)
  PROVE  IInv'
<1>1. UNCHANGED <<task, receipt, landed, events, reg, fence, phase, hook, catch, canceled, prog, owner, saw,
                  queue, turn, late>>
  BY DEF AnswerFails, files, memory, session, progress
<1>2. ServiceOK'
  <2>1. limbo' = limbo \/ limbo' = limbo \cup {<<j[1], "done">>}
    BY DEF AnswerFails
  <2>2. limbo \cup {<<j[1], "done">>} \subseteq Messages \X Outcomes
    BY LimboKeeps DEF Outcomes
  <2> QED  BY <1>1, <2>1, <2>2 DEF IInv, ServiceOK
<1>3. JobOK'
  BY DEF IInv, JobOK, Steps, AnswerFails
<1>4. GateOK'
  BY <1>1 DEF IInv, GateOK, JobOK, Holding, AnswerFails
<1> QED  BY <1>1, <1>2, <1>3, <1>4, Kept DEF IInv

LEMMA JobCanceledStep == ASSUME IInv, NEW j \in Jobs, JobCanceled(j) PROVE IInv'
<1>1. UNCHANGED <<task, receipt, landed, limbo, events, fence, gate, phase, hook, catch, canceled,
                  prog, owner, saw, queue, turn, late, faults>>
  BY DEF JobCanceled, service, memory, session, progress
<1>2. RegOK'
  <2>1. j[1] \in Messages
    BY DEF Jobs
  <2>2. Write(j[1], "finalized", FALSE) \/ Receipted(j[1]) \/ UNCHANGED reg
    BY DEF JobCanceled
  <2> QED  BY <2>1, <2>2, WriteKeeps DEF IInv, RegStates
<1>3. JobOK'
  BY DEF IInv, JobOK, Steps, JobCanceled, Leave
<1>4. GateOK'
  BY <1>1 DEF IInv, GateOK, Holding, JobCanceled, Leave
<1> QED  BY <1>1, <1>2, <1>3, <1>4, Kept DEF IInv

LEMMA StopsOwnProgressStep == ASSUME IInv, NEW j \in Jobs, StopsOwnProgress(j) PROVE IInv'
<1>1. UNCHANGED <<task, receipt, landed, limbo, events, reg, fence, gate, phase, hook, catch,
                  canceled, owner, saw, queue, turn, late, faults>>
  BY DEF StopsOwnProgress, service, files, memory, session
<1>2. job[j] = "stop" /\ job' = [job EXCEPT ![j] = "stopping"] /\ Stop(j) /\ owner[1] = j[1]
  BY DEF StopsOwnProgress
<1>3. JobOK' /\ \A i \in Jobs : job'[i] \in Holding <=> job[i] \in Holding
  BY <1>2 DEF IInv, JobOK, Steps, Holding
<1>4. owner \in Jobs
  <2>1. j[1] # 0
    BY DEF Jobs, Messages
  <2> QED  BY <1>2, <2>1 DEF IInv, ProgOK, NoJob
<1>5. ProgOK' /\ \A k \in Jobs : prog'[k].step = prog[k].step
  BY <1>1, <1>2, <1>4, StopKeeps
<1>6. GateOK'
  BY <1>1, <1>3, <1>5, GateUndisturbed
<1>7. ProgressKeepsToTheFence'
  BY <1>1, <1>5 DEF IInv, ProgressKeepsToTheFence
<1> QED  BY <1>1, <1>3, <1>5, <1>6, <1>7, Kept DEF IInv

LEMMA EndJobStep == ASSUME IInv, NEW j \in Jobs, EndJob(j) PROVE IInv'
<1>1. UNCHANGED <<task, receipt, landed, limbo, events, reg, fence, gate, phase, hook, catch,
                  canceled, prog, owner, saw, queue, turn, late, faults>>
  BY DEF EndJob, service, files, memory, session, progress
<1>2. JobOK'
  BY DEF IInv, JobOK, Steps, EndJob
<1>3. GateOK'
  BY <1>1 DEF IInv, GateOK, Holding, EndJob
<1> QED  BY <1>1, <1>2, <1>3, Kept DEF IInv

LEMMA CallToolStep == ASSUME IInv, NEW o \in Outcomes, CallTool(o) PROVE IInv'
<1>1. UNCHANGED <<task, receipt, landed, limbo, events, reg, phase, hook, catch, canceled, job,
                  prog, owner, saw, queue, late, faults>>
  BY DEF CallTool, service, memory, progress
<1>2. FilesOK'
  <2>1. turn.j[1] \in Messages /\ fence' = turn.j[1]
    BY DEF CallTool, Jobs, IInv, SessionOK
  <2> QED  BY <1>1, <2>1 DEF IInv, FilesOK, Messages
<1>3. SessionOK'
  BY DEF IInv, SessionOK, CallTool
<1>4. GateOK'
  <2>1. turn'.step \in Outcomes /\ gate' = "tool" /\ gate = "free"
    BY DEF IInv, SessionOK, CallTool
  <2> QED  BY <1>1, <2>1 DEF IInv, GateOK
<1>5. ProgressKeepsToTheFence'
  <2>1. \A i \in Jobs : prog[i].step \notin PastGate
    BY DEF IInv, GateOK, CallTool
  <2> QED  BY <1>1, <2>1 DEF ProgressKeepsToTheFence
<1> QED  BY <1>1, <1>2, <1>3, <1>4, <1>5, Kept DEF IInv

LEMMA ToolSentStep == ASSUME IInv, ToolSent PROVE IInv'
<1>1. UNCHANGED <<receipt, limbo, events, reg, fence, phase, hook, catch, canceled, job, prog, owner, saw,
                  queue, late, faults>>
  BY DEF ToolSent, files, memory, progress
<1>2. ServiceOK'
  <2>1. turn.j[1] \in Messages /\ turn.step \in Outcomes /\ Accepted(turn.j[1], turn.step)
    BY DEF IInv, SessionOK, ToolSent, Jobs, Outcomes
  <2> QED  BY <1>1, <2>1, AcceptedKeeps DEF IInv, ServiceOK
<1>3. SessionOK'
  BY <1>1, A2AAssumption DEF IInv, SessionOK, Jobs, Outcomes, ToolSent, Terminal, Accepted
<1>4. GateOK'
  <2>1. turn'.step \notin Outcomes /\ gate' = "free" /\ gate = "tool"
    BY DEF IInv, GateOK, SessionOK, Outcomes, ToolSent
  <2> QED  BY <1>1, <2>1 DEF IInv, GateOK
<1> QED  BY <1>1, <1>2, <1>3, <1>4, Kept DEF IInv

LEMMA ToolFailsStep == ASSUME IInv, NEW later \in BOOLEAN, ToolFails(later) PROVE IInv'
<1>1. UNCHANGED <<task, receipt, landed, events, reg, fence, phase, hook, catch, canceled, job,
                  prog, owner, saw, queue, late>>
  BY DEF ToolFails, files, memory, progress
<1>2. ServiceOK'
  <2>1. limbo' = limbo \/ limbo' = limbo \cup {<<turn.j[1], turn.step>>}
    BY DEF ToolFails
  <2>2. turn.j \in Jobs /\ turn.step \in Outcomes
    BY DEF ToolFails, IInv, SessionOK, Outcomes
  <2>3. limbo \cup {<<turn.j[1], turn.step>>} \subseteq Messages \X Outcomes
    BY <2>2, LimboKeeps
  <2> QED  BY <1>1, <2>1, <2>3 DEF IInv, ServiceOK
<1>3. SessionOK'
  BY A2AAssumption DEF IInv, SessionOK, Outcomes, ToolFails
<1>4. GateOK'
  <2>1. turn'.step \notin Outcomes /\ gate' = "free" /\ gate = "tool"
    BY DEF IInv, GateOK, SessionOK, Outcomes, ToolFails
  <2> QED  BY <1>1, <2>1 DEF IInv, GateOK
<1> QED  BY <1>1, <1>2, <1>3, <1>4, Kept DEF IInv
-----------------------------------------------------------------------------
\* The progress job goes on to a step, or ends: it takes the gate while it is free and no
\* fence is there, and gives it back when it goes on to a step outside.
Advances(i, s) ==
  /\ Step(i, s) \/ (Ended(i) /\ s = "none")
  /\ prog[i].step # "none" \/ s = "none"
  /\ prog[i].step \in PastGate \/ s \notin PastGate \/ (gate = "free" /\ fence = 0)
  /\ gate' = IF s \in PastGate THEN "progress" ELSE IF prog[i].step \in PastGate THEN "free" ELSE gate

LEMMA ProgressAdvances ==
  ASSUME IInv, NEW i \in Jobs, Progress(i)
  PROVE  \E s \in ProgressSteps : Advances(i, s)
<1>1. prog[i].step \in PastGate => gate = "progress"
  BY DEF IInv, GateOK
<1>2. /\ {"none", "wait", "atGate", "read1", "summary", "read2", "post"} = ProgressSteps
      /\ {"read1", "summary", "read2", "post"} = PastGate
  BY DEF ProgressSteps, PastGate
<1>3. \A s \in ProgressSteps :
        /\ Step(i, s) \/ (Ended(i) /\ s = "none")
        /\ prog[i].step # "none" \/ s = "none"
        /\ prog[i].step \in PastGate \/ s \notin PastGate \/ (gate = "free" /\ fence = 0)
        /\ gate' = IF s \in PastGate THEN "progress" ELSE IF prog[i].step \in PastGate THEN "free" ELSE gate
        => \E t \in ProgressSteps : Advances(i, t)
  BY DEF Advances
<1>4. CASE Wake(i)
  <2>1. prog[i].step = "wait" /\ gate' = gate /\ (Ended(i) \/ Step(i, "atGate"))
    BY <1>4 DEF Wake, GoesOn
  <2> QED  BY <1>2, <1>3, <2>1
<1>5. CASE EnterGate(i)
  <2>1. prog[i].step = "atGate" /\ gate = "free"
        /\ ((Ended(i) /\ gate' = gate) \/ (fence = 0 /\ Step(i, "read1") /\ gate' = "progress"))
    BY <1>5 DEF EnterGate, GoesOn
  <2> QED  BY <1>2, <1>3, <2>1
<1>6. CASE ReadTask(i)
  <2>1. prog[i].step = "read1"
        /\ ((Ended(i) /\ gate' = "free") \/ (\E s \in {"summary", "read2"} : Step(i, s) /\ gate' = gate))
    BY <1>6 DEF ReadTask, GoesOn, Finished
  <2> QED  BY <1>1, <1>2, <1>3, <2>1
<1>7. CASE Summarized(i)
  <2>1. prog[i].step = "summary" /\ Step(i, "read2") /\ gate' = gate
    BY <1>7 DEF Summarized, GoesOn
  <2> QED  BY <1>1, <1>2, <1>3, <2>1
<1>8. CASE ReadAgain(i)
  <2>1. prog[i].step = "read2"
        /\ \/ (Ended(i) \/ Step(i, "wait")) /\ gate' = "free"
           \/ Step(i, "post") /\ gate' = gate
    BY <1>8 DEF ReadAgain, GoesOn, Finished, Repeats
  <2> QED  BY <1>1, <1>2, <1>3, <2>1
<1>9. CASE ReadFails(i)
  <2>1. prog[i].step \in {"read1", "read2"} /\ Step(i, "wait") /\ gate' = "free"
    BY <1>9 DEF ReadFails, GoesOn, Repeats
  <2> QED  BY <1>2, <1>3, <2>1
<1>10. CASE ProgressSent(i) \/ \E arrives \in BOOLEAN : ProgressFails(i, arrives)
  <2>1. prog[i].step = "post" /\ (Ended(i) \/ Step(i, "wait")) /\ gate' = "free"
    BY <1>10 DEF ProgressSent, ProgressFails, Finished, Repeats
  <2> QED  BY <1>2, <1>3, <2>1
<1>11. CASE Killed(i)
  <2>1. i \in Jobs /\ prog[i].stop = "kill" /\ prog[i].step # "post" /\ Ended(i)
        /\ gate' = IF prog[i].step \in {"read1", "summary", "read2"} THEN "free" ELSE gate
    BY <1>11 DEF Killed
  <2> QED  BY <1>2, <1>3, <2>1
<1> QED  BY <1>4, <1>5, <1>6, <1>7, <1>8, <1>9, <1>10, <1>11 DEF Progress

\* What its texts leave in the registry.
LEMMA TextsKeep ==
  ASSUME IInv, NEW i \in Jobs, Progress(i)
  PROVE  RegOK' /\ \A m \in Messages : reg'[m].state = reg[m].state \/ reg'[m].state = "running"
<1>1. i[1] \in Messages
  BY DEF Jobs
<1>2. \/ UNCHANGED reg \/ Delivered(i[1]) \/ Unheard(i[1])
      \/ reg' = [reg EXCEPT ![i[1]].state = "running", ![i[1]].progress = "unsent"]
  BY DEF Progress, files, Wake, EnterGate, ReadTask, Summarized, ReadAgain, ReadFails, ProgressSent, ProgressFails,
         Killed
<1> QED  BY <1>1, <1>2 DEF IInv, RegOK, RegStates, Delivered, Unheard

LEMMA ProgressStep == ASSUME IInv, NEW i \in Jobs, Progress(i) PROVE IInv'
<1>1. UNCHANGED <<task, receipt, landed, limbo, events, fence, phase, hook, catch, canceled, job, saw,
                  queue, turn>>
  BY DEF Progress, service, files, memory, session, Wake, EnterGate, ReadTask, Summarized,
         ReadAgain, ReadFails, ProgressSent, ProgressFails, Killed
<1>2. ServiceOK'
  <2>1. UNCHANGED late \/ late' = late \cup ({i[1]} \cap landed)
    BY DEF Progress, Wake, EnterGate, ReadTask, Summarized, ReadAgain, ReadFails, ProgressSent,
           ProgressFails, Killed, Told
  <2> QED  BY <1>1, <2>1 DEF IInv, ServiceOK
<1>3. RegOK'
  BY TextsKeep
<1>4. ProgOK' /\ GateOK' /\ ProgressKeepsToTheFence'
  <2>1. PICK s \in ProgressSteps : Advances(i, s)
    BY ProgressAdvances
  <2> QED  BY <1>1, <2>1, ProgressAtGate DEF Advances
<1> QED  BY <1>1, <1>2, <1>3, <1>4, Kept DEF IInv

LEMMA ListenStep == ASSUME IInv, Listen \/ OpenSessions PROVE IInv'
<1>1. UNCHANGED <<task, receipt, landed, limbo, events, reg, fence, gate, hook, catch, canceled,
                  job, prog, owner, saw, queue, turn, late, faults>>
  BY DEF Listen, OpenSessions, service, files, session, progress
<1>2. CatchOK'
  BY DEF IInv, CatchOK, Phases, Listen, OpenSessions
<1> QED  BY <1>1, <1>2, Kept DEF IInv

LEMMA CatchUpStep == ASSUME IInv, CatchUp PROVE IInv'
<1>1. UNCHANGED <<task, receipt, landed, limbo, events, reg, fence, gate, hook, canceled, job,
                  prog, owner, saw, queue, turn, late, faults>>
  BY DEF CatchUp, service, files, session, progress
<1>2. CatchOK'
  <2>1. phase' = "catching"
        /\ catch' = [next |-> 1, step |-> "look", seen |-> [m \in Messages |-> Unfinished(reg[m].state)]]
    BY DEF CatchUp, NoCatch
  <2>2. \A m \in Messages : Unfinished(reg[m].state) \in RegStates
    BY DEF IInv, RegOK, Unfinished, RegStates
  <2> QED  BY <2>1, <2>2, A2AAssumption DEF CatchOK, Phases
<1> QED  BY <1>1, <1>2, Kept DEF IInv

\* The catch-up goes on to the next entry and forgets what it read of this one.
LEMMA CatchGoesOn ==
  ASSUME IInv, NEW m \in Messages, NEW step, Catching(m, step), CatchNext, phase' = phase
  PROVE  CatchOK'
<1>1. catch.next + 1 \in 1 .. NumMessages + 1
  BY A2AAssumption DEF Catching, Messages
<1>2. [catch.seen EXCEPT ![catch.next] = "none"] \in [Messages -> RegStates]
  BY DEF IInv, CatchOK, RegStates
<1> QED  BY <1>1, <1>2 DEF IInv, CatchOK, CatchNext

LEMMA CatchLookStep == ASSUME IInv, NEW m \in Messages, CatchLook(m) PROVE IInv'
<1>1. UNCHANGED <<task, receipt, landed, limbo, events, reg, fence, gate, phase, hook, canceled, job,
                  prog, owner, saw, queue, turn, late, faults>>
  BY DEF CatchLook, service, files, session, progress
<1>2. CatchOK'
  <2>1. Catching(m, "look") /\ (CatchNext \/ catch' = [catch EXCEPT !.step = "read"])
    BY DEF CatchLook
  <2>2. CASE CatchNext
    BY <1>1, <2>1, <2>2, CatchGoesOn
  <2>3. CASE catch' = [catch EXCEPT !.step = "read"]
    BY <1>1, <2>3 DEF IInv, CatchOK
  <2> QED  BY <2>1, <2>2, <2>3
<1> QED  BY <1>1, <1>2, Kept DEF IInv

LEMMA CatchEntryStep == ASSUME IInv, NEW m \in Messages, CatchEntry(m) PROVE IInv'
<1>1. UNCHANGED <<task, receipt, landed, limbo, events, fence, gate, phase, hook, canceled, prog, owner, saw,
                  queue, turn, late, faults>>
  BY DEF CatchEntry, service, session, progress
<1>2. RegOK'
  <2>1. catch.seen[m] \in RegStates
    BY DEF IInv, CatchOK
  <2>2. Write(m, "finalized", FALSE) \/ Write(m, catch.seen[m], FALSE) \/ UNCHANGED reg
    BY DEF CatchEntry
  <2> QED  BY <2>1, <2>2, WriteKeeps DEF IInv, RegStates
<1>3. CatchOK'
  BY <1>1, CatchGoesOn DEF CatchEntry
<1>4. Track(m) \/ UNCHANGED job
  BY DEF CatchEntry
<1>5. JobOK'
  BY <1>4, TrackStarts DEF IInv, JobOK, Steps, Jobs
<1>6. GateOK'
  BY <1>1, <1>4, TrackOutside
<1> QED  BY <1>1, <1>2, <1>3, <1>5, <1>6, Kept DEF IInv

LEMMA DiscoverStep == ASSUME IInv, Discover PROVE IInv'
<1>1. UNCHANGED <<task, receipt, landed, limbo, events, reg, fence, gate, canceled, job, prog, owner, saw,
                  queue, turn, late, faults>>
  BY DEF Discover, service, files, session, progress
<1>2. HookOK'
  BY DEF IInv, HookOK, ServiceOK, Discover
<1>3. CatchOK'
  BY A2AAssumption DEF CatchOK, Phases, RegStates, Discover, NoCatch
<1> QED  BY <1>1, <1>2, <1>3, Kept DEF IInv

LEMMA CatchFailsStep == ASSUME IInv, CatchFails PROVE IInv'
<1>1. UNCHANGED <<task, receipt, landed, limbo, events, reg, fence, gate, hook, canceled, job,
                  prog, owner, saw, queue, turn, late>>
  BY DEF CatchFails, service, files, session, progress
<1>2. CatchOK'
  BY A2AAssumption DEF CatchOK, Phases, RegStates, CatchFails, NoCatch
<1> QED  BY <1>1, <1>2, Kept DEF IInv

LEMMA CloseStep == ASSUME IInv, Close PROVE IInv'
<1>1. UNCHANGED <<task, receipt, landed, limbo, events, reg, fence, gate, hook, catch, canceled,
                  job, prog, owner, saw, queue, turn, late>>
  BY DEF Close, service, files, session, progress
<1>2. CatchOK'
  BY DEF IInv, CatchOK, Phases, Close
<1> QED  BY <1>1, <1>2, Kept DEF IInv

LEMMA CloseProgressStep == ASSUME IInv, CloseProgress PROVE IInv'
<1>1. UNCHANGED <<task, receipt, landed, limbo, events, reg, fence, gate, hook, catch,
                  canceled, job, owner, saw, queue, turn, late, faults>>
  BY DEF CloseProgress, service, files, session
<1>2. CatchOK'
  BY DEF IInv, CatchOK, Phases, CloseProgress
<1>3. ProgOK' /\ \A k \in Jobs : prog'[k].step = prog[k].step
  BY <1>1, StopKeeps DEF IInv, ProgOK, CloseProgress
<1>4. GateOK'
  BY <1>1, <1>3, GateUndisturbed
<1>5. ProgressKeepsToTheFence'
  BY <1>1, <1>3 DEF IInv, ProgressKeepsToTheFence
<1> QED  BY <1>1, <1>2, <1>3, <1>4, <1>5, Kept DEF IInv

LEMMA CloseJobsStep == ASSUME IInv, CloseJobs PROVE IInv'
<1>1. UNCHANGED <<task, receipt, landed, limbo, events, reg, fence, hook, catch, canceled, queue,
                  turn, late, faults>>
  BY DEF CloseJobs, service, files, session
<1>2. CatchOK'
  BY DEF IInv, CatchOK, Phases, CloseJobs
<1>3. JobOK' /\ ProgOK' /\ GateOK' /\ ProgressKeepsToTheFence'
  BY <1>1, CancelKeeps DEF CloseJobs
<1> QED  BY <1>1, <1>2, <1>3, Kept DEF IInv

\* A new process starts from nothing; what the texts in flight leave.
LEMMA GoneKeeps ==
  ASSUME IInv, Gone, LastTexts, limbo' = limbo \cup InFlight, events' \subseteq events \cup {hook.m}
  PROVE  IInv'
<1>1. RegOK' /\ late' \subseteq Messages
  <2>1. CASE UNCHANGED <<reg, late>>
    BY <2>1, Kept DEF IInv, ServiceOK
  <2>2. CASE \E i \in Jobs : prog[i].step = "post" /\ Told(i[1]) /\ Unheard(i[1])
    <3>1. PICK i \in Jobs : Told(i[1]) /\ Unheard(i[1])
      BY <2>2
    <3>2. i[1] \in Messages
      BY DEF Jobs
    <3> QED  BY <3>1, <3>2 DEF Told, Unheard, IInv, ServiceOK, RegOK
  <2> QED  BY <2>1, <2>2 DEF LastTexts
<1>2. ServiceOK'
  <2>1. InFlight \subseteq Messages \X Outcomes /\ UNCHANGED <<task, landed>>
    BY InFlightIsTyped DEF Gone
  <2>2. hook.m \in 0 .. NumMessages
    BY DEF IInv, HookOK
  <2> QED  BY <1>1, <2>1, <2>2 DEF IInv, ServiceOK
<1>3. FilesOK'
  BY DEF IInv, FilesOK, Gone
<1>4. HookOK'
  BY A2AAssumption DEF HookOK, Admitted, Gone, NoHook
<1>5. CatchOK'
  BY A2AAssumption DEF CatchOK, Phases, RegStates, Gone, NoCatch
<1>6. JobOK'
  BY DEF JobOK, Steps, Gone
<1>7. SessionOK'
  BY DEF SessionOK, Gone, NoTurn, NoJob
<1>8. ProgOK'
  <2>1. NoProg \in Progresses
    BY DEF NoProg, Progresses, ProgressSteps
  <2> QED  BY <2>1, A2AAssumption DEF ProgOK, Gone
<1>9. GateOK' /\ ProgressKeepsToTheFence'
  BY DEF GateOK, ProgressKeepsToTheFence, Holding, PastGate, Outcomes, Gone, NoProg, NoTurn
<1> QED  BY <1>1, <1>2, <1>3, <1>4, <1>5, <1>6, <1>7, <1>8, <1>9 DEF IInv

LEMMA DownStep == ASSUME IInv, Down PROVE IInv'
BY GoneKeeps DEF Down

LEMMA CrashStep == ASSUME IInv, Crash PROVE IInv'
BY GoneKeeps DEF Crash
-----------------------------------------------------------------------------
\* Who goes on to a step that comes after the launch, and who launches nothing.
LEMMA JobStaysLaunched ==
  ASSUME IInv, NotLaunched, NEW j \in Jobs \cup {NoJob}, NEW s \in Steps \ Unlaunched,
         job' = [job EXCEPT ![j] = s], UNCHANGED prog
  PROVE  NotLaunched'
BY DEF IInv, JobOK, NotLaunched

LEMMA JobsGoOn ==
  ASSUME IInv, NotLaunched, NEW j \in Jobs,
         \/ JobAcknowledges(j) \/ JobReceiptSent(j) \/ (\E arrives \in BOOLEAN : JobReceiptFails(j, arrives))
         \/ TakeGate(j) \/ CheckTask(j) \/ CheckFails(j) \/ AnswerSent(j)
         \/ (\E later \in BOOLEAN : AnswerFails(j, later)) \/ JobCanceled(j) \/ EndJob(j)
  PROVE  NotLaunched'
<1>1. UNCHANGED prog
  BY DEF JobAcknowledges, JobReceiptSent, JobReceiptFails, TakeGate, CheckTask, CheckFails, AnswerSent,
         AnswerFails, JobCanceled, EndJob, progress
<1>2. \E s \in {"stop", "turn", "ackPost", "canceled", "check", "post", "none"} :
        job' = [job EXCEPT ![j] = s]
  BY DEF JobAcknowledges, JobReceiptSent, JobReceiptFails, TakeGate, CheckTask, CheckFails, AnswerSent,
         AnswerFails, JobCanceled, EndJob, Ask, Leave
<1>3. {"stop", "turn", "ackPost", "canceled", "check", "post", "none"} \subseteq Steps \ Unlaunched
  BY DEF Steps, Unlaunched
<1> QED  BY <1>1, <1>2, <1>3, JobStaysLaunched

LEMMA TurnsLaunchNothing ==
  ASSUME IInv, NotLaunched,
         StartTurn \/ FailTurn \/ (\E answer \in BOOLEAN : EndTurn(answer)) \/ ToolSent
         \/ (\E later \in BOOLEAN : ToolFails(later)) \/ (\E o \in Outcomes : CallTool(o))
  PROVE  NotLaunched'
<1>1. UNCHANGED prog
  BY DEF StartTurn, FailTurn, EndTurn, ToolSent, ToolFails, CallTool, progress
<1>2. \/ UNCHANGED job
      \/ \E s \in {"stop", "gate"} : job' = [job EXCEPT ![turn.j] = s]
  BY DEF StartTurn, FailTurn, EndTurn, ToolSent, ToolFails, CallTool, Leave
<1>3. {"stop", "gate"} \subseteq Steps \ Unlaunched /\ turn.j \in Jobs \cup {NoJob}
  BY DEF Steps, Unlaunched, IInv, SessionOK, NoJob
<1> QED  BY <1>1, <1>2, <1>3, JobStaysLaunched DEF NotLaunched

LEMMA TracksLaunchNothing ==
  ASSUME IInv, NotLaunched, NEW m \in Messages, Track(m) \/ UNCHANGED job, UNCHANGED prog
  PROVE  NotLaunched'
<1>1. CASE Track(m)
  <2>1. PICK s \in Slots : Free(<<m, s>>) /\ job' = [job EXCEPT ![<<m, s>>] = "new"]
    BY <1>1 DEF Track
  <2>2. prog[<<m, s>>].step = "none"
    BY <2>1 DEF Free, NoProg
  <2> QED  BY <2>1, <2>2 DEF IInv, JobOK, NotLaunched
<1> QED  BY <1>1 DEF NotLaunched

LEMMA StopMovesNothing ==
  ASSUME ProgOK, NEW w, Stop(w)
  PROVE  \A k \in Jobs : prog'[k].step = prog[k].step
<1> SUFFICES ASSUME NEW k \in Jobs PROVE prog'[k].step = prog[k].step
  OBVIOUS
<1>1. prog[k] \in Progresses
  BY DEF ProgOK
<1>2. \/ prog'[k] = prog[k]
      \/ prog'[k] = [prog[k] EXCEPT !.stop = IF @ = "no" THEN "stop" ELSE @, !.by = @ \cup {w}]
  BY DEF Stop, ProgOK
<1> QED  BY <1>1, <1>2 DEF Progresses

LEMMA LaunchesKeepToIt ==
  ASSUME IInv, NotLaunched, NEW j \in Jobs,
         BeginJob(j) \/ GoOn(j) \/ ClearFence(j) \/ StopsOwnProgress(j)
  PROVE  NotLaunched'
<1>1. CASE Launch(j) /\ job' = [job EXCEPT ![j] = "ack"]
  BY <1>1 DEF IInv, JobOK, ProgOK, NotLaunched, Unlaunched, Launch
<1>2. CASE Stop(j) /\ \/ job[j] = "new" /\ job' = [job EXCEPT ![j] = "stopPrev"]
                      \/ job' = [job EXCEPT ![j] = "stopping"]
  <2>1. \A k \in Jobs : prog'[k].step = prog[k].step
    BY <1>2, StopMovesNothing DEF IInv
  <2> QED  BY <1>2, <2>1 DEF IInv, JobOK, NotLaunched, Unlaunched
<1>3. CASE job[j] \in {"new", "stopPrev"} /\ job' = [job EXCEPT ![j] = "clear"] /\ UNCHANGED prog
  BY <1>3 DEF IInv, JobOK, NotLaunched, Unlaunched
<1> QED
  BY <1>1, <1>2, <1>3 DEF BeginJob, GoOn, ClearFence, StopsOwnProgress, StartProgress

LEMMA ProgressLaunchesNothing ==
  ASSUME IInv, NotLaunched, NEW i \in Jobs, Progress(i)
  PROVE  NotLaunched'
<1>1. PICK s \in ProgressSteps : Advances(i, s)
  BY ProgressAdvances
<1>2. UNCHANGED <<job, saw>>
  BY DEF Progress, Wake, EnterGate, ReadTask, Summarized, ReadAgain, ReadFails, ProgressSent,
         ProgressFails, Killed
<1>3. prog'[i].step = s /\ \A k \in Jobs : k # i => prog'[k] = prog[k]
  BY <1>1, <1>2, OneProgressMoves DEF IInv, Advances
<1> QED  BY <1>1, <1>2, <1>3 DEF NotLaunched, Unlaunched, Advances

LEMMA ProcessLaunchesNothing ==
  ASSUME IInv, NotLaunched, CancelTask \/ CancelAgain \/ CloseProgress \/ CloseJobs \/ Down \/ Crash
  PROVE  NotLaunched'
<1>1. CASE CancelJobs
  <2>1. \A j \in Jobs : job'[j] \in Unlaunched => job[j] \in Unlaunched
    BY <1>1 DEF CancelJobs, AfterCancel, Unlaunched
  <2>2. \A j \in Jobs : prog'[j] = prog[j] \/ prog'[j] = [prog[j] EXCEPT !.stop = "kill"]
    BY <1>1 DEF CancelJobs
  <2>3. \A j \in Jobs : prog'[j].step = prog[j].step
    <3> TAKE j \in Jobs
    <3>1. prog[j] \in Progresses
      BY DEF IInv, ProgOK
    <3> QED  BY <2>2, <3>1 DEF Progresses
  <2> QED  BY <2>1, <2>3 DEF NotLaunched
<1>2. CASE Gone
  BY <1>2 DEF Gone, NotLaunched, Unlaunched
<1>3. CASE CloseProgress
  BY <1>3, StopMovesNothing DEF IInv, NotLaunched, CloseProgress
<1> QED  BY <1>1, <1>2, <1>3 DEF CancelTask, CancelAgain, CloseJobs, Down, Crash

LEMMA LaunchesOnce == ASSUME IInv, NotLaunched, [Next]_vars PROVE NotLaunched'
<1>1. CASE UNCHANGED vars
  BY <1>1 DEF vars, progress, NotLaunched
<1>2. CASE Environment
  <2>1. Crash \/ UNCHANGED <<job, prog>> \/ \E o \in Outcomes : CallTool(o)
    BY <1>2 DEF Environment, progress, CallerSends, CallerCancels, Close, Redeliver, ArrivesLate
  <2> QED  BY <2>1, ProcessLaunchesNothing, TurnsLaunchNothing DEF NotLaunched
<1>3. CASE Webhook
  <2>1. \/ UNCHANGED <<job, prog>> \/ CancelTask \/ CancelAgain
        \/ hook.step \in Admitted /\ (Track(hook.m) \/ UNCHANGED job) /\ UNCHANGED prog
    BY <1>3 DEF Webhook, progress, Admit, AdmitFails, Acknowledge, ReceiptSent, AcknowledgeFails, CancelEnds,
                Admitted
  <2>2. hook.step \in Admitted => hook.m \in Messages
    BY DEF IInv, HookOK
  <2> QED  BY <2>1, <2>2, ProcessLaunchesNothing, TracksLaunchNothing DEF NotLaunched
<1>4. CASE Conversation
  BY <1>4, TurnsLaunchNothing DEF Conversation
<1>5. CASE Process
  <2>1. \/ UNCHANGED <<job, prog>> \/ CloseProgress \/ CloseJobs \/ Down
        \/ \E m \in Messages : (Track(m) \/ UNCHANGED job) /\ UNCHANGED prog
    BY <1>5 DEF Process, progress, Listen, OpenSessions, CatchUp, Discover, CatchFails, CatchLook, CatchEntry
  <2> QED  BY <2>1, ProcessLaunchesNothing, TracksLaunchNothing DEF NotLaunched
<1>6. CASE \E m \in 0 .. NumMessages : Deliver(m)
  BY <1>6 DEF Deliver, progress, NotLaunched
<1>7. CASE \E j \in Jobs : Job(j) \/ Gated(j) \/ Progress(j)
  BY <1>7, JobsGoOn, LaunchesKeepToIt, ProgressLaunchesNothing DEF Job, Gated
<1> QED  BY <1>1, <1>2, <1>3, <1>4, <1>5, <1>6, <1>7 DEF Next

LEMMA NextStep == ASSUME IInv, NotLaunched, [Next]_vars PROVE IInv'
<1>1. CASE UNCHANGED vars
  BY <1>1, Kept DEF IInv, vars, service, files, memory, progress, session
<1>2. CASE Environment
  BY <1>2, CallerSendsStep, CallerCancelsStep, CrashStep, CloseStep, RedeliverStep, ArrivesLateStep,
     CallToolStep
     DEF Environment
<1>3. CASE Webhook
  BY <1>3, AdmitStep, AdmitFailsStep, AcknowledgeStep, ReceiptSentStep, AcknowledgeFailsStep,
     CancelTaskStep, CancelAgainStep, CancelEndsStep
     DEF Webhook
<1>4. CASE Conversation
  BY <1>4, StartTurnStep, FailTurnStep, EndTurnStep, ToolSentStep, ToolFailsStep DEF Conversation
<1>5. CASE Process
  BY <1>5, ListenStep, CatchUpStep, CatchLookStep, CatchEntryStep, DiscoverStep, CatchFailsStep,
     CloseProgressStep, CloseJobsStep, DownStep
     DEF Process
<1>6. CASE \E m \in 0 .. NumMessages : Deliver(m)
  BY <1>6, DeliverStep
<1>7. ASSUME NEW j \in Jobs, Job(j) \/ Gated(j)
      PROVE  IInv'
  BY <1>7, BeginJobStep, ClearFenceStep, JobAcknowledgesStep, JobReceiptSentStep, JobReceiptFailsStep,
     TakeGateStep, CheckTaskStep, CheckFailsStep, AnswerSentStep, AnswerFailsStep, JobCanceledStep,
     StopsOwnProgressStep, EndJobStep
     DEF Job, Gated
<1> QED  BY <1>1, <1>2, <1>3, <1>4, <1>5, <1>6, <1>7, ProgressStep DEF Next
-----------------------------------------------------------------------------
(* No entry of the registry is forgotten                                   *)

Entered == RegStates \ {"none"}
EntriesStay == \A n \in Messages : Known(n) => reg'[n].state # "none"

LEMMA WriteEnters ==
  ASSUME IInv, NEW m \in Messages, NEW s \in Entered, NEW keep,
         Write(m, s, keep) \/ Receipted(m) \/ UNCHANGED reg
  PROVE  EntriesStay /\ (Write(m, s, keep) => reg'[m].state = s)
<1>1. /\ DOMAIN reg = Messages
      /\ Written(reg[m], s, keep).state = s
  BY DEF IInv, RegOK, Written
<1>2. Write(m, s, keep) => /\ reg'[m].state = s
                          /\ \A n \in Messages \ {m} : reg'[n] = reg[n]
  BY <1>1 DEF Write
<1>3. reg[m] = [state |-> reg[m].state, receipt |-> reg[m].receipt, progress |-> reg[m].progress]
  BY DEF IInv, RegOK
<1>4. Receipted(m) => /\ reg'[m].state = IF reg[m].state = "none" THEN "queued" ELSE reg[m].state
                      /\ \A n \in Messages \ {m} : reg'[n] = reg[n]
  BY <1>1, <1>3 DEF Receipted
<1> QED  BY <1>2, <1>4 DEF EntriesStay, Known, Entered

LEMMA EnteredStates == {"queued", "running", "finalized"} = Entered
BY DEF Entered, RegStates

LEMMA JobEnters ==
  ASSUME IInv, NEW j \in Jobs, Job(j) \/ Gated(j)
  PROVE  EntriesStay
<1>1. j[1] \in Messages
  BY DEF Jobs
<1>2. CASE \E s \in {"running", "finalized"} : Write(j[1], s, FALSE) \/ Receipted(j[1]) \/ UNCHANGED reg
  BY <1>1, <1>2, WriteEnters, EnteredStates
<1>3. CASE StartProgress(j)
  <2>1. PICK text : reg' = [reg EXCEPT ![j[1]].state = "running", ![j[1]].progress = text]
    BY <1>3 DEF StartProgress
  <2> QED  BY <1>1, <2>1 DEF EntriesStay, Known, IInv, RegOK
<1> QED
  BY <1>2, <1>3 DEF Job, Gated, BeginJob, GoOn, JobAcknowledges, JobReceiptSent, JobReceiptFails,
     CheckTask, CheckFails, AnswerSent, AnswerFails, JobCanceled, StopsOwnProgress, EndJob,
     ClearFence, TakeGate, files

LEMMA EventEnters ==
  ASSUME IInv, Webhook
  PROVE  EntriesStay
<1>1. \/ UNCHANGED reg
      \/ hook.step = "fetch" /\ hook.m # 0 /\ Write(hook.m, "queued", FALSE)
      \/ hook.step \in Admitted /\ (Write(hook.m, "finalized", FALSE) \/ Receipted(hook.m))
  BY DEF Webhook, Admitted, Admit, AdmitFails, Acknowledge, ReceiptSent, AcknowledgeFails, CancelTask,
         CancelAgain, CancelEnds, files
<1>2. hook.m # 0 => hook.m \in Messages
  BY A2AAssumption DEF IInv, HookOK, Messages
<1>3. hook.step \in Admitted => hook.m \in Messages
  BY DEF IInv, HookOK
<1> QED  BY <1>1, <1>2, <1>3, WriteEnters, EnteredStates DEF EntriesStay, Known

LEMMA TextEnters ==
  ASSUME IInv, LastTexts \/ \E i \in Jobs : Progress(i)
  PROVE  EntriesStay
<1>1. CASE \E i \in Jobs : Progress(i)
  BY <1>1, TextsKeep DEF EntriesStay, Known
<1>2. CASE LastTexts
  <2>1. CASE UNCHANGED reg
    BY <2>1 DEF EntriesStay, Known
  <2>2. ASSUME NEW i \in Jobs, Unheard(i[1]) PROVE EntriesStay
    BY <2>2 DEF Jobs, Unheard, EntriesStay, Known, IInv, RegOK
  <2> QED  BY <1>2, <2>1, <2>2 DEF LastTexts
<1> QED  BY <1>1, <1>2

\* What the catch-up goes by has an entry.
CatchStays ==
  /\ \A m \in Messages : catch'.seen[m] # "none" => catch.seen[m] # "none" \/ Known(m)
  /\ catch'.step = "read" => catch'.next \in Messages /\ catch'.seen[catch'.next] # "none"

LEMMA ProcessEnters ==
  ASSUME IInv, Registered, Process
  PROVE  EntriesStay /\ CatchStays
<1>1. CASE \E m \in Messages : CatchEntry(m)
  <2>1. PICK m \in Messages : CatchEntry(m)
    BY <1>1
  <2>2. catch.next = m /\ catch.step = "read" /\ CatchNext
    BY <2>1 DEF CatchEntry, Catching
  <2>3. catch.seen[m] \in Entered
    BY <2>2 DEF Registered, Entered, IInv, CatchOK
  <2>4. Write(m, "finalized", FALSE) \/ Write(m, catch.seen[m], FALSE) \/ UNCHANGED reg
    BY <2>1 DEF CatchEntry
  <2>5. EntriesStay
    BY <2>3, <2>4, WriteEnters, EnteredStates
  <2>6. CatchStays
    BY <2>2 DEF CatchStays, CatchNext, IInv, CatchOK
  <2> QED  BY <2>5, <2>6
<1>2. CASE \E m \in Messages : CatchLook(m)
  <2>1. PICK m \in Messages : CatchLook(m)
    BY <1>2
  <2>2. CASE CatchNext
    BY <2>1, <2>2 DEF CatchLook, files, CatchStays, CatchNext, EntriesStay, Known, IInv, CatchOK
  <2>3. CASE catch' = [catch EXCEPT !.step = "read"] /\ catch.seen[m] # "none" /\ catch.next = m
    <3>1. catch'.seen = catch.seen /\ catch'.next = m
      BY <2>3 DEF IInv, CatchOK
    <3> QED  BY <2>1, <2>3, <3>1 DEF CatchLook, files, CatchStays, EntriesStay, Known
  <2> QED  BY <2>1, <2>2, <2>3 DEF CatchLook, Catching
<1>3. CASE CatchUp
  <2>1. reg' = reg /\ catch'.step = "look" /\ \A m \in Messages : catch'.seen[m] = Unfinished(reg[m].state)
    BY <1>3 DEF CatchUp, NoCatch, files
  <2> QED  BY <2>1 DEF EntriesStay, CatchStays, Known, Unfinished
<1>4. CASE Discover \/ CatchFails
  BY <1>4 DEF Discover, CatchFails, NoCatch, files, EntriesStay, CatchStays, Known
<1>5. CASE Listen \/ OpenSessions \/ CloseProgress \/ CloseJobs
  BY <1>5 DEF Listen, OpenSessions, CloseProgress, CloseJobs, files, EntriesStay, CatchStays, Known,
             Registered
<1>6. CASE Down
  BY <1>6, TextEnters DEF Down, Gone, NoCatch, CatchStays
<1> QED  BY <1>1, <1>2, <1>3, <1>4, <1>5, <1>6 DEF Process

LEMMA Entries ==
  ASSUME IInv, Registered, [Next]_vars
  PROVE  EntriesStay /\ CatchStays
<1>1. catch' = catch => CatchStays
  BY DEF CatchStays, Registered
<1>2. UNCHANGED reg => EntriesStay
  BY DEF EntriesStay, Known
<1>3. CASE UNCHANGED vars
  BY <1>1, <1>2, <1>3 DEF vars, files, memory
<1>4. CASE Environment
  <2>1. CASE Crash
    BY <2>1, TextEnters DEF Crash, Gone, NoCatch, CatchStays
  <2>2. CASE ~Crash
    BY <1>1, <1>2, <1>4, <2>2
       DEF Environment, CallerSends, CallerCancels, Close, Redeliver, ArrivesLate, CallTool, files, memory
  <2> QED  BY <2>1, <2>2
<1>5. CASE Webhook
  BY <1>1, <1>5, EventEnters
     DEF Webhook, Admit, AdmitFails, Acknowledge, ReceiptSent, AcknowledgeFails, CancelTask, CancelAgain,
         CancelEnds, memory
<1>6. CASE Conversation
  <2>1. catch' = catch
    BY <1>6 DEF Conversation, StartTurn, FailTurn, EndTurn, ToolSent, ToolFails, memory
  <2>2. turn.step # "none" => turn.j[1] \in Messages
    BY DEF IInv, SessionOK, Jobs
  <2>3. UNCHANGED reg \/ (turn.step # "none" /\ Write(turn.j[1], "finalized", turn.sent = "input"))
    BY <1>6 DEF Conversation, StartTurn, FailTurn, EndTurn, ToolSent, ToolFails, files
  <2> QED  BY <1>1, <1>2, <2>1, <2>2, <2>3, WriteEnters, EnteredStates
<1>7. CASE Process
  BY <1>7, ProcessEnters
<1>8. CASE \E m \in 0 .. NumMessages : Deliver(m)
  BY <1>1, <1>2, <1>8 DEF Deliver, files
<1>9. ASSUME NEW j \in Jobs, Job(j) \/ Gated(j) \/ Progress(j)
      PROVE  EntriesStay /\ CatchStays
  <2>1. catch' = catch
    BY <1>9 DEF Job, Gated, BeginJob, GoOn, JobAcknowledges, JobReceiptSent, JobReceiptFails,
       CheckTask, CheckFails, AnswerSent, AnswerFails, JobCanceled, StopsOwnProgress, EndJob,
       ClearFence, TakeGate, Progress, Wake, EnterGate, ReadTask, Summarized, ReadAgain, ReadFails,
       ProgressSent, ProgressFails, Killed, memory
  <2> QED  BY <1>1, <1>9, <2>1, JobEnters, TextEnters
<1> QED  BY <1>3, <1>4, <1>5, <1>6, <1>7, <1>8, <1>9 DEF Next
-----------------------------------------------------------------------------
(* What a step does for the messages                                       *)

\* Nothing is begun: no job, no request for a turn, no turn, no event that will start a job;
\* a job sends an answer itself only after the turn of its message.
Calm ==
  /\ \A j \in Jobs : /\ job[j] = "none" => job'[j] = "none"
                     /\ job'[j] \in Before => job[j] \in Before
                     /\ job'[j] = "gate" => job[j] = "gate" \/ InTurn(j[1])
  /\ fence' \in {fence, 0}
  /\ queue' = queue
  /\ \A m \in Messages : InTurn(m)' => InTurn(m)
  /\ Starts(hook'.step) => hook'.m = hook.m /\ Starts(hook.step)

\* The first event of a message writes its entry.
Enters ==
  /\ hook.m \in Messages /\ hook'.m = hook.m
  /\ ~Known(hook.m) /\ fence # hook.m /\ task.latest = hook.m /\ reg'[hook.m].state # "none"
  /\ UNCHANGED <<fence, job, queue, turn>>

\* The event starts the job of its message, or the catch-up does.
Tracked(n) ==
  /\ Track(n) /\ UNCHANGED <<fence, queue, turn>>
  /\ \/ hook.m = n /\ Starts(hook.step) /\ hook' = NoHook
     \/ /\ fence # n /\ task.latest = n /\ hook' = hook
        /\ catch.next = n /\ catch.step = "read" /\ catch'.next = n + 1

Asks(j) == job[j] \in Before /\ Ask(j) /\ UNCHANGED <<fence, turn, hook>>

Kind ==
  \/ Calm \/ Enters \/ StartTurn \/ (\E o \in Outcomes : CallTool(o)) \/ Gone
  \/ (\E n \in Messages : Tracked(n)) \/ (\E j \in Jobs : Asks(j) \/ TakeGate(j))

LEMMA StillCalm ==
  ASSUME IInv, UNCHANGED <<job, fence, queue, turn>>,
         Starts(hook'.step) => hook'.m = hook.m /\ Starts(hook.step)
  PROVE  Calm
BY DEF Calm, InTurn

\* One job goes on.
LEMMA CalmJob ==
  ASSUME IInv, NEW j \in Jobs, NEW s, job[j] # "none", job' = [job EXCEPT ![j] = s],
         s \in Before => job[j] \in Before, s # "gate", fence' \in {fence, 0},
         UNCHANGED <<queue, turn, hook>>
  PROVE  Calm
BY DEF Calm, InTurn, IInv, JobOK

LEMMA CalmCancel ==
  ASSUME IInv, CancelJobs, UNCHANGED <<fence, queue, turn>>,
         Starts(hook'.step) => hook'.m = hook.m /\ Starts(hook.step)
  PROVE  Calm
<1>1. \A j \in Jobs : /\ job'[j] \notin Before \cup {"gate"}
                      /\ job[j] = "none" => job'[j] = "none"
  BY DEF CancelJobs, AfterCancel, Before, IInv, JobOK, Steps
<1> QED  BY <1>1 DEF Calm, InTurn

LEMMA EnvironmentKinds == ASSUME IInv, Environment PROVE Kind
<1>1. CASE Crash
  BY <1>1 DEF Crash, Kind
<1>2. CASE \E o \in Outcomes : CallTool(o)
  BY <1>2 DEF Kind
<1>3. CASE ~Crash /\ ~\E o \in Outcomes : CallTool(o)
  <2>1. UNCHANGED <<job, fence, queue, turn, hook>>
    BY <1>3 DEF Environment, CallerSends, CallerCancels, Close, Redeliver, ArrivesLate, files, memory, session
  <2> QED  BY <2>1, StillCalm DEF Kind
<1> QED  BY <1>1, <1>2, <1>3

LEMMA WebhookKinds == ASSUME IInv, Webhook PROVE Kind
<1>1. CASE Admit
  <2>1. UNCHANGED <<job, fence, queue, turn>> /\ hook.m \in Messages
    BY <1>1, A2AAssumption DEF Admit, session, IInv, HookOK, Messages
  <2>2. CASE /\ fence # hook.m /\ task.latest = hook.m /\ reg[hook.m].state = "none"
             /\ hook' = [hook EXCEPT !.step = "ackNew"] /\ Write(hook.m, "queued", FALSE)
    <3>1. reg'[hook.m].state # "none"
      BY <2>1, <2>2, WriteEnters, EnteredStates
    <3>2. hook'.m = hook.m
      BY <2>2 DEF IInv, HookOK
    <3> QED  BY <2>1, <2>2, <3>1, <3>2 DEF Enters, Known, Kind
  <2>3. CASE hook' = NoHook \/ hook' = [hook EXCEPT !.step = "ackOld"]
    <3>1. ~Starts(hook'.step)
      BY <2>3 DEF Starts, NoHook, IInv, HookOK
    <3> QED  BY <2>1, <3>1, StillCalm DEF Kind
  <2> QED  BY <1>1, <2>2, <2>3 DEF Admit, Answer, Stale
<1>2. CASE AdmitFails \/ CancelEnds
  <2>1. UNCHANGED <<job, fence, queue, turn>> /\ ~Starts(hook'.step)
    BY <1>2 DEF AdmitFails, CancelEnds, Answer, files, session, Starts, NoHook
  <2> QED  BY <2>1, StillCalm DEF Kind
<1>3. CASE Acknowledge \/ ReceiptSent \/ \E arrives \in BOOLEAN : AcknowledgeFails(arrives)
  <2>1. UNCHANGED <<fence, queue, turn>> /\ hook.step \in Admitted
    BY <1>3 DEF Acknowledge, ReceiptSent, AcknowledgeFails, files, session, Admitted
  <2>2. hook.m \in Messages
    BY <2>1 DEF IInv, HookOK
  <2>3. CASE Track(hook.m) /\ Starts(hook.step) /\ hook' = NoHook
    BY <2>1, <2>2, <2>3 DEF Tracked, Kind
  <2>4. CASE UNCHANGED job /\ hook' = NoHook
    <3>1. ~Starts(hook'.step)
      BY <2>4 DEF Starts, NoHook
    <3> QED  BY <2>1, <2>4, <3>1, StillCalm DEF Kind
  <2>5. CASE UNCHANGED job /\ hook' = [hook EXCEPT !.step = IF Starts(hook.step) THEN "postNew" ELSE "postOld"]
    <3>1. hook'.m = hook.m /\ (Starts(hook'.step) => Starts(hook.step))
      BY <2>5 DEF Starts, IInv, HookOK
    <3> QED  BY <2>1, <2>5, <3>1, StillCalm DEF Kind
  <2> QED  BY <1>3, <2>3, <2>4, <2>5 DEF Acknowledge, ReceiptSent, AcknowledgeFails, Answer
<1>4. CASE CancelTask \/ CancelAgain
  <2>1. CancelJobs /\ UNCHANGED <<fence, queue, turn>>
    BY <1>4 DEF CancelTask, CancelAgain, files, session
  <2>2. Starts(hook'.step) => hook'.m = hook.m /\ Starts(hook.step)
    BY <1>4 DEF CancelTask, CancelAgain, memory, Starts, IInv, HookOK
  <2> QED  BY <2>1, <2>2, CalmCancel DEF Kind
<1> QED  BY <1>1, <1>2, <1>3, <1>4 DEF Webhook

LEMMA ConversationKinds == ASSUME IInv, Conversation PROVE Kind
<1>1. CASE StartTurn
  BY <1>1 DEF Kind
<1>2. CASE FailTurn \/ (\E answer \in BOOLEAN : EndTurn(answer)) \/ ToolSent
           \/ \E later \in BOOLEAN : ToolFails(later)
  <2>1. UNCHANGED <<fence, queue, hook>> /\ turn.step # "none"
    BY <1>2 DEF FailTurn, EndTurn, ToolSent, ToolFails, files, memory, Outcomes
  <2>2. turn' = NoTurn \/ turn' = [turn EXCEPT !.step = "called"]
        \/ turn' = [turn EXCEPT !.step = "called", !.sent = turn.step]
    BY <1>2 DEF FailTurn, EndTurn, ToolSent, ToolFails
  <2>3. turn.j \in Jobs /\ turn.j[1] \in Messages /\ InTurn(turn.j[1])
    BY <2>1 DEF IInv, SessionOK, InTurn, Jobs
  <2>4. \A m \in Messages : InTurn(m)' => InTurn(m)
    <3>1. turn = [j |-> turn.j, step |-> turn.step, sent |-> turn.sent]
      BY DEF IInv, SessionOK
    <3>2. turn'.step = "none" \/ turn'.j = turn.j
      <4>1. CASE turn' = NoTurn
        BY <4>1 DEF NoTurn
      <4>2. CASE turn' = [turn EXCEPT !.step = "called"]
        BY <3>1, <4>2
      <4>3. CASE turn' = [turn EXCEPT !.step = "called", !.sent = turn.step]
        BY <3>1, <4>3
      <4> QED  BY <2>2, <4>1, <4>2, <4>3
    <3> QED  BY <2>1, <3>2 DEF InTurn
  <2>5. \/ job' = job
        \/ \E s \in {"gate", "stop"} : job[turn.j] = "turn" /\ job' = [job EXCEPT ![turn.j] = s]
    BY <1>2 DEF FailTurn, EndTurn, ToolSent, ToolFails, Leave
  <2>6. \A j \in Jobs : /\ job[j] = "none" => job'[j] = "none"
                        /\ job'[j] \in Before => job[j] \in Before
                        /\ job'[j] = "gate" => job[j] = "gate" \/ InTurn(j[1])
    BY <2>3, <2>5 DEF IInv, JobOK, Before
  <2> QED  BY <2>1, <2>4, <2>6 DEF Calm, Kind
<1> QED  BY <1>1, <1>2 DEF Conversation

LEMMA ProcessKinds == ASSUME IInv, Process PROVE Kind
<1>1. CASE Down
  BY <1>1 DEF Down, Kind
<1>2. CASE CloseJobs
  BY <1>2, CalmCancel DEF CloseJobs, files, session, Kind
<1>3. CASE \E m \in Messages : CatchEntry(m)
  <2>1. PICK m \in Messages : CatchEntry(m)
    BY <1>3
  <2>2. UNCHANGED <<fence, queue, turn, hook>> /\ catch.next = m /\ catch.step = "read" /\ catch'.next = m + 1
    BY <2>1 DEF CatchEntry, Catching, CatchNext, session
  <2>3. UNCHANGED job \/ (fence # m /\ task.latest = m /\ Track(m))
    BY <2>1 DEF CatchEntry
  <2> QED  BY <2>2, <2>3, StillCalm DEF Tracked, Kind
<1>4. CASE Listen \/ OpenSessions \/ CatchUp \/ Discover \/ CatchFails \/ CloseProgress
           \/ \E m \in Messages : CatchLook(m)
  <2>1. UNCHANGED <<job, fence, queue, turn>> /\ (hook' = hook \/ hook'.step = "fetch")
    BY <1>4 DEF Listen, OpenSessions, CatchUp, Discover, CatchFails, CloseProgress, CatchLook, files, session
  <2> QED  BY <2>1, StillCalm DEF Kind, Starts
<1> QED  BY <1>1, <1>2, <1>3, <1>4 DEF Process

LEMMA JobKinds == ASSUME IInv, NEW j \in Jobs, Job(j) \/ Gated(j) PROVE Kind
<1>1. CASE TakeGate(j)
  BY <1>1 DEF Kind
<1>2. CASE Ask(j) /\ (JobAcknowledges(j) \/ JobReceiptSent(j) \/ \E arrives \in BOOLEAN : JobReceiptFails(j, arrives))
  <2>1. UNCHANGED <<fence, turn, hook>>
    BY <1>2 DEF JobAcknowledges, JobReceiptSent, JobReceiptFails, files, memory
  <2>2. job[j] \in {"ack", "ackPost", "lastAck"}
    BY <1>2 DEF JobAcknowledges, JobReceiptSent, JobReceiptFails
  <2>3. job[j] # "lastAck"
    <3>1. job'[j] = "turn"
      BY <1>2 DEF Ask, IInv, JobOK
    <3> QED  BY <1>2, <3>1 DEF JobAcknowledges, JobReceiptSent, JobReceiptFails, IInv, JobOK
  <2> QED  BY <1>2, <2>1, <2>2, <2>3 DEF Asks, Before, Kind
<1>3. CASE job[j] # "none" /\ fence' \in {fence, 0} /\ UNCHANGED <<queue, turn, hook>>
           /\ \E s \in Steps \ {"gate"} : job' = [job EXCEPT ![j] = s] /\ (s \in Before => job[j] \in Before)
  BY <1>3, CalmJob DEF Kind
<1>4. CASE BeginJob(j) \/ GoOn(j) \/ ClearFence(j)
  <2>1. job[j] \in {"new", "stopPrev", "clear"} /\ fence' \in {fence, 0} /\ UNCHANGED <<queue, turn, hook>>
        /\ \E s \in {"stopPrev", "ack", "clear"} : job' = [job EXCEPT ![j] = s]
    BY <1>4 DEF BeginJob, GoOn, ClearFence, StartProgress, memory, session
  <2> QED  BY <1>3, <2>1 DEF Before, Steps
<1>5. CASE ~Ask(j) /\ (JobAcknowledges(j) \/ JobReceiptSent(j) \/ \E arrives \in BOOLEAN : JobReceiptFails(j, arrives))
  <2>1. UNCHANGED <<fence, queue, turn, hook>>
    BY <1>5 DEF JobAcknowledges, JobReceiptSent, JobReceiptFails, files, memory
  <2>2. job[j] \in {"ack", "ackPost", "lastAck"}
    BY <1>5 DEF JobAcknowledges, JobReceiptSent, JobReceiptFails
  <2>3. \/ job' = [job EXCEPT ![j] = "stop"] \/ job' = [job EXCEPT ![j] = "canceled"]
        \/ job' = [job EXCEPT ![j] = "ackPost"] /\ job[j] = "ack"
    BY <1>5 DEF JobAcknowledges, JobReceiptSent, JobReceiptFails, Leave
  <2> QED  BY <1>3, <2>1, <2>2, <2>3 DEF Before, Steps
<1>6. CASE \/ CheckTask(j) \/ CheckFails(j) \/ AnswerSent(j)
           \/ \E later \in BOOLEAN : AnswerFails(j, later)
           \/ JobCanceled(j) \/ StopsOwnProgress(j) \/ EndJob(j)
  <2>1. UNCHANGED <<fence, queue, turn, hook>> /\ job[j] # "none"
    BY <1>6 DEF CheckTask, CheckFails, AnswerSent, AnswerFails, JobCanceled, StopsOwnProgress, EndJob, files,
                memory, session
  <2>2. \E s \in {"stop", "post", "canceled", "stopping", "none"} : job' = [job EXCEPT ![j] = s]
    BY <1>6 DEF CheckTask, CheckFails, AnswerSent, AnswerFails, JobCanceled, StopsOwnProgress, EndJob, Leave
  <2> QED  BY <1>3, <2>1, <2>2 DEF Before, Steps
<1> QED  BY <1>1, <1>2, <1>4, <1>5, <1>6 DEF Job, Gated

LEMMA Kinds == ASSUME IInv, [Next]_vars PROVE Kind
<1>1. CASE UNCHANGED vars
  BY <1>1, StillCalm DEF vars, files, memory, session, Kind
<1>2. CASE \E m \in 0 .. NumMessages : Deliver(m)
  <2>1. UNCHANGED <<job, fence, queue, turn>> /\ ~Starts(hook'.step)
    BY <1>2 DEF Deliver, files, session, Starts
  <2> QED  BY <2>1, StillCalm DEF Kind
<1>3. CASE \E i \in Jobs : Progress(i)
  <2>1. UNCHANGED <<job, fence, queue, turn, hook>>
    BY <1>3 DEF Progress, Wake, EnterGate, ReadTask, Summarized, ReadAgain, ReadFails, ProgressSent,
                ProgressFails, Killed, files, memory, session
  <2> QED  BY <2>1, StillCalm DEF Kind
<1> QED
  BY <1>1, <1>2, <1>3, EnvironmentKinds, WebhookKinds, ConversationKinds, ProcessKinds, JobKinds DEF Next
-----------------------------------------------------------------------------
(* One job for a message, and none for a fenced one                        *)

LEMMA QueueGrows ==
  ASSUME IInv, NEW j \in Jobs, Ask(j)
  PROVE  /\ DOMAIN queue' = 1 .. Len(queue) + 1 /\ DOMAIN queue = 1 .. Len(queue)
         /\ Len(queue) \in Nat /\ queue'[Len(queue) + 1] = j
         /\ \A i \in 1 .. Len(queue) : queue'[i] = queue[i]
         /\ \A m : Queued(m)' <=> Queued(m) \/ m = j[1]
<1>1. /\ DOMAIN queue' = 1 .. Len(queue) + 1 /\ DOMAIN queue = 1 .. Len(queue)
      /\ Len(queue) \in Nat /\ queue'[Len(queue) + 1] = j
      /\ \A i \in 1 .. Len(queue) : queue'[i] = queue[i]
  BY DEF Ask, IInv, SessionOK
<1> QED  BY <1>1 DEF Queued

LEMMA QueueShrinks ==
  ASSUME IInv, StartTurn
  PROVE  /\ turn = NoTurn /\ turn'.j = Head(queue) /\ turn'.step = "run"
         /\ DOMAIN queue = 1 .. Len(queue) /\ Len(queue) \in Nat /\ Len(queue) >= 1
         /\ DOMAIN queue' = 1 .. Len(queue) - 1 /\ Head(queue) = queue[1] /\ queue[1] \in Jobs
         /\ \A i \in DOMAIN queue' : i + 1 \in DOMAIN queue /\ i + 1 # 1 /\ queue'[i] = queue[i + 1]
         /\ 1 \in DOMAIN queue
         /\ \A m : Queued(m)' => Queued(m)
         /\ \A m : InTurn(m)' <=> m = Head(queue)[1]
<1>1. turn = NoTurn /\ turn'.j = Head(queue) /\ turn'.step = "run" /\ queue \in Seq(Jobs) /\ queue # <<>>
  BY DEF StartTurn, NoTurn, IInv, SessionOK
<1>2. /\ DOMAIN queue = 1 .. Len(queue) /\ Len(queue) \in Nat /\ Len(queue) >= 1
      /\ DOMAIN queue' = 1 .. Len(queue) - 1 /\ Head(queue) = queue[1] /\ queue[1] \in Jobs
      /\ \A i \in DOMAIN queue' : queue'[i] = queue[i + 1]
  BY <1>1 DEF StartTurn
<1>3. /\ \A i \in DOMAIN queue' : i + 1 \in DOMAIN queue /\ i + 1 # 1 /\ queue'[i] = queue[i + 1]
      /\ 1 \in DOMAIN queue
  BY <1>2
<1>4. \A m : Queued(m)' => Queued(m)
  BY <1>3 DEF Queued
<1>5. \A m : InTurn(m)' <=> m = Head(queue)[1]
  BY <1>1 DEF InTurn
<1> QED  BY <1>1, <1>2, <1>3, <1>4, <1>5

\* An idle message stays idle unless its job is started.
LEMMA IdleStays ==
  ASSUME IInv, [Next]_vars, NEW m \in Messages, Idle(m)
  PROVE  Idle(m)' \/ Tracked(m)
<1>1. CASE Calm
  BY <1>1 DEF Calm, Idle, Queued, Jobs
<1>2. CASE Enters
  BY <1>2 DEF Enters, Idle, Queued, InTurn
<1>3. CASE StartTurn
  <2>1. UNCHANGED job /\ Queued(Head(queue)[1])
    BY <1>3, QueueShrinks DEF StartTurn, Queued
  <2> QED  BY <1>3, <2>1, QueueShrinks DEF Idle
<1>4. CASE \E o \in Outcomes : CallTool(o)
  <2>1. UNCHANGED <<job, queue>> /\ turn.step = "run" /\ turn'.j = turn.j
    BY <1>4 DEF CallTool, IInv, SessionOK
  <2> QED  BY <2>1 DEF Idle, Queued, InTurn
<1>5. CASE Gone
  BY <1>5 DEF Gone, Idle, Queued, InTurn, NoTurn, Jobs
<1>6. ASSUME NEW n \in Messages, Tracked(n), n # m
      PROVE  Idle(m)'
  <2>1. PICK s \in Slots : job' = [job EXCEPT ![<<n, s>>] = "new"]
    BY <1>6, TrackStarts DEF Tracked, IInv
  <2>2. \A t \in Slots : job'[<<m, t>>] = job[<<m, t>>]
    BY <1>6, <2>1 DEF IInv, JobOK, Jobs
  <2>3. UNCHANGED <<queue, turn>>
    BY <1>6 DEF Tracked
  <2> QED  BY <2>2, <2>3 DEF Idle, Queued, InTurn
<1>7. ASSUME NEW j \in Jobs, Asks(j)
      PROVE  Idle(m)'
  <2>1. j[1] # m
    BY <1>7 DEF Asks, Before, Idle, Jobs
  <2>2. \A t \in Slots : job'[<<m, t>>] = job[<<m, t>>]
    BY <1>7, <2>1 DEF Asks, Ask, IInv, JobOK, Jobs
  <2>3. Queued(m)' <=> Queued(m)
    BY <1>7, <2>1, QueueGrows DEF Asks
  <2> QED  BY <1>7, <2>2, <2>3 DEF Asks, Idle, InTurn
<1>8. ASSUME NEW j \in Jobs, TakeGate(j)
      PROVE  Idle(m)'
  <2>1. j[1] # m
    BY <1>8 DEF TakeGate, Idle, Jobs
  <2>2. \A t \in Slots : job'[<<m, t>>] = job[<<m, t>>]
    BY <1>8, <2>1 DEF TakeGate, IInv, JobOK, Jobs
  <2> QED  BY <1>8, <2>2 DEF TakeGate, session, Idle, Queued, InTurn
<1> QED  BY <1>1, <1>2, <1>3, <1>4, <1>5, <1>6, <1>7, <1>8, Kinds DEF Kind

LEMMA TrackedIsKnown ==
  ASSUME IInv, Registered, NEW n \in Messages, Tracked(n)
  PROVE  Known(n)
BY DEF Tracked, Registered

LEMMA RegisteredStays == ASSUME IInv, Registered, [Next]_vars PROVE Registered'
<1>1. EntriesStay /\ CatchStays
  BY Entries
<1>2. \A m \in Messages : Known(m) => Known(m)'
  BY <1>1 DEF EntriesStay, Known
<1>3. \A m \in Messages : ~Idle(m)' => Known(m)'
  BY <1>2, IdleStays, TrackedIsKnown DEF Registered
<1>4. \A m \in Messages : catch'.seen[m] # "none" => Known(m)'
  BY <1>1, <1>2 DEF Registered, CatchStays
<1>5. Starts(hook'.step) => reg'[hook'.m].state # "none"
  <2>1. Starts(hook'.step) => Enters \/ (hook'.m = hook.m /\ Starts(hook.step))
    BY Kinds DEF Kind, Calm, Gone, Tracked, Asks, StartTurn, CallTool, TakeGate, memory, NoHook, Starts
  <2>2. Starts(hook.step) => hook.m \in Messages
    BY DEF Starts, IInv, HookOK, Admitted
  <2> QED  BY <1>2, <2>1, <2>2 DEF Registered, Enters, Known
<1> QED  BY <1>1, <1>3, <1>4, <1>5 DEF Registered, CatchStays, Known, Starts

\* Nothing is begun for the message.
LEMMA CalmAlone ==
  ASSUME IInv, NEW m \in Messages, Alone(m), Calm
  PROVE  Alone(m)'
<1>1. (Queued(m)' <=> Queued(m)) /\ (fence' = m => fence = m)
  BY DEF Calm, Queued, Messages
<1>2. OneJob(m)'
  BY DEF Alone, OneJob, Calm
<1>3. Fresh(m)'
  BY <1>1 DEF Alone, Fresh, Calm
<1>4. Waiting(m)'
  BY <1>1 DEF Alone, Waiting, Calm
<1>5. Answering(m)'
  BY <1>1 DEF Alone, Answering, Waiting, Queued, Calm
<1>6. Idle(m) => Idle(m)'
  BY <1>1 DEF Idle, Calm, Jobs
<1>7. FirstOfItsMessage(m)'
  BY <1>1, <1>6 DEF Alone, FirstOfItsMessage, Calm, Starts
<1> QED  BY <1>2, <1>3, <1>4, <1>5, <1>7 DEF Alone

LEMMA EntersAlone ==
  ASSUME IInv, Registered, NEW m \in Messages, Alone(m), Enters
  PROVE  Alone(m)'
<1>1. (Queued(m)' <=> Queued(m)) /\ (InTurn(m)' <=> InTurn(m)) /\ (Idle(m)' <=> Idle(m))
  BY DEF Enters, Queued, InTurn, Idle
<1>2. OneJob(m)' /\ Fresh(m)' /\ Waiting(m)' /\ Answering(m)'
  BY <1>1 DEF Alone, OneJob, Fresh, Waiting, Answering, Enters
<1>3. FirstOfItsMessage(m)'
  BY <1>1 DEF Alone, FirstOfItsMessage, Registered, Enters
<1> QED  BY <1>2, <1>3 DEF Alone

\* A job is started for a message that nothing else is done for, or for another one.
LEMMA TrackAlone ==
  ASSUME IInv, NEW m \in Messages, Alone(m), NEW n \in Messages, Track(n),
         UNCHANGED <<fence, queue, turn>>,
         n = m => Idle(m) /\ fence # m,
         Starts(hook'.step) /\ hook'.m = m => Starts(hook.step) /\ hook.m = m /\ n # m
  PROVE  Alone(m)'
<1>1. PICK s \in Slots : job[<<n, s>>] = "none" /\ job' = [job EXCEPT ![<<n, s>>] = "new"]
  BY TrackStarts DEF IInv
<1>2. /\ <<n, s>> \in Jobs
      /\ \A i \in Jobs : i # <<n, s>> => job'[i] = job[i]
      /\ job'[<<n, s>>] = "new"
  BY <1>1 DEF IInv, JobOK, Jobs
<1>3. (Queued(m)' <=> Queued(m)) /\ (InTurn(m)' <=> InTurn(m))
  BY DEF Queued, InTurn
<1>4. n = m => \A i \in Jobs : i[1] = m => job[i] = "none"
  BY DEF Idle, Jobs
<1>5. \A i \in Jobs : i[1] = m /\ n # m => job'[i] = job[i]
  BY <1>2
<1>6. OneJob(m)'
  BY <1>2, <1>4, <1>5 DEF Alone, OneJob
<1>7. Fresh(m)'
  BY <1>3, <1>4, <1>5 DEF Alone, Fresh, Idle
<1>8. Waiting(m)'
  BY <1>3 DEF Alone, Waiting
<1>9. Answering(m)'
  BY <1>3, <1>4, <1>5 DEF Alone, Answering, Idle
<1>10. FirstOfItsMessage(m)'
  <2>1. n # m => (Idle(m) => Idle(m)')
    BY <1>3, <1>5 DEF Idle, Jobs
  <2> QED  BY <2>1 DEF Alone, FirstOfItsMessage, Starts
<1> QED  BY <1>6, <1>7, <1>8, <1>9, <1>10 DEF Alone

\* The conversation gets a turn for a job that had not asked.
LEMMA AskAlone ==
  ASSUME IInv, NEW m \in Messages, Alone(m), NEW j \in Jobs, Asks(j)
  PROVE  Alone(m)'
<1>1. /\ \A i \in Jobs : i # j => job'[i] = job[i]
      /\ job'[j] = "turn" /\ job[j] # "none" /\ job[j] \in Before
      /\ UNCHANGED <<fence, turn, hook>>
  BY DEF IInv, JobOK, Asks, Ask, Before
<1>2. InTurn(m)' <=> InTurn(m)
  BY <1>1 DEF InTurn
<1>3. Queued(m)' <=> Queued(m) \/ m = j[1]
  BY QueueGrows DEF Asks
<1>4. m = j[1] => fence # m /\ ~Queued(m) /\ ~InTurn(m)
  BY <1>1 DEF Alone, Fresh
<1>5. OneJob(m)'
  BY <1>1 DEF Alone, OneJob
<1>6. m = j[1] => \A i \in Jobs : i # j /\ i[1] = m => job[i] = "none"
  BY <1>1 DEF Alone, OneJob
<1>7. Fresh(m)'
  BY <1>1, <1>2, <1>3, <1>6 DEF Alone, Fresh, Before
<1>8. Answering(m)'
  BY <1>1, <1>3, <1>6 DEF Alone, Answering
<1>9. Waiting(m)'
  <2>1. /\ DOMAIN queue' = 1 .. Len(queue) + 1 /\ DOMAIN queue = 1 .. Len(queue)
        /\ Len(queue) \in Nat /\ queue'[Len(queue) + 1] = j
        /\ \A i \in 1 .. Len(queue) : queue'[i] = queue[i]
    BY QueueGrows DEF Asks
  <2>2. CASE m = j[1]
    <3>1. \A i \in 1 .. Len(queue) : queue[i][1] # m
      BY <1>4, <2>1, <2>2 DEF Queued
    <3>2. \A i \in DOMAIN queue' : queue'[i][1] = m => i = Len(queue) + 1
      BY <2>1, <3>1
    <3> QED  BY <1>1, <1>2, <1>4, <2>2, <3>2 DEF Waiting
  <2>3. CASE m # j[1]
    <3>1. \A i \in DOMAIN queue' : queue'[i][1] = m => i \in DOMAIN queue /\ queue[i][1] = m
      BY <2>1, <2>3
    <3> QED  BY <1>1, <1>2, <3>1 DEF Alone, Waiting
  <2> QED  BY <2>2, <2>3
<1>10. FirstOfItsMessage(m)'
  <2>1. m = j[1] => ~Idle(m)
    BY <1>1 DEF Idle, Jobs
  <2>2. m # j[1] /\ Idle(m) => Idle(m)'
    BY <1>1, <1>2, <1>3 DEF Idle, Jobs
  <2> QED  BY <1>1, <2>1, <2>2 DEF Alone, FirstOfItsMessage, Starts
<1> QED  BY <1>5, <1>7, <1>8, <1>9, <1>10 DEF Alone

\* The first of the waiting turns runs.
LEMMA StartTurnAlone ==
  ASSUME IInv, NEW m \in Messages, Alone(m), StartTurn
  PROVE  Alone(m)'
<1> DEFINE h == Head(queue)
<1>1. UNCHANGED <<fence, job, hook>>
  BY DEF StartTurn, files, memory
<1>2. /\ turn = NoTurn /\ h = queue[1] /\ 1 \in DOMAIN queue
      /\ DOMAIN queue = 1 .. Len(queue) /\ DOMAIN queue' = 1 .. Len(queue) - 1 /\ Len(queue) \in Nat
      /\ \A i \in DOMAIN queue' : i + 1 \in DOMAIN queue /\ i + 1 # 1 /\ queue'[i] = queue[i + 1]
      /\ Queued(m)' => Queued(m)
      /\ InTurn(m)' <=> m = h[1]
  BY QueueShrinks
<1>3. m = h[1] => Queued(m)
  BY <1>2 DEF Queued
<1> HIDE DEF h
<1>4. OneJob(m)' /\ Answering(m)'
  BY <1>1, <1>2 DEF Alone, OneJob, Answering
<1>5. Fresh(m)'
  BY <1>1, <1>2, <1>3 DEF Alone, Fresh
<1>6. Waiting(m)'
  <2>1. ASSUME NEW i \in DOMAIN queue', queue'[i][1] = m
        PROVE  fence # m /\ m # h[1] /\ \A k \in DOMAIN queue' : queue'[k][1] = m => k = i
    <3>1. i + 1 \in DOMAIN queue /\ i + 1 # 1 /\ queue[i + 1][1] = m
      BY <1>2, <2>1
    <3>2. fence # m /\ \A k \in DOMAIN queue : queue[k][1] = m => k = i + 1
      BY <3>1 DEF Alone, Waiting
    <3>3. m # h[1]
      BY <1>2, <3>1, <3>2
    <3>4. \A k \in DOMAIN queue' : queue'[k][1] = m => k + 1 = i + 1
      BY <1>2, <3>2
    <3>5. \A k \in DOMAIN queue' : k \in Nat /\ i \in Nat
      BY <1>2
    <3> QED  BY <3>2, <3>3, <3>4, <3>5
  <2> QED  BY <1>1, <1>2, <2>1 DEF Waiting
<1>7. FirstOfItsMessage(m)'
  <2>1. Idle(m) => Idle(m)'
    BY <1>1, <1>2, <1>3 DEF Idle
  <2> QED  BY <1>1, <2>1 DEF Alone, FirstOfItsMessage
<1> QED  BY <1>4, <1>5, <1>6, <1>7 DEF Alone

\* An outcome is sent, by the job or in the turn of its message: the fence names it.
LEMMA FenceAlone ==
  ASSUME IInv, NEW m \in Messages, Alone(m), NEW n \in Messages, fence' = n,
         n = m => ~Queued(m) /\ ~Idle(m) /\ \A j \in Jobs : job[j] \in Before => j[1] # m,
         \A j \in Jobs : job'[j] \in Before \cup {"gate"} => job[j] = job'[j],
         \A j \in Jobs : job'[j] = "none" <=> job[j] = "none",
         InTurn(m)' <=> InTurn(m),
         UNCHANGED <<queue, hook>>
  PROVE  Alone(m)'
<1>1. (Queued(m)' <=> Queued(m)) /\ (Idle(m)' <=> Idle(m))
  BY DEF Idle, Queued, Jobs
<1>2. OneJob(m)' /\ Answering(m)'
  BY <1>1 DEF Alone, OneJob, Answering
<1>3. Fresh(m)'
  BY <1>1 DEF Alone, Fresh
<1>4. Waiting(m)'
  BY DEF Alone, Waiting, Queued
<1>5. FirstOfItsMessage(m)'
  BY <1>1 DEF Alone, FirstOfItsMessage
<1> QED  BY <1>2, <1>3, <1>4, <1>5 DEF Alone

\* A job that sends its answer itself, an outcome tool of the turn.
LEMMA SenderAlone ==
  ASSUME IInv, NEW m \in Messages, Alone(m),
         (\E j \in Jobs : TakeGate(j)) \/ \E o \in Outcomes : CallTool(o)
  PROVE  Alone(m)'
<1>1. ASSUME NEW j \in Jobs, TakeGate(j)
      PROVE  Alone(m)'
  <2>1. /\ UNCHANGED <<queue, turn, hook>> /\ j[1] \in Messages
        /\ job[j] = "gate" /\ fence' = j[1] /\ job' = [job EXCEPT ![j] = "check"]
    BY <1>1 DEF TakeGate, memory, session, Jobs
  <2>2. /\ \A i \in Jobs : i # j => job'[i] = job[i]
        /\ job'[j] = "check"
    BY <2>1 DEF IInv, JobOK
  <2>3. j[1] = m => ~Queued(m) /\ ~Idle(m) /\ \A i \in Jobs : job[i] \in Before => i[1] # m
    BY <2>1 DEF Alone, Answering, OneJob, Idle, Jobs, Before
  <2>4. /\ \A i \in Jobs : job'[i] \in Before \cup {"gate"} => job[i] = job'[i]
        /\ \A i \in Jobs : job'[i] = "none" <=> job[i] = "none"
        /\ InTurn(m)' <=> InTurn(m)
    BY <2>1, <2>2 DEF Before, InTurn
  <2> QED  BY <2>1, <2>3, <2>4, FenceAlone
<1>2. ASSUME NEW o \in Outcomes, CallTool(o)
      PROVE  Alone(m)'
  <2>1. /\ UNCHANGED <<job, queue, hook>>
        /\ turn.step = "run" /\ fence' = turn.j[1] /\ turn' = [turn EXCEPT !.step = o]
    BY <1>2 DEF CallTool, memory
  <2>2. turn.j[1] \in Messages /\ turn'.j = turn.j /\ turn'.step # "none"
    BY <2>1 DEF IInv, SessionOK, Outcomes, Jobs
  <2>3. InTurn(m)' <=> InTurn(m)
    BY <2>1, <2>2 DEF InTurn
  <2>4. turn.j[1] = m => ~Queued(m) /\ ~Idle(m) /\ \A i \in Jobs : job[i] \in Before => i[1] # m
    BY <2>1 DEF Alone, Waiting, Queued, Fresh, Idle, InTurn
  <2> QED  BY <2>1, <2>2, <2>3, <2>4, FenceAlone
<1> QED  BY <1>1, <1>2

\* A message is taken up by the catch-up while it is idle, or it is remembered as raced.
LEMMA TakenUpAlone ==
  ASSUME IInv, NEW m \in Messages, Alone(m), m \notin raced', Remember, NEW n \in Messages, Tracked(n)
  PROVE  Alone(m)'
<1>1. CASE hook.m = n /\ Starts(hook.step) /\ hook' = NoHook
  <2>1. n = m => Idle(m) /\ fence # m
    BY <1>1 DEF Alone, FirstOfItsMessage
  <2>2. ~Starts(hook'.step)
    BY <1>1 DEF Starts, NoHook
  <2> QED  BY <2>1, <2>2, TrackAlone DEF Tracked
<1>2. CASE fence # n /\ catch.next = n /\ catch'.next = n + 1 /\ hook' = hook
  <2>1. job' # job
    <3>1. PICK s \in Slots : job[<<n, s>>] = "none" /\ job' = [job EXCEPT ![<<n, s>>] = "new"]
      BY TrackStarts DEF Tracked, IInv
    <3>2. <<n, s>> \in Jobs
      BY DEF Jobs
    <3> QED  BY <3>1, <3>2 DEF IInv, JobOK
  <2>2. n = m => ~Underway(m)
    BY <1>2, <2>1 DEF Remember, TakenUpTwice
  <2>3. ~Underway(m) => Idle(m) /\ ~(hook.m = m /\ Starts(hook.step))
    BY DEF Underway, Idle, Queued, InTurn, Quiet, Jobs
  <2> QED  BY <1>2, <2>2, <2>3, TrackAlone DEF Tracked
<1> QED  BY <1>1, <1>2 DEF Tracked

LEMMA GoneAlone == ASSUME Gone, NEW m \in Messages PROVE Alone(m)'
<1>1. /\ \A j \in Jobs : job'[j] = "none"
      /\ queue' = <<>> /\ turn'.step = "none" /\ ~Starts(hook'.step)
  BY DEF Gone, NoTurn, NoHook, Starts
<1> QED
  BY <1>1 DEF Alone, OneJob, Fresh, Answering, Waiting, FirstOfItsMessage, Before, Starts

LEMMA ServeStep ==
  ASSUME IInv, ServeInv, [Next /\ Remember]_<<vars, past>>
  PROVE  ServeInv'
<1>1. [Next]_vars /\ (Remember \/ UNCHANGED <<vars, past>>)
  BY DEF past
<1>2. Registered'
  BY <1>1, RegisteredStays DEF ServeInv
<1>3. ASSUME NEW m \in Messages, m \notin raced'
      PROVE  Alone(m)'
  <2>1. m \notin raced /\ Alone(m) /\ Registered
    BY <1>1, <1>3 DEF ServeInv, Remember, past
  <2>2. CASE UNCHANGED <<vars, past>>
    <3>1. Calm
      BY <2>2, StillCalm DEF vars, files, memory, session
    <3> QED  BY <2>1, <3>1, CalmAlone
  <2>3. CASE Remember
    BY <1>1, <1>3, <2>1, <2>3, Kinds, CalmAlone, EntersAlone, StartTurnAlone, SenderAlone, TakenUpAlone,
       AskAlone, GoneAlone
       DEF Kind
  <2> QED  BY <1>1, <2>2, <2>3
<1> QED  BY <1>2, <1>3 DEF ServeInv

LEMMA ServeInitially == Init => ServeInv
<1> SUFFICES ASSUME Init PROVE ServeInv
  OBVIOUS
<1>1. /\ \A j \in Jobs : job[j] = "none"
      /\ queue = <<>> /\ turn.step = "none" /\ ~Starts(hook.step)
      /\ \A m \in Messages : catch.seen[m] = "none"
      /\ catch.step = "look"
  BY DEF Init, NoTurn, NoHook, NoCatch, Starts
<1>2. \A m \in Messages : Idle(m)
  BY <1>1 DEF Idle, Queued, InTurn, Jobs
<1>3. Registered
  BY <1>1, <1>2 DEF Registered
<1>4. \A m \in Messages : Alone(m)
  BY <1>1 DEF Alone, OneJob, Fresh, Answering, Waiting, FirstOfItsMessage, Before
<1> QED  BY <1>3, <1>4 DEF ServeInv
-----------------------------------------------------------------------------
(* Nothing of a message after its outcome                                  *)

\* The outcome of the message was accepted, may arrive late, or is being sent.
Tried(m) ==
  \/ m \in landed
  \/ \E o \in Outcomes : <<m, o>> \in limbo
  \/ \E j \in Jobs : j[1] = m /\ job[j] \in Holding
  \/ turn.step \in Outcomes /\ turn.j[1] = m

\* What the gateway knows of was sent by the caller.
SentByCaller ==
  /\ \A m \in Messages : Known(m) => m <= task.latest
  /\ hook.step \in Admitted => hook.m <= task.latest
  /\ \A i \in Jobs : prog[i].step # "none" => i[1] <= task.latest

\* A turn for the message is still to be asked for or taken.
Ahead(m) ==
  \/ \E j \in Jobs : j[1] = m /\ job[j] \in Before
  \/ Queued(m)
  \/ hook.m = m /\ Starts(hook.step)

\* A message whose fence is gone has a successor, so that its events and entries are stale;
\* what will be done for it finds no outcome of it, sent or tried.
Untried(m) ==
  /\ Tried(m) => fence = m \/ m < task.latest
  /\ Ahead(m) => ~Tried(m)

\* The gateway knows of the progress that runs, unless it was orphaned.
ProgressIsKnown == \A i \in Jobs : prog[i].step # "none" => owner = i \/ i[1] \in orphaned

\* Progress that finds no fence is about a message that no outcome was sent for.
ProgressIsUntried ==
  \A i \in Jobs : fence = 0 /\ prog[i].step # "none" =>
                    ~Tried(i[1]) \/ i[1] \in raced \cup overtaken \cup orphaned

AnswerInv ==
  /\ SentByCaller
  /\ \A m \in Messages \ (raced \cup overtaken) : Untried(m)
  /\ ProgressIsKnown /\ ProgressIsUntried
  /\ NoProgressAfterOutcome

\* The latest message of the task only grows.
LEMMA LatestGrows ==
  ASSUME IInv, [Next]_vars
  PROVE  task'.latest >= task.latest /\ task.latest \in Nat
<1>1. task.latest \in Nat /\ task = [state |-> task.state, latest |-> task.latest]
  BY A2AAssumption DEF IInv, ServiceOK
<1>2. \/ UNCHANGED task
      \/ task' = [state |-> "working", latest |-> task.latest + 1]
      \/ \E o : task' = [task EXCEPT !.state = o]
  <2>1. CASE UNCHANGED vars
    BY <2>1 DEF vars, service
  <2>2. CASE Environment
    <3>1. CASE CallerSends \/ CallerCancels \/ \E m \in Messages, o \in Outcomes : ArrivesLate(m, o)
      BY <3>1 DEF CallerSends, CallerCancels, ArrivesLate, Accepted
    <3>2. CASE Crash \/ Close \/ (\E m \in Messages : Redeliver(m)) \/ \E o \in Outcomes : CallTool(o)
      BY <3>2 DEF Crash, Gone, Close, Redeliver, CallTool, service
    <3> QED  BY <2>2, <3>1, <3>2 DEF Environment
  <2>3. CASE Webhook \/ \E m \in 0 .. NumMessages : Deliver(m)
    BY <2>3 DEF Webhook, Deliver, Admit, AdmitFails, Acknowledge, ReceiptSent, AcknowledgeFails, CancelTask,
                CancelAgain, CancelEnds, service
  <2>4. CASE Conversation
    BY <2>4 DEF Conversation, StartTurn, FailTurn, EndTurn, ToolSent, ToolFails, Accepted, service
  <2>5. CASE Process
    BY <2>5 DEF Process, Listen, OpenSessions, CatchUp, CatchLook, CatchEntry, Discover, CatchFails,
                CloseProgress, CloseJobs, Down, Gone, service
  <2>6. CASE \E j \in Jobs : Job(j) \/ Gated(j)
    BY <2>6 DEF Job, Gated, BeginJob, GoOn, JobAcknowledges, JobReceiptSent, JobReceiptFails, CheckTask,
                CheckFails, AnswerSent, AnswerFails, JobCanceled, StopsOwnProgress, EndJob, ClearFence,
                TakeGate, Accepted, service
  <2>7. CASE \E i \in Jobs : Progress(i)
    BY <2>7 DEF Progress, Wake, EnterGate, ReadTask, Summarized, ReadAgain, ReadFails, ProgressSent,
                ProgressFails, Killed, service
  <2> QED  BY <2>1, <2>2, <2>3, <2>4, <2>5, <2>6, <2>7 DEF Next
<1>3. CASE \E o : task' = [task EXCEPT !.state = o]
  <2>1. task'.latest = task.latest
    BY <1>1, <1>3
  <2> QED  BY <1>1, <2>1
<1>4. CASE task' = [state |-> "working", latest |-> task.latest + 1]
  <2>1. task'.latest = task.latest + 1
    BY <1>4
  <2> QED  BY <1>1, <2>1
<1> QED  BY <1>1, <1>2, <1>3, <1>4

\* An outcome is tried only by a sender at the gate.
Sends(m) ==
  \/ \E j \in Jobs : TakeGate(j) /\ j[1] = m
  \/ \E o \in Outcomes : CallTool(o) /\ turn.j[1] = m

LEMMA TriedBySender ==
  ASSUME IInv, [Next]_vars, NEW m \in Messages, Tried(m)'
  PROVE  Tried(m) \/ Sends(m)
<1>1. CASE UNCHANGED <<landed, limbo>> /\ (turn'.step \in Outcomes => turn' = turn)
           /\ \A j \in Jobs : job'[j] \in Holding => job[j] \in Holding
  BY <1>1 DEF Tried
<1>2. CASE UNCHANGED vars
  BY <1>1, <1>2 DEF vars, service, session
<1>3. CASE Environment
  <2>1. CASE Crash
    <3>1. /\ limbo' = limbo \cup InFlight /\ landed' = landed
          /\ turn'.step \notin Outcomes /\ \A j \in Jobs : job'[j] = "none"
      BY <2>1 DEF Crash, Gone, NoTurn, Outcomes
    <3>2. \A o : <<m, o>> \in InFlight => Tried(m)
      BY DEF InFlight, Tried, Holding, Jobs
    <3> QED  BY <3>1, <3>2 DEF Tried, Holding
  <2>2. CASE \E n \in Messages, o \in Outcomes : ArrivesLate(n, o)
    <3>1. PICK n \in Messages, o \in Outcomes : ArrivesLate(n, o)
      BY <2>2
    <3>2. /\ <<n, o>> \in limbo /\ limbo' \subseteq limbo /\ landed' \subseteq landed \cup {n}
          /\ UNCHANGED <<turn, job>>
      BY <3>1 DEF ArrivesLate, Accepted, session
    <3> QED  BY <3>2 DEF Tried
  <2>3. CASE \E o \in Outcomes : CallTool(o)
    <3>1. PICK o \in Outcomes : CallTool(o)
      BY <2>3
    <3>2. UNCHANGED <<landed, limbo, job>> /\ turn'.j = turn.j
      BY <3>1 DEF CallTool, service, IInv, SessionOK
    <3> QED  BY <3>1, <3>2 DEF Tried, Sends
  <2>4. CASE CallerSends \/ CallerCancels \/ Close \/ \E n \in Messages : Redeliver(n)
    BY <1>1, <2>4 DEF CallerSends, CallerCancels, Close, Redeliver, service, session
  <2> QED  BY <1>3, <2>1, <2>2, <2>3, <2>4 DEF Environment
<1>4. CASE Webhook
  <2>1. UNCHANGED <<landed, limbo, turn>>
    BY <1>4 DEF Webhook, Admit, AdmitFails, Acknowledge, ReceiptSent, AcknowledgeFails, CancelTask,
                CancelAgain, CancelEnds, service, session
  <2>2. UNCHANGED job \/ CancelJobs \/ (hook.step \in Admitted /\ Track(hook.m))
    BY <1>4 DEF Webhook, Admit, AdmitFails, Acknowledge, ReceiptSent, AcknowledgeFails, CancelTask,
                CancelAgain, CancelEnds, Admitted
  <2>3. CancelJobs => \A j \in Jobs : job'[j] \in Holding => job[j] \in Holding
    BY DEF CancelJobs, AfterCancel, Holding
  <2>4. ASSUME hook.step \in Admitted, Track(hook.m)
        PROVE  \A j \in Jobs : job'[j] \in Holding => job[j] \in Holding
    <3>1. hook.m \in Messages
      BY <2>4 DEF IInv, HookOK
    <3> QED  BY <2>4, <3>1, TrackStarts DEF IInv, JobOK, Holding
  <2> QED  BY <1>1, <2>1, <2>2, <2>3, <2>4
<1>5. CASE Conversation
  <2>1. CASE StartTurn
    BY <1>1, <2>1 DEF StartTurn, NoTurn, Outcomes, service
  <2>2. CASE FailTurn \/ \E answer \in BOOLEAN : EndTurn(answer)
    <3>1. UNCHANGED <<landed, limbo>> /\ turn'.step \notin Outcomes
      BY <2>2 DEF FailTurn, EndTurn, NoTurn, Outcomes, service
    <3>2. UNCHANGED job \/ \E s \in {"gate", "stop"} : job' = [job EXCEPT ![turn.j] = s]
      BY <2>2 DEF FailTurn, EndTurn, Leave
    <3> QED  BY <1>1, <3>1, <3>2 DEF IInv, JobOK, Holding
  <2>3. CASE ToolSent \/ \E later \in BOOLEAN : ToolFails(later)
    <3>1. turn.step \in Outcomes /\ turn.j[1] \in Messages /\ UNCHANGED job
      BY <2>3 DEF ToolSent, ToolFails, IInv, SessionOK, Jobs, Outcomes
    <3>2. landed' \subseteq landed \cup {turn.j[1]} /\ limbo' \subseteq limbo \cup {<<turn.j[1], turn.step>>}
      BY <2>3 DEF ToolSent, ToolFails, Accepted
    <3>3. turn'.step \notin Outcomes
      BY <2>3 DEF ToolSent, ToolFails, IInv, SessionOK, Outcomes
    <3> QED  BY <3>1, <3>2, <3>3 DEF Tried
  <2> QED  BY <1>5, <2>1, <2>2, <2>3 DEF Conversation
<1>6. CASE Process
  <2>1. CASE Down
    <3>1. /\ limbo' = limbo \cup InFlight /\ landed' = landed
          /\ turn'.step \notin Outcomes /\ \A j \in Jobs : job'[j] = "none"
      BY <2>1 DEF Down, Gone, NoTurn, Outcomes
    <3>2. \A o : <<m, o>> \in InFlight => Tried(m)
      BY DEF InFlight, Tried, Holding, Jobs
    <3> QED  BY <3>1, <3>2 DEF Tried, Holding
  <2>2. CASE CloseJobs
    BY <1>1, <2>2 DEF CloseJobs, CancelJobs, AfterCancel, Holding, service, session
  <2>3. CASE \E n \in Messages : CatchEntry(n)
    <3>1. PICK n \in Messages : CatchEntry(n)
      BY <2>3
    <3>2. UNCHANGED <<landed, limbo, turn>> /\ (Track(n) \/ UNCHANGED job)
      BY <3>1 DEF CatchEntry, service, session
    <3>3. \A j \in Jobs : job'[j] \in Holding => job[j] \in Holding
      BY <3>2, TrackStarts DEF IInv, JobOK, Holding
    <3> QED  BY <1>1, <3>2, <3>3
  <2>4. CASE Listen \/ OpenSessions \/ CatchUp \/ Discover \/ CatchFails \/ CloseProgress
             \/ \E n \in Messages : CatchLook(n)
    BY <1>1, <2>4 DEF Listen, OpenSessions, CatchUp, Discover, CatchFails, CloseProgress, CatchLook,
                      service, session
  <2> QED  BY <1>6, <2>1, <2>2, <2>3, <2>4 DEF Process
<1>7. CASE \E n \in 0 .. NumMessages : Deliver(n)
  BY <1>1, <1>7 DEF Deliver, session
<1>8. ASSUME NEW j \in Jobs, Job(j) \/ Gated(j)
      PROVE  Tried(m) \/ Sends(m)
  <2>1. CASE TakeGate(j)
    <3>1. UNCHANGED <<landed, limbo, turn>> /\ job' = [job EXCEPT ![j] = "check"]
      BY <2>1 DEF TakeGate, service, session
    <3> QED  BY <2>1, <3>1 DEF Tried, Sends, IInv, JobOK
  <2>2. CASE AnswerSent(j) \/ \E later \in BOOLEAN : AnswerFails(j, later)
    <3>1. job[j] \in Holding /\ UNCHANGED turn
      BY <2>2 DEF AnswerSent, AnswerFails, Holding, session
    <3>2. landed' \subseteq landed \cup {j[1]} /\ limbo' \subseteq limbo \cup {<<j[1], "done">>}
      BY <2>2 DEF AnswerSent, AnswerFails, Accepted
    <3>3. \E s \in {"stop", "canceled"} : job' = [job EXCEPT ![j] = s]
      BY <2>2 DEF AnswerSent, AnswerFails, Leave
    <3>4. \A i \in Jobs : job'[i] \in Holding => job[i] \in Holding
      BY <3>3 DEF IInv, JobOK, Holding
    <3> QED  BY <3>1, <3>2, <3>4 DEF Tried
  <2>3. CASE CheckTask(j)
    <3>1. UNCHANGED <<landed, limbo, turn>> /\ job[j] = "check"
          /\ \E s \in {"stop", "post"} : job' = [job EXCEPT ![j] = s]
      BY <2>3 DEF CheckTask, Leave, service, session
    <3> QED  BY <1>1, <3>1 DEF IInv, JobOK, Holding
  <2>4. CASE \/ BeginJob(j) \/ GoOn(j) \/ ClearFence(j) \/ JobAcknowledges(j) \/ JobReceiptSent(j)
             \/ (\E arrives \in BOOLEAN : JobReceiptFails(j, arrives))
             \/ CheckFails(j) \/ JobCanceled(j) \/ StopsOwnProgress(j) \/ EndJob(j)
    <3>1. UNCHANGED <<landed, limbo, turn>>
      BY <2>4 DEF BeginJob, GoOn, ClearFence, JobAcknowledges, JobReceiptSent, JobReceiptFails, CheckFails,
                  JobCanceled, StopsOwnProgress, EndJob, service, session
    <3>2. \E s \in {"stopPrev", "ack", "clear", "turn", "ackPost", "stop", "canceled", "stopping", "none"} :
            job' = [job EXCEPT ![j] = s]
      BY <2>4 DEF BeginJob, GoOn, ClearFence, JobAcknowledges, JobReceiptSent, JobReceiptFails, CheckFails,
                  JobCanceled, StopsOwnProgress, EndJob, StartProgress, Ask, Leave
    <3> QED  BY <1>1, <3>1, <3>2 DEF IInv, JobOK, Holding
  <2> QED  BY <1>8, <2>1, <2>2, <2>3, <2>4 DEF Job, Gated
<1>9. CASE \E i \in Jobs : Progress(i)
  BY <1>1, <1>9 DEF Progress, Wake, EnterGate, ReadTask, Summarized, ReadAgain, ReadFails, ProgressSent,
                    ProgressFails, Killed, service, session
<1> QED  BY <1>2, <1>3, <1>4, <1>5, <1>6, <1>7, <1>8, <1>9 DEF Next

\* Every entry is written for a message that the gateway knows of, or that the caller sent.
LEMMA WritesKnown ==
  ASSUME IInv, Registered, SentByCaller, [Next]_vars
  PROVE  \A n \in Messages : reg'[n].state # "none" => Known(n) \/ n <= task.latest
<1> DEFINE At(w) == \A n \in Messages : n # w => reg'[n] = reg[n]
           Goal == \A n \in Messages : reg'[n].state # "none" => Known(n) \/ n <= task.latest
<1>1. \A w \in Messages : At(w) /\ (Known(w) \/ w <= task.latest) => Goal
  BY DEF Known
<1>2. (\A n \in Messages : reg'[n].state = reg[n].state) => Goal
  BY DEF Known
<1>3. \A j \in Jobs : j[1] \in Messages /\ (job[j] # "none" => Known(j[1]))
  BY DEF Registered, Idle, Jobs
<1>4. CASE UNCHANGED reg
  BY <1>2, <1>4
<1>5. CASE LastTexts
  <2>1. ASSUME NEW i \in Jobs, Unheard(i[1]) PROVE Goal
    <3>1. \A n \in Messages : reg'[n].state = reg[n].state
      BY <2>1, <1>3 DEF Unheard, IInv, RegOK
    <3> QED  BY <1>2, <3>1
  <2> QED  BY <1>4, <1>5, <2>1 DEF LastTexts
<1>6. CASE Webhook
  <2>1. \/ UNCHANGED reg
        \/ hook.step = "fetch" /\ hook.m # 0 /\ task.latest = hook.m /\ Write(hook.m, "queued", FALSE)
        \/ hook.step \in Admitted /\ (Write(hook.m, "finalized", FALSE) \/ Receipted(hook.m))
    BY <1>6 DEF Webhook, Admitted, Admit, Stale, AdmitFails, Acknowledge, ReceiptSent, AcknowledgeFails,
                CancelTask, CancelAgain, CancelEnds, files
  <2>2. hook.m # 0 => hook.m \in Messages
    BY A2AAssumption DEF IInv, HookOK, Messages
  <2>3. hook.step \in Admitted => hook.m \in Messages /\ hook.m <= task.latest
    BY DEF IInv, HookOK, SentByCaller
  <2>4. \A m \in Messages : hook.m = m /\ (Write(m, "queued", FALSE) \/ Write(m, "finalized", FALSE)
                                            \/ Receipted(m)) => At(m)
    BY DEF Write, Receipted, IInv, RegOK
  <2>5. \A m \in Messages : task.latest = m => m <= task.latest
    BY DEF Messages
  <2> QED  BY <1>1, <1>4, <2>1, <2>2, <2>3, <2>4, <2>5
<1>7. CASE Conversation
  <2>1. UNCHANGED reg \/ (turn.step # "none" /\ Write(turn.j[1], "finalized", turn.sent = "input"))
    BY <1>7 DEF Conversation, StartTurn, FailTurn, EndTurn, ToolSent, ToolFails, files
  <2>2. turn.step # "none" => turn.j[1] \in Messages /\ Known(turn.j[1])
    BY DEF IInv, SessionOK, Jobs, Registered, Idle, InTurn
  <2>3. \A m \in Messages : Write(m, "finalized", turn.sent = "input") => At(m)
    BY DEF Write, IInv, RegOK
  <2> QED  BY <1>1, <1>4, <2>1, <2>2, <2>3
<1>8. CASE Process
  <2>1. ASSUME NEW m \in Messages, CatchEntry(m) PROVE Goal
    <3>1. Known(m)
      BY <2>1 DEF CatchEntry, Catching, Registered
    <3>2. At(m)
      BY <2>1 DEF CatchEntry, Write, IInv, RegOK
    <3> QED  BY <1>1, <3>1, <3>2
  <2>2. UNCHANGED reg \/ LastTexts \/ \E m \in Messages : CatchEntry(m)
    BY <1>8 DEF Process, Listen, OpenSessions, CatchUp, CatchLook, Discover, CatchFails, CloseProgress,
                CloseJobs, Down, files
  <2> QED  BY <1>4, <1>5, <2>1, <2>2
<1>9. ASSUME NEW j \in Jobs, Job(j) \/ Gated(j) PROVE Goal
  <2>1. UNCHANGED reg \/ job[j] # "none"
    BY <1>9 DEF Job, Gated, BeginJob, GoOn, JobAcknowledges, JobReceiptSent, JobReceiptFails,
       CheckTask, CheckFails, AnswerSent, AnswerFails, JobCanceled, StopsOwnProgress, EndJob,
       ClearFence, TakeGate, files
  <2>2. \/ UNCHANGED reg \/ StartProgress(j) \/ Receipted(j[1])
        \/ \E s \in {"running", "finalized"} : Write(j[1], s, FALSE)
    BY <1>9 DEF Job, Gated, BeginJob, GoOn, JobAcknowledges, JobReceiptSent, JobReceiptFails,
       CheckTask, CheckFails, AnswerSent, AnswerFails, JobCanceled, StopsOwnProgress, EndJob,
       ClearFence, TakeGate, files
  <2>3. UNCHANGED reg \/ At(j[1])
    BY <2>2 DEF StartProgress, Receipted, Write, IInv, RegOK
  <2> QED  BY <1>1, <1>3, <1>4, <2>1, <2>3
<1>10. ASSUME NEW i \in Jobs, Progress(i) PROVE Goal
  <2>1. \/ UNCHANGED reg
        \/ /\ prog[i].step # "none"
           /\ \/ Delivered(i[1]) \/ Unheard(i[1])
              \/ reg' = [reg EXCEPT ![i[1]].state = "running", ![i[1]].progress = "unsent"]
    BY <1>10 DEF Progress, files, Wake, EnterGate, ReadTask, Summarized, ReadAgain, ReadFails, ProgressSent,
                 ProgressFails, Killed, GoesOn
  <2>2. prog[i].step # "none" => i[1] <= task.latest
    BY DEF SentByCaller
  <2>3. UNCHANGED reg \/ At(i[1])
    BY <2>1 DEF Delivered, Unheard, IInv, RegOK
  <2> QED  BY <1>1, <1>3, <1>4, <2>1, <2>2, <2>3
<1>11. UNCHANGED vars \/ Environment \/ (\E m \in 0 .. NumMessages : Deliver(m)) => UNCHANGED reg \/ LastTexts
  BY DEF vars, files, Environment, CallerSends, CallerCancels, Close, Redeliver, ArrivesLate, CallTool,
         Deliver, Crash
<1> QED  BY <1>4, <1>5, <1>6, <1>7, <1>8, <1>9, <1>10, <1>11 DEF Next

\* An event is admitted about the latest message.
LEMMA AdmitsSent ==
  ASSUME IInv, SentByCaller, [Next]_vars, hook'.step \in Admitted
  PROVE  hook'.m <= task.latest
<1>1. hook' = hook \/ Webhook
  <2>1. Crash \/ Down \/ (\E m \in 0 .. NumMessages : Deliver(m)) => hook'.step \in {"none", "fetch"}
    BY DEF Crash, Down, Gone, Deliver, NoHook
  <2>2. Discover => hook' = hook \/ hook'.step = "fetch"
    BY DEF Discover
  <2>3. (Environment /\ ~Crash) \/ Conversation \/ UNCHANGED vars
        \/ (Process /\ ~Down /\ ~Discover) \/ (\E j \in Jobs : Job(j) \/ Gated(j) \/ Progress(j))
        => hook' = hook
    BY DEF Environment, CallerSends, CallerCancels, Close, Redeliver, ArrivesLate, CallTool, vars, memory,
       Conversation, StartTurn, FailTurn, EndTurn, ToolSent, ToolFails,
       Process, Listen, OpenSessions, CatchUp, CatchLook, CatchEntry, CatchFails, CloseProgress, CloseJobs,
       Job, Gated, BeginJob, GoOn, JobAcknowledges, JobReceiptSent, JobReceiptFails,
       CheckTask, CheckFails, AnswerSent, AnswerFails, JobCanceled, StopsOwnProgress, EndJob,
       ClearFence, TakeGate, Progress, Wake, EnterGate, ReadTask, Summarized, ReadAgain, ReadFails,
       ProgressSent, ProgressFails, Killed
  <2> QED  BY <2>1, <2>2, <2>3 DEF Next, Admitted
<1>2. CASE hook' = hook
  BY <1>2 DEF SentByCaller
<1>3. CASE Webhook
  <2>1. hook'.m = hook.m \/ hook' = NoHook
    BY <1>3 DEF Webhook, Admit, AdmitFails, Acknowledge, ReceiptSent, AcknowledgeFails, CancelTask, CancelAgain,
                CancelEnds, Answer, memory, IInv, HookOK
  <2>2. hook' # NoHook
    BY DEF NoHook, Admitted
  <2>3. hook.step \in Admitted \/ task.latest = hook.m
    <3>1. CASE Admit
      BY <2>2, <3>1 DEF Admit, Stale, Answer
    <3>2. CASE CancelTask \/ CancelAgain
      <4>1. hook'.step \in {"drain", hook.step}
        BY <3>2 DEF CancelTask, CancelAgain, memory, IInv, HookOK
      <4> QED  BY <4>1 DEF Admitted
    <3> QED  BY <1>3, <2>2, <3>1, <3>2
               DEF Webhook, AdmitFails, Acknowledge, ReceiptSent, AcknowledgeFails, CancelEnds, Answer, Admitted
  <2>4. task.latest \in Nat
    BY A2AAssumption DEF IInv, ServiceOK
  <2> QED  BY <2>1, <2>2, <2>3, <2>4 DEF SentByCaller
<1> QED  BY <1>1, <1>2, <1>3

\* Who launches a progress job; which texts are sent.
Launches(i) == Launch(i) /\ job[i] \in Before

LEMMA ProgressLaunched ==
  ASSUME IInv, [Next]_vars, NEW i \in Jobs, prog'[i].step # "none"
  PROVE  prog[i].step # "none" \/ Launches(i)
<1>1. CASE UNCHANGED prog
  BY <1>1
<1>2. CASE CancelJobs
  <2>1. prog'[i] = prog[i] \/ prog'[i] = [prog[i] EXCEPT !.stop = "kill"]
    BY <1>2 DEF CancelJobs
  <2>2. prog[i] = [step |-> prog[i].step, stop |-> prog[i].stop, by |-> prog[i].by]
    BY DEF IInv, ProgOK, Progresses
  <2>3. prog'[i].step = prog[i].step
    BY <2>1, <2>2
  <2> QED  BY <2>3
<1>3. CASE Gone
  BY <1>3 DEF Gone, NoProg
<1>4. CASE \E w : Stop(w)
  <2>1. prog'[i].step = prog[i].step
    BY <1>4, StopMovesNothing DEF IInv
  <2> QED  BY <2>1
<1>5. ASSUME NEW j \in Jobs, Launches(j)
      PROVE  prog[i].step # "none" \/ Launches(i)
  BY <1>5 DEF Launches, Launch, IInv, ProgOK
<1>6. ASSUME NEW k \in Jobs, Progress(k)
      PROVE  prog[i].step # "none"
  <2>1. PICK s \in ProgressSteps : Advances(k, s)
    BY <1>6, ProgressAdvances
  <2>2. saw' = saw
    BY <1>6 DEF Progress, Wake, EnterGate, ReadTask, Summarized, ReadAgain, ReadFails, ProgressSent,
                ProgressFails, Killed
  <2>3. prog'[k].step = s /\ \A n \in Jobs : n # k => prog'[n] = prog[n]
    BY <2>1, <2>2, OneProgressMoves DEF Advances, IInv
  <2> QED  BY <2>1, <2>3 DEF Advances
<1>7. ASSUME NEW j \in Jobs, Job(j) \/ Gated(j)
      PROVE  UNCHANGED prog \/ (\E w : Stop(w)) \/ Launches(j)
  BY <1>7 DEF Job, Gated, BeginJob, GoOn, JobAcknowledges, JobReceiptSent, JobReceiptFails, StartProgress,
       CheckTask, CheckFails, AnswerSent, AnswerFails, JobCanceled, StopsOwnProgress, EndJob,
       ClearFence, TakeGate, progress, Launches, Before
<1>8. UNCHANGED vars \/ Environment \/ Webhook \/ Conversation \/ Process \/ (\E m \in 0 .. NumMessages : Deliver(m))
      => UNCHANGED prog \/ CancelJobs \/ Gone \/ \E w : Stop(w)
  BY DEF vars, progress, Environment, CallerSends, CallerCancels, Close, Redeliver, ArrivesLate, CallTool,
     Crash, Webhook, Admit, AdmitFails, Acknowledge, ReceiptSent, AcknowledgeFails, CancelTask, CancelAgain,
     CancelEnds, Conversation, StartTurn, FailTurn, EndTurn, ToolSent, ToolFails,
     Process, Listen, OpenSessions, CatchUp, CatchLook, CatchEntry, Discover, CatchFails, CloseProgress,
     CloseJobs, Down, Deliver
<1> QED  BY <1>1, <1>2, <1>3, <1>4, <1>5, <1>6, <1>7, <1>8 DEF Next

LEMMA SentStep ==
  ASSUME IInv, IInv', Registered, SentByCaller, [Next]_vars
  PROVE  SentByCaller'
<1>1. task'.latest >= task.latest /\ task.latest \in Nat /\ task'.latest \in Nat
  BY LatestGrows, A2AAssumption DEF IInv, ServiceOK
<1>2. \A m \in Messages : m \in Nat
  BY DEF Messages
<1>3. \A m \in Messages : Known(m)' => m <= task.latest
  BY WritesKnown DEF SentByCaller, Known
<1>4. \A m \in Messages : Known(m)' => m <= task'.latest
  BY <1>1, <1>2, <1>3
<1>5. hook'.step \in Admitted => hook'.m <= task'.latest
  <2>1. hook'.step \in Admitted => hook'.m \in Nat
    BY A2AAssumption DEF IInv, HookOK
  <2> QED  BY <1>1, <2>1, AdmitsSent
<1>6. ASSUME NEW i \in Jobs, prog'[i].step # "none" PROVE i[1] <= task'.latest
  <2>1. i[1] \in Messages /\ (job[i] \in Before => Known(i[1]))
    BY DEF Registered, Idle, Jobs, Before
  <2>2. i[1] <= task.latest
    BY <1>6, <2>1, ProgressLaunched DEF SentByCaller, Launches
  <2> QED  BY <1>1, <1>2, <2>1, <2>2
<1> QED  BY <1>4, <1>5, <1>6 DEF SentByCaller, Known, Admitted

\* Who writes the fence, and who takes it away.
LEMMA FenceMoves ==
  ASSUME IInv, Registered, [Next]_vars
  PROVE  \/ fence' = fence
         \/ \E j \in Jobs : ClearFence(j)
         \/ \E m \in Messages : Sends(m) /\ fence' = m /\ Known(m)
<1>1. CASE \E o \in Outcomes : CallTool(o)
  <2>1. turn.j \in Jobs /\ turn.step = "run" /\ fence' = turn.j[1]
    BY <1>1 DEF CallTool, IInv, SessionOK
  <2>2. turn.j[1] \in Messages /\ Sends(turn.j[1])
    BY <1>1, <2>1 DEF Sends, Jobs
  <2> QED  BY <2>1, <2>2 DEF Registered, Idle, InTurn
<1>2. ASSUME NEW j \in Jobs, TakeGate(j)
      PROVE  \E m \in Messages : Sends(m) /\ fence' = m /\ Known(m)
  <2>1. j[1] \in Messages /\ fence' = j[1] /\ job[j] # "none"
    BY <1>2 DEF TakeGate, Jobs
  <2> QED  BY <1>2, <2>1 DEF Sends, Registered, Idle, Jobs
<1>3. ASSUME NEW j \in Jobs, Job(j) \/ Gated(j), ~TakeGate(j), ~ClearFence(j)
      PROVE  fence' = fence
  BY <1>3 DEF Job, Gated, BeginJob, GoOn, JobAcknowledges, JobReceiptSent, JobReceiptFails,
     CheckTask, CheckFails, AnswerSent, AnswerFails, JobCanceled, StopsOwnProgress, EndJob, files
<1>4. ASSUME NEW i \in Jobs, Progress(i)
      PROVE  fence' = fence
  BY <1>4 DEF Progress, Wake, EnterGate, ReadTask, Summarized, ReadAgain, ReadFails, ProgressSent,
     ProgressFails, Killed, files
<1>5. CASE Webhook \/ Conversation \/ Process
  BY <1>5 DEF Webhook, Admit, AdmitFails, Acknowledge, ReceiptSent, AcknowledgeFails, CancelTask, CancelAgain,
     CancelEnds, Conversation, StartTurn, FailTurn, EndTurn, ToolSent, ToolFails,
     Process, Listen, OpenSessions, CatchUp, CatchLook, CatchEntry, Discover, CatchFails, CloseProgress,
     CloseJobs, Down, Gone, files
<1>6. CASE UNCHANGED vars \/ Environment \/ \E m \in 0 .. NumMessages : Deliver(m)
  BY <1>1, <1>6 DEF vars, files, Environment, CallerSends, CallerCancels, Close, Redeliver, ArrivesLate, Crash,
     Gone, Deliver
<1> QED  BY <1>2, <1>3, <1>4, <1>5, <1>6 DEF Next

\* The sender of an outcome is the only one at work for its message, and not about to begin.
LEMMA SenderEnds ==
  ASSUME IInv, NEW m \in Messages, Alone(m), Sends(m)
  PROVE  ~Ahead(m)'
<1>1. ASSUME NEW j \in Jobs, TakeGate(j), j[1] = m
      PROVE  ~Ahead(m)'
  <2>1. /\ UNCHANGED <<queue, hook>> /\ job[j] = "gate" /\ job' = [job EXCEPT ![j] = "check"]
    BY <1>1 DEF TakeGate, memory, session
  <2>2. /\ \A i \in Jobs : i # j => job'[i] = job[i]
        /\ job'[j] = "check"
    BY <2>1 DEF IInv, JobOK
  <2>3. ~Queued(m) /\ ~Idle(m) /\ \A i \in Jobs : i[1] = m => job'[i] \notin Before
    BY <1>1, <2>1, <2>2 DEF Alone, Answering, OneJob, Idle, Jobs, Before
  <2>4. ~Queued(m)' /\ ~(hook'.m = m /\ Starts(hook'.step))
    BY <2>1, <2>3 DEF Queued, Alone, FirstOfItsMessage
  <2> QED  BY <2>3, <2>4 DEF Ahead, Starts
<1>2. ASSUME NEW o \in Outcomes, CallTool(o), turn.j[1] = m
      PROVE  ~Ahead(m)'
  <2>1. UNCHANGED <<job, queue, hook>> /\ InTurn(m)
    BY <1>2 DEF CallTool, memory, InTurn
  <2>2. ~Queued(m)' /\ ~(hook'.m = m /\ Starts(hook'.step)) /\ \A i \in Jobs : i[1] = m => job'[i] \notin Before
    BY <2>1 DEF Alone, Waiting, Queued, Fresh, FirstOfItsMessage, Idle
  <2> QED  BY <2>2 DEF Ahead, Starts
<1> QED  BY <1>1, <1>2 DEF Sends

\* What will be done for a message was ahead of it, or is begun while no outcome was sent.
LEMMA AheadBefore ==
  ASSUME IInv, [Next]_vars, NEW m \in Messages, Untried(m), Ahead(m)'
  PROVE  ~Tried(m)
<1>1. fence # m /\ task.latest = m => ~Tried(m)
  BY DEF Untried, Messages
<1>2. Ahead(m) => ~Tried(m)
  BY DEF Untried
<1>3. CASE Calm
  BY <1>2, <1>3 DEF Calm, Ahead, Queued, Starts
<1>4. CASE Enters
  BY <1>1, <1>2, <1>4 DEF Enters, Ahead, Queued, Starts
<1>5. CASE StartTurn
  <2>1. UNCHANGED <<job, hook>> /\ (Queued(m)' => Queued(m))
    BY <1>5, QueueShrinks DEF StartTurn, memory
  <2> QED  BY <1>2, <2>1 DEF Ahead, Starts
<1>6. CASE \E o \in Outcomes : CallTool(o)
  BY <1>2, <1>6 DEF CallTool, memory, Ahead, Queued, Starts
<1>7. CASE Gone
  BY <1>7 DEF Gone, Ahead, Queued, Starts, NoHook, Before
<1>8. ASSUME NEW n \in Messages, Tracked(n)
      PROVE  ~Tried(m)
  <2>1. UNCHANGED <<queue>> /\ (Starts(hook'.step) => hook' = hook)
    BY <1>8 DEF Tracked, Starts, NoHook
  <2>2. PICK s \in Slots : job' = [job EXCEPT ![<<n, s>>] = "new"]
    BY <1>8, TrackStarts DEF Tracked, IInv
  <2>3. CASE n # m
    <3>1. \A i \in Jobs : i[1] = m => job'[i] = job[i]
      BY <2>2, <2>3 DEF IInv, JobOK, Jobs
    <3> QED  BY <1>2, <2>1, <3>1 DEF Ahead, Queued, Starts
  <2>4. CASE n = m
    <3>1. Ahead(m) \/ (fence # m /\ task.latest = m)
      BY <1>8, <2>4 DEF Tracked, Ahead
    <3> QED  BY <1>1, <1>2, <3>1
  <2> QED  BY <2>3, <2>4
<1>9. ASSUME NEW j \in Jobs, Asks(j)
      PROVE  ~Tried(m)
  <2>1. /\ \A i \in Jobs : i # j => job'[i] = job[i]
        /\ job'[j] = "turn" /\ job[j] \in Before /\ hook' = hook
    BY <1>9 DEF IInv, JobOK, Asks, Ask
  <2>2. Queued(m)' <=> Queued(m) \/ m = j[1]
    BY <1>9, QueueGrows DEF Asks
  <2> QED  BY <1>2, <2>1, <2>2 DEF Ahead, Starts, Before
<1>10. ASSUME NEW j \in Jobs, TakeGate(j)
       PROVE  ~Tried(m)
  <2>1. /\ UNCHANGED <<queue, hook>>
        /\ \A i \in Jobs : i # j => job'[i] = job[i]
        /\ job'[j] = "check"
    BY <1>10 DEF TakeGate, memory, session, IInv, JobOK
  <2> QED  BY <1>2, <2>1 DEF Ahead, Queued, Starts, Before
<1> QED  BY <1>3, <1>4, <1>5, <1>6, <1>7, <1>8, <1>9, <1>10, Kinds DEF Kind

\* The fence of a message gives way to a later one, or is remembered as overtaken.
LEMMA UntriedStays ==
  ASSUME IInv, IInv', SentByCaller, SentByCaller', Registered, [Next]_vars, Remember,
         NEW m \in Messages, m \notin overtaken', Alone(m), Untried(m)
  PROVE  Untried(m)'
<1>1. task'.latest >= task.latest /\ task.latest \in Nat /\ task'.latest \in Nat /\ m \in Nat
  BY LatestGrows, A2AAssumption DEF IInv, ServiceOK, Messages
<1>2. Sends(m) => fence' = m
  BY DEF Sends, TakeGate, CallTool
<1>3. Tried(m)' => Tried(m) \/ Sends(m)
  BY TriedBySender
<1>4. ASSUME Tried(m), fence = m, fence' # m
      PROVE  m < task'.latest
  <2>1. ~Yields(m)
    BY <1>4 DEF Remember, OvertakenNow
  <2>2. ASSUME NEW n \in Messages, fence' = n, Known(n)
        PROVE  m < task'.latest
    <3>1. n \in Nat /\ n <= task.latest /\ n # m /\ n # 0
      BY <1>4, <2>2 DEF SentByCaller, Messages
    <3>2. m < n
      BY <1>1, <2>1, <2>2, <3>1 DEF Yields
    <3> QED  BY <1>1, <3>1, <3>2
  <2>3. ASSUME NEW j \in Jobs, ClearFence(j)
        PROVE  m < task'.latest
    <3>1. fence' = 0 /\ owner' = j /\ job[j] = "clear" /\ j[1] \in Messages
      BY <1>4, <2>3 DEF ClearFence, Launch, Jobs
    <3>2. j[1] # m
      BY <1>4, <3>1 DEF Alone, Fresh, Before
    <3>3. j[1] \in Nat /\ j[1] <= task.latest
      BY <3>1 DEF SentByCaller, Registered, Idle, Jobs, Messages
    <3>4. m < j[1]
      BY <1>1, <2>1, <3>1, <3>2, <3>3 DEF Yields
    <3> QED  BY <1>1, <3>3, <3>4
  <2> QED  BY <1>4, <2>2, <2>3, FenceMoves
<1>5. Tried(m)' => fence' = m \/ m < task'.latest
  BY <1>1, <1>2, <1>3, <1>4 DEF Untried
<1>6. Ahead(m)' => ~Tried(m)'
  BY <1>3, AheadBefore, SenderEnds
<1> QED  BY <1>5, <1>6 DEF Untried

\* Progress that the gateway forgets is remembered as orphaned.
LEMMA KnownProgressStays ==
  ASSUME IInv, ProgressIsKnown, [Next]_vars, Remember
  PROVE  ProgressIsKnown'
<1> SUFFICES ASSUME NEW i \in Jobs, prog'[i].step # "none"
             PROVE  owner' = i \/ i[1] \in orphaned'
  BY DEF ProgressIsKnown
<1>1. i[1] \in Messages /\ orphaned \subseteq orphaned'
  BY DEF Jobs, Remember
<1>2. CASE Launches(i)
  BY <1>2 DEF Launches, Launch
<1>3. CASE owner = i
  BY <1>1, <1>3 DEF Remember, OrphanedNow
<1>4. CASE prog[i].step # "none" /\ owner # i
  BY <1>1, <1>4 DEF ProgressIsKnown
<1> QED  BY <1>2, <1>3, <1>4, ProgressLaunched

LEMMA ProgressStaysUntried ==
  ASSUME IInv, AnswerInv, ProgressIsKnown', Registered, [Next]_vars, Remember
  PROVE  ProgressIsUntried'
<1> SUFFICES ASSUME NEW i \in Jobs, fence' = 0, prog'[i].step # "none",
                    i[1] \notin raced' \cup overtaken' \cup orphaned'
             PROVE  ~Tried(i[1])'
  BY DEF ProgressIsUntried
<1>1. i[1] \in Messages /\ i[1] \notin raced \cup overtaken \cup orphaned /\ owner' = i
  BY DEF Jobs, Remember, ProgressIsKnown
<1>2. ~Sends(i[1])
  BY <1>1 DEF Sends, TakeGate, CallTool, Messages
<1>3. job[i] \in Before => ~Tried(i[1])
  BY <1>1 DEF AnswerInv, Untried, Ahead
<1>4. prog[i].step # "none" /\ fence = 0 => ~Tried(i[1])
  BY <1>1 DEF AnswerInv, ProgressIsUntried
<1>5. fence # 0 => job[i] \in Before
  <2>1. ASSUME NEW j \in Jobs, ClearFence(j) PROVE job[i] \in Before
    BY <1>1, <2>1 DEF ClearFence, Launch, Before
  <2>2. fence # 0 => \E j \in Jobs : ClearFence(j)
    BY FenceMoves DEF Messages
  <2> QED  BY <2>1, <2>2
<1>6. ~Tried(i[1])
  BY <1>3, <1>4, <1>5, ProgressLaunched DEF Launches
<1> QED  BY <1>1, <1>2, <1>6, TriedBySender

\* A text is told late only by a progress job that is past the gate.
LEMMA TextsToldLate ==
  ASSUME IInv, [Next]_vars
  PROVE  \A m \in late' : m \in late \/ \E i \in Jobs : i[1] = m /\ m \in landed /\ prog[i].step = "post"
<1> DEFINE Tells(i) == prog[i].step = "post" /\ Told(i[1])
<1>1. UNCHANGED late \/ \E i \in Jobs : Tells(i)
  <2>1. ASSUME NEW i \in Jobs, Progress(i) PROVE UNCHANGED late \/ Tells(i)
    BY <2>1 DEF Progress, Wake, EnterGate, ReadTask, Summarized, ReadAgain, ReadFails, ProgressSent,
       ProgressFails, Killed
  <2>2. ASSUME NEW j \in Jobs, Job(j) \/ Gated(j) PROVE UNCHANGED late
    BY <2>2 DEF Job, Gated, BeginJob, GoOn, JobAcknowledges, JobReceiptSent, JobReceiptFails, TakeGate, ClearFence,
       CheckTask, CheckFails, AnswerSent, AnswerFails, JobCanceled, StopsOwnProgress, EndJob
  <2>3. Webhook \/ Conversation \/ Process => UNCHANGED late \/ LastTexts
    BY DEF Webhook, Admit, AdmitFails, Acknowledge, ReceiptSent, AcknowledgeFails, CancelTask, CancelAgain,
       CancelEnds, Conversation, StartTurn, FailTurn, EndTurn, ToolSent, ToolFails,
       Process, Listen, OpenSessions, CatchUp, CatchLook, CatchEntry, Discover, CatchFails, CloseProgress,
       CloseJobs, Down
  <2>4. UNCHANGED vars \/ Environment \/ (\E m \in 0 .. NumMessages : Deliver(m)) => UNCHANGED late \/ LastTexts
    BY DEF vars, Environment, CallerSends, CallerCancels, Close, Redeliver, ArrivesLate, CallTool, Crash, Deliver
  <2>5. LastTexts => UNCHANGED late \/ \E i \in Jobs : Tells(i)
    BY DEF LastTexts
  <2> QED  BY <2>1, <2>2, <2>3, <2>4, <2>5 DEF Next
<1> QED  BY <1>1 DEF Told

LEMMA LateStays ==
  ASSUME IInv, AnswerInv, [Next]_vars, Remember
  PROVE  NoProgressAfterOutcome'
<1>1. \A i \in Jobs : prog[i].step = "post" => fence = 0 /\ prog[i].step # "none"
  BY DEF IInv, ProgressKeepsToTheFence, PastGate
<1>2. \A m \in Messages : m \in landed => Tried(m)
  BY DEF Tried
<1>3. \A i \in Jobs : prog[i].step = "post" /\ i[1] \in landed => i[1] \in raced \cup overtaken \cup orphaned
  BY <1>1, <1>2 DEF AnswerInv, ProgressIsUntried, Jobs
<1> QED  BY <1>3, TextsToldLate DEF AnswerInv, NoProgressAfterOutcome, Remember

LEMMA AnswerStutters ==
  ASSUME AnswerInv, UNCHANGED <<vars, past>>
  PROVE  AnswerInv'
<1>1. UNCHANGED <<task, landed, limbo, reg, fence, hook, job, prog, owner, queue, turn, late, raced,
                  overtaken, orphaned>>
  BY DEF vars, past, service, files, memory, progress, session
<1>2. \A m \in Messages : (Tried(m)' <=> Tried(m)) /\ (Ahead(m)' <=> Ahead(m))
  BY <1>1 DEF Tried, Ahead, Queued, Starts
<1>3. \A m \in Messages : Untried(m) => Untried(m)'
  BY <1>1, <1>2 DEF Untried
<1>4. SentByCaller' /\ ProgressIsKnown' /\ NoProgressAfterOutcome'
  BY <1>1 DEF AnswerInv, SentByCaller, Known, Admitted, ProgressIsKnown, NoProgressAfterOutcome
<1>5. ProgressIsUntried'
  BY <1>1, <1>2 DEF AnswerInv, ProgressIsUntried, Jobs
<1> QED  BY <1>1, <1>3, <1>4, <1>5 DEF AnswerInv

LEMMA AnswerStep ==
  ASSUME IInv, IInv', ServeInv, AnswerInv, [Next /\ Remember]_<<vars, past>>
  PROVE  AnswerInv'
<1>1. CASE UNCHANGED <<vars, past>>
  BY <1>1, AnswerStutters
<1>2. CASE [Next]_vars /\ Remember
  <2>1. SentByCaller'
    BY <1>2, SentStep DEF AnswerInv, ServeInv
  <2>2. ASSUME NEW m \in Messages, m \notin raced' \cup overtaken'
        PROVE  Untried(m)'
    BY <1>2, <2>1, <2>2, UntriedStays DEF AnswerInv, ServeInv, Remember
  <2>3. ProgressIsKnown'
    BY <1>2, KnownProgressStays DEF AnswerInv
  <2>4. ProgressIsUntried' /\ NoProgressAfterOutcome'
    BY <1>2, <2>3, ProgressStaysUntried, LateStays DEF ServeInv
  <2> QED  BY <2>1, <2>2, <2>3, <2>4 DEF AnswerInv
<1> QED  BY <1>1, <1>2

LEMMA AnswerInitially == Init => AnswerInv
<1> SUFFICES ASSUME Init PROVE AnswerInv
  OBVIOUS
<1>1. /\ landed = {} /\ limbo = {} /\ late = {} /\ queue = <<>>
      /\ \A j \in Jobs : job[j] = "none" /\ prog[j].step = "none"
      /\ turn.step \notin Outcomes /\ hook.step = "none"
      /\ \A m \in Messages : ~Known(m)
  BY DEF Init, NoTurn, NoHook, NoProg, NoEntry, Known, Outcomes
<1>2. \A m \in Messages : ~Tried(m)
  BY <1>1 DEF Tried, Holding, Jobs
<1>3. SentByCaller
  BY <1>1 DEF SentByCaller, Admitted
<1> QED  BY <1>1, <1>2, <1>3 DEF AnswerInv, Untried, ProgressIsKnown, ProgressIsUntried, NoProgressAfterOutcome, Jobs
-----------------------------------------------------------------------------
(* What holds in every behaviour                                           *)

LEMMA InitHolds == Init => IInv /\ NotLaunched
<1> SUFFICES ASSUME Init PROVE IInv /\ NotLaunched
  OBVIOUS
<1>1. ServiceOK /\ RegOK /\ FilesOK /\ HookOK
  BY A2AAssumption DEF Init, ServiceOK, RegOK, FilesOK, HookOK, NoEntry, NoHook, RegStates, Admitted
<1>2. CatchOK /\ JobOK /\ SessionOK
  BY A2AAssumption DEF Init, CatchOK, JobOK, SessionOK, NoCatch, NoTurn, NoJob, Phases, RegStates, Steps
<1>3. ProgOK
  <2>1. NoProg \in Progresses
    BY DEF NoProg, Progresses, ProgressSteps
  <2> QED  BY <2>1, A2AAssumption DEF Init, ProgOK
<1>4. GateOK /\ ProgressKeepsToTheFence /\ NotLaunched
  BY DEF Init, GateOK, ProgressKeepsToTheFence, NotLaunched, Unlaunched, NoTurn, NoProg, Holding, PastGate,
         Outcomes
<1> QED  BY <1>1, <1>2, <1>3, <1>4 DEF IInv

\* The turn that begins is the first that waited.
LEMMA TurnBegins ==
  ASSUME IInv, [Next]_vars, turn = NoTurn, turn' # NoTurn
  PROVE  1 \in DOMAIN queue /\ turn'.j = queue[1] /\ queue[1] \in Jobs
<1>1. StartTurn
  <2>1. turn.step = "none" /\ turn' # turn
    BY DEF NoTurn
  <2>2. ~UNCHANGED vars /\ ~Environment /\ ~\E m \in 0 .. NumMessages : Deliver(m)
    BY <2>1 DEF vars, session, Environment, CallerSends, CallerCancels, Close, Redeliver, ArrivesLate, CallTool,
       Crash, Gone, Deliver
  <2>3. ~Webhook
    BY <2>1 DEF session, Webhook, Admit, AdmitFails, Acknowledge, ReceiptSent, AcknowledgeFails, CancelTask,
       CancelAgain, CancelEnds
  <2>4. ~Process
    BY <2>1 DEF session, Process, Listen, OpenSessions, CatchUp, CatchLook, CatchEntry, Discover, CatchFails,
       CloseProgress, CloseJobs, Down, Gone
  <2>5. \A j \in Jobs : ~Job(j) /\ ~Gated(j)
    BY <2>1 DEF session, Job, Gated, BeginJob, GoOn, JobAcknowledges, JobReceiptSent, JobReceiptFails,
       CheckTask, CheckFails, AnswerSent, AnswerFails, JobCanceled, StopsOwnProgress, EndJob, ClearFence, TakeGate
  <2>6. \A i \in Jobs : ~Progress(i)
    BY <2>1 DEF session, Progress, Wake, EnterGate, ReadTask, Summarized, ReadAgain, ReadFails, ProgressSent,
       ProgressFails, Killed
  <2>7. ~FailTurn /\ (\A answer \in BOOLEAN : ~EndTurn(answer)) /\ ~ToolSent
        /\ \A later \in BOOLEAN : ~ToolFails(later)
    BY <2>1 DEF FailTurn, EndTurn, ToolSent, ToolFails, Outcomes
  <2> QED  BY <2>2, <2>3, <2>4, <2>5, <2>6, <2>7 DEF Next, Conversation
<1> QED  BY <1>1, QueueShrinks

\* The types, the one holder of the gate and the silence of progress hold in every behaviour.
THEOREM Invariance == Spec => [](IInv /\ NotLaunched)
<1> DEFINE Inv == IInv /\ NotLaunched
<1>1. Inv /\ [Next /\ Remember]_<<vars, past>> => Inv'
  <2>1. [Next /\ Remember]_<<vars, past>> => [Next]_vars
    OBVIOUS
  <2> QED  BY <2>1, NextStep, LaunchesOnce
<1>2. Init => Inv
  BY InitHolds
<1> HIDE DEF Inv
<1>3. Spec => []Inv
  BY <1>1, <1>2, PTL DEF Spec
<1> QED  BY <1>3 DEF Inv

\* Every variable has its type, and a2a_progress_gate is held by exactly the one that is past
\* it: a job that answers, the tool process with an outcome, or a progress job.
THEOREM Typing == Spec => []TypeOK
<1>1. IInv => TypeOK
  BY DEF IInv, TypeOK, ServiceOK, RegOK, FilesOK, JobOK, ProgOK, GateOK, RegStates, Holding, PastGate
<1> QED  BY <1>1, Invariance, PTL

\* No progress text is on its way while an outcome's fence stands: _emit_a2a_progress looks at
\* it under the gate, under which alone the jobs and the tool process set it.
THEOREM ProgressIsFenced == Spec => []ProgressKeepsToTheFence
<1>1. IInv => ProgressKeepsToTheFence
  BY DEF IInv
<1> QED  BY <1>1, Invariance, PTL

\* What waits or works for a message that was not taken up twice is one thing.
THEOREM ServeInvariance == Spec => []ServeInv
<1>1. IInv /\ ServeInv /\ [Next /\ Remember]_<<vars, past>> => ServeInv'
  BY ServeStep
<1> QED  BY <1>1, ServeInitially, Invariance, PTL DEF Spec

\* A message has one job at a time, whatever is redelivered, cancelled or restarted, and
\* whenever webhooks arrive, unless _catch_up_a2a_tasks takes it up while it is underway.
THEOREM MessagesHaveOneJob == Spec => []OneJobPerMessage
<1>1. ServeInv => OneJobPerMessage
  BY DEF ServeInv, Alone, OneJob, OneJobPerMessage, Quiet, Jobs, Slots
<1> QED  BY <1>1, ServeInvariance, PTL

\* The message whose outcome was sent or tried last is not given to the model again: not by a
\* repeated webhook, a restart or a follow-up, unless it was taken up twice.
THEOREM FencedStaysAnswered == Spec => FencedIsNotRerun
<1>1. ASSUME IInv, ServeInv, [Next]_vars, turn = NoTurn, turn' # NoTurn
      PROVE  fence # turn'.j[1] \/ fence \in raced
  <2>1. 1 \in DOMAIN queue /\ turn'.j = queue[1] /\ queue[1][1] \in Messages
    BY <1>1, TurnBegins DEF Jobs
  <2> QED  BY <1>1, <2>1 DEF ServeInv, Alone, Waiting
<1>2. IInv /\ ServeInv /\ [Next /\ Remember]_<<vars, past>>
        => [turn = NoTurn /\ turn' # NoTurn => fence # turn'.j[1] \/ fence \in raced]_vars
  BY <1>1
<1> QED  BY <1>2, Invariance, ServeInvariance, PTL DEF Spec, FencedIsNotRerun

\* What waits or works for a message finds no outcome of it, and progress none of its own,
\* unless the message was taken up twice, its fence overtaken or its progress job forgotten.
THEOREM AnswerInvariance == Spec => []AnswerInv
<1>1. IInv /\ IInv' /\ ServeInv /\ AnswerInv /\ [Next /\ Remember]_<<vars, past>> => AnswerInv'
  BY AnswerStep
<1> QED  BY <1>1, AnswerInitially, Invariance, ServeInvariance, PTL DEF Spec

\* A message has one job, and the caller reads no progress of it after its outcome, also one
\* that arrived after its sender gave up: with any number of messages, faults and crashes.
THEOREM AnswersEndTheMessage == Spec => []MessagesAreServedOnce
<1>1. AnswerInv /\ OneJobPerMessage => MessagesAreServedOnce
  BY DEF AnswerInv, MessagesAreServedOnce
<1> QED  BY <1>1, AnswerInvariance, MessagesHaveOneJob, PTL

\* A message that was answered is not given to the model again: not by a repeated webhook, a
\* restart, a follow-up or an outcome that arrives late.
THEOREM AnsweredStaysAnswered == Spec => AnsweredIsNotRerun
<1>1. ASSUME IInv, AnswerInv, [Next]_vars, turn = NoTurn, turn' # NoTurn
      PROVE  turn'.j[1] \notin landed \ (raced \cup overtaken)
  <2>1. 1 \in DOMAIN queue /\ turn'.j = queue[1] /\ queue[1][1] \in Messages
    BY <1>1, TurnBegins DEF Jobs
  <2> QED  BY <1>1, <2>1 DEF AnswerInv, Untried, Ahead, Queued, Tried
<1>2. IInv /\ AnswerInv /\ [Next /\ Remember]_<<vars, past>>
        => [turn = NoTurn /\ turn' # NoTurn => turn'.j[1] \notin landed \ (raced \cup overtaken)]_vars
  BY <1>1
<1> QED  BY <1>2, Invariance, AnswerInvariance, PTL DEF Spec, AnsweredIsNotRerun

\* An answered message stays answered, whether the model's tool, the job or the service was the
\* last to know of it.
THEOREM AnswersStayFinal == Spec => AnswersAreFinal
BY FencedStaysAnswered, AnsweredStaysAnswered DEF AnswersAreFinal
=============================================================================
