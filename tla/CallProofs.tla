------------------------------ MODULE CallProofs ------------------------------
(***************************************************************************)
(* The two components that deal with calls: what the gateway does after    *)
(* one that Inkbox answered (HostedCalls), and the bridge of one to the    *)
(* Realtime model (RealtimeBridge).                                        *)
(*                                                                         *)
(* After a call, for any number of calls, redeliveries, turns, tool calls, *)
(* stops and crashes:                                                      *)
(*                                                                         *)
(*  - a call brings its contact at most one SMS, and the correction is     *)
(*    only reserved when it cannot be a second one.  The argument looks at *)
(*    the attempt files and at the provider only (IInv);                   *)
(*  - the verdict the registry records is true and final.  Here the        *)
(*    registry, the tasks and the turn matter, and how they are tied       *)
(*    together (VInv).                                                     *)
(*                                                                         *)
(* During a call, for any number of calls of the model: each is answered   *)
(* once, and when a hangup goes out, what was asked before it was heard,   *)
(* expired or failed.  A consult is pending from its dispatch until it is  *)
(* known what became of it, and a hangup begins when none is (BridgeInv).  *)
(***************************************************************************)
EXTENDS HostedCalls, RealtimeBridge, SequenceTheorems, TLAPS

\* The types of what the guard reads and writes.
FilesOK ==
  /\ attempt \in [Calls -> [Attempts -> FileStates]]
  /\ landed \in [Calls -> [Attempts -> Nat]]
  /\ sending \subseteq Calls \X Attempts
  /\ context \in (Calls \X Attempts) \cup {None}

\* A request of the attempt is in flight or was accepted: the contact may get it.
Out(c, a) == <<c, a>> \in sending \/ landed[c][a] # 0

\* Without a file there was no request, and a file has one request at most.
OneRequest == \A c \in Calls, a \in Attempts :
  /\ Out(c, a) => attempt[c][a] # "none"
  /\ landed[c][a] \in {0, 1}
  /\ <<c, a>> \in sending => landed[c][a] = 0

\* A file that lets the correction pass says that the first request came to nothing, ...
FirstIsClosed == \A c \in Calls : Out(c, 1) => attempt[c][1] # "recoverable"

\* ... so the two attempts are never both on their way.
NotBoth == \A c \in Calls : ~(Out(c, 1) /\ Out(c, 2))

IInv == FilesOK /\ OneRequest /\ FirstIsClosed /\ NotBoth

files == <<attempt, landed, sending>>
-----------------------------------------------------------------------------
USE DEF Attempts, FileStates, Out

\* Steps that leave the files and the provider alone keep the invariant.
LEMMA FilesUntouched ==
  ASSUME IInv, files' = files, context' \in (Calls \X Attempts) \cup {None}
  PROVE  IInv'
BY DEF IInv, files, FilesOK, OneRequest, FirstIsClosed, NotBoth

\* The guard reserves an attempt only if nothing of the call is out: neither this
\* attempt, which has no file, nor the other.
LEMMA ReservedIsFirst ==
  ASSUME IInv, NEW c \in Calls, NEW a \in Attempts, MayReserve(c, a)
  PROVE  \A b \in Attempts : ~Out(c, b)
<1>1. ~Out(c, a)
  BY DEF MayReserve, IInv, OneRequest
<1>2. CASE a = 1
  BY <1>1, <1>2 DEF MayReserve, IInv, OneRequest
<1>3. CASE a = 2
  BY <1>1, <1>3 DEF MayReserve, IInv, OneRequest, FirstIsClosed
<1> QED  BY <1>2, <1>3

LEMMA SendSmsStep == ASSUME IInv, SendSms PROVE IInv'
<1>1. PICK c \in Calls, a \in Attempts : context = <<c, a>>
  BY DEF SendSms, CallsTool, IInv, FilesOK
<1>2. landed' = landed /\ context' = context
  BY DEF SendSms
<1>3. CASE MayReserve(c, a)
  <2>1. attempt' = [attempt EXCEPT ![c][a] = "pending"] /\ sending' = sending \cup {<<c, a>>}
    BY <1>1, <1>3 DEF SendSms
  <2>2. \A b \in Attempts : ~Out(c, b)
    BY <1>3, ReservedIsFirst
  <2>3. FilesOK'
    BY <1>2, <2>1 DEF IInv, FilesOK
  <2>4. attempt'[c][a] = "pending"
    BY <2>1 DEF IInv, FilesOK
  <2>5. ASSUME NEW d \in Calls, NEW b \in Attempts, ~(d = c /\ b = a)
        PROVE  attempt'[d][b] = attempt[d][b] /\ (Out(d, b)' <=> Out(d, b))
    BY <1>2, <2>1, <2>5 DEF IInv, FilesOK
  <2>6. OneRequest'
    <3> SUFFICES ASSUME NEW d \in Calls, NEW b \in Attempts
                 PROVE  /\ Out(d, b)' => attempt'[d][b] # "none"
                        /\ landed'[d][b] \in {0, 1}
                        /\ <<d, b>> \in sending' => landed'[d][b] = 0
      BY DEF OneRequest
    <3>1. CASE d = c /\ b = a
      BY <1>2, <2>2, <2>4, <3>1
    <3>2. CASE ~(d = c /\ b = a)
      <4>1. /\ Out(d, b) => attempt[d][b] # "none"
            /\ landed[d][b] \in {0, 1}
            /\ <<d, b>> \in sending => landed[d][b] = 0
        BY DEF IInv, OneRequest
      <4>2. /\ attempt'[d][b] = attempt[d][b] /\ landed'[d][b] = landed[d][b]
            /\ <<d, b>> \in sending' <=> <<d, b>> \in sending
        BY <1>2, <2>1, <2>5, <3>2
      <4> QED  BY <4>1, <4>2
    <3> QED  BY <3>1, <3>2
  <2>7. FirstIsClosed'
    <3> SUFFICES ASSUME NEW d \in Calls, Out(d, 1)'
                 PROVE  attempt'[d][1] # "recoverable"
      BY DEF FirstIsClosed
    <3>1. CASE d = c /\ a = 1
      BY <2>4, <3>1
    <3>2. CASE ~(d = c /\ a = 1)
      BY <2>5, <3>2 DEF IInv, FirstIsClosed
    <3> QED  BY <3>1, <3>2
  <2>8. NotBoth'
    <3> SUFFICES ASSUME NEW d \in Calls, Out(d, 1)', Out(d, 2)'
                 PROVE  FALSE
      BY DEF NotBoth
    <3>1. d # c
      BY <2>2, <2>5
    <3> QED  BY <2>5, <3>1 DEF IInv, NotBoth
  <2> QED  BY <2>3, <2>6, <2>7, <2>8 DEF IInv
<1>4. CASE ~MayReserve(c, a)
  BY <1>1, <1>2, <1>4, FilesUntouched DEF SendSms, files, IInv, FilesOK
<1> QED  BY <1>3, <1>4

LEMMA SendElsewhereStep == ASSUME IInv, SendElsewhere PROVE IInv'
<1>1. PICK c \in Calls, a \in Attempts : context = <<c, a>>
  BY DEF SendElsewhere, CallsTool, IInv, FilesOK
<1>2. /\ landed' = landed /\ sending' = sending /\ context' = context
      /\ Settle(c, a, "terminal")
  BY <1>1 DEF SendElsewhere
<1>3. FilesOK'
  BY <1>2 DEF Settle, IInv, FilesOK
<1>4. \A d \in Calls, b \in Attempts : attempt'[d][b] \in {attempt[d][b], "terminal"}
  BY <1>2 DEF Settle, IInv, FilesOK
<1>5. OneRequest' /\ FirstIsClosed' /\ NotBoth'
  BY <1>2, <1>4 DEF IInv, OneRequest, FirstIsClosed, NotBoth
<1> QED  BY <1>3, <1>5 DEF IInv

\* A request ends: what it accepted stays out, what it refused was never accepted.
LEMMA RequestEnds ==
  ASSUME IInv, NEW c \in Calls, NEW a \in Attempts,
         <<c, a>> \in sending, sending' = sending \ {<<c, a>>},
         landed' = landed \/ landed' = [landed EXCEPT ![c][a] = @ + 1]
  PROVE  /\ landed' \in [Calls -> [Attempts -> Nat]]
         /\ \A d \in Calls, b \in Attempts :
              /\ Out(d, b)' => Out(d, b)
              /\ landed'[d][b] \in {0, 1}
              /\ <<d, b>> \in sending' => landed'[d][b] = 0
         /\ landed' = landed => ~Out(c, a)'
<1>1. landed[c][a] = 0
  BY DEF IInv, OneRequest
<1>2. CASE landed' = landed
  BY <1>1, <1>2 DEF IInv, FilesOK, OneRequest
<1>3. CASE landed' = [landed EXCEPT ![c][a] = @ + 1]
  <2>1. landed' \in [Calls -> [Attempts -> Nat]]
    BY <1>3 DEF IInv, FilesOK
  <2>2. landed'[c][a] = 1
    BY <1>1, <1>3 DEF IInv, FilesOK
  <2>3. ASSUME NEW d \in Calls, NEW b \in Attempts, ~(d = c /\ b = a)
        PROVE  landed'[d][b] = landed[d][b]
    BY <1>3, <2>3 DEF IInv, FilesOK
  <2>4. ASSUME NEW d \in Calls, NEW b \in Attempts
        PROVE  /\ Out(d, b)' => Out(d, b)
               /\ landed'[d][b] \in {0, 1}
               /\ <<d, b>> \in sending' => landed'[d][b] = 0
    <3>1. CASE d = c /\ b = a
      BY <2>2, <3>1
    <3>2. CASE ~(d = c /\ b = a)
      BY <2>3, <3>2 DEF IInv, OneRequest
    <3> QED  BY <3>1, <3>2
  <2>5. landed' # landed
    BY <1>1, <2>2
  <2> QED  BY <2>1, <2>4, <2>5
<1> QED  BY <1>2, <1>3

LEMMA SendEndsStep ==
  ASSUME IInv, NEW c \in Calls, NEW a \in Attempts, NEW arrives \in BOOLEAN,
         NEW outcome \in {"success", "recoverable", "terminal"},
         SendEnds(c, a, outcome, arrives)
  PROVE  IInv'
<1>1. /\ <<c, a>> \in sending /\ sending' = sending \ {<<c, a>>}
      /\ landed' = landed \/ landed' = [landed EXCEPT ![c][a] = @ + 1]
      /\ outcome = "recoverable" => landed' = landed
      /\ Settle(c, a, outcome) /\ context' = context
  BY DEF SendEnds
<1>2. /\ landed' \in [Calls -> [Attempts -> Nat]]
      /\ \A d \in Calls, b \in Attempts :
           /\ Out(d, b)' => Out(d, b)
           /\ landed'[d][b] \in {0, 1}
           /\ <<d, b>> \in sending' => landed'[d][b] = 0
      /\ landed' = landed => ~Out(c, a)'
  BY <1>1, RequestEnds
<1>3. FilesOK'
  BY <1>1, <1>2 DEF Settle, IInv, FilesOK
<1>4. ASSUME NEW d \in Calls, NEW b \in Attempts
      PROVE  attempt'[d][b] = attempt[d][b] \/ (d = c /\ b = a /\ attempt'[d][b] = outcome)
  BY <1>1 DEF Settle, IInv, FilesOK
<1>5. OneRequest'
  <2> SUFFICES ASSUME NEW d \in Calls, NEW b \in Attempts, Out(d, b)'
               PROVE  attempt'[d][b] # "none"
    BY <1>2 DEF OneRequest
  <2>1. attempt[d][b] # "none"
    BY <1>2 DEF IInv, OneRequest
  <2> QED  BY <1>4, <2>1
<1>6. FirstIsClosed'
  <2> SUFFICES ASSUME NEW d \in Calls, Out(d, 1)'
               PROVE  attempt'[d][1] # "recoverable"
    BY DEF FirstIsClosed
  <2> QED  BY <1>1, <1>2, <1>4 DEF IInv, FirstIsClosed
<1>7. NotBoth'
  BY <1>2 DEF IInv, NotBoth
<1> QED  BY <1>3, <1>5, <1>6, <1>7 DEF IInv

LEMMA ToolDiesStep ==
  ASSUME IInv, NEW c \in Calls, NEW a \in Attempts, NEW arrives \in BOOLEAN,
         ToolDies(c, a, arrives)
  PROVE  IInv'
<1>1. /\ <<c, a>> \in sending /\ sending' = sending \ {<<c, a>>}
      /\ landed' = landed \/ landed' = [landed EXCEPT ![c][a] = @ + 1]
      /\ attempt' = attempt /\ context' = context
  BY DEF ToolDies
<1>2. /\ landed' \in [Calls -> [Attempts -> Nat]]
      /\ \A d \in Calls, b \in Attempts :
           /\ Out(d, b)' => Out(d, b)
           /\ landed'[d][b] \in {0, 1}
           /\ <<d, b>> \in sending' => landed'[d][b] = 0
  BY <1>1, RequestEnds
<1>3. FilesOK'
  BY <1>1, <1>2 DEF IInv, FilesOK
<1>4. OneRequest' /\ FirstIsClosed' /\ NotBoth'
  BY <1>1, <1>2 DEF IInv, OneRequest, FirstIsClosed, NotBoth
<1> QED  BY <1>3, <1>4 DEF IInv

\* A turn for an SMS of a call announces the first or the second attempt.
LEMMA StartTurnStep ==
  ASSUME IInv, NEW c \in Calls, NEW k \in Kinds, StartTurn(c, k) PROVE IInv'
<1>1. AttemptOf(job[c][k]) \in {0, 1, 2}
  BY DEF StartTurn, AttemptOf
<1>2. context' \in (Calls \X Attempts) \cup {None}
  BY <1>1 DEF StartTurn, IInv, FilesOK
<1> QED  BY <1>2, FilesUntouched DEF StartTurn, files

\* The steps of the gateway, of its tasks and of other turns.
LEMMA OtherStep ==
  ASSUME IInv,
         \/ \E c \in Calls : CallEnded(c)
         \/ \E c \in Calls, k \in Kinds : Begin(c, k) \/ Gather(c, k) \/ DropQueued(c, k)
         \/ EndTurn \/ FailTurn \/ OrdinaryTurn \/ OrdinaryEnds
         \/ Listen \/ OpenSessions \/ Recover \/ Crash \/ Stop
         \/ UNCHANGED vars
  PROVE  IInv'
<1>1. files' = files
  BY DEF files, vars, CallEnded, Begin, Gather, Gathered, GatherFails, NoEvidence, DropQueued,
         EndTurn, FailTurn, OrdinaryTurn, OrdinaryEnds, Listen, OpenSessions, Recover, Crash,
         Stop, Down
<1>2. context' \in {context, None}
  BY DEF vars, CallEnded, Begin, Gather, Gathered, GatherFails, NoEvidence, DropQueued,
         EndTurn, FailTurn, Retire, OrdinaryTurn, OrdinaryEnds, Listen, OpenSessions, Recover,
         Crash, Stop, Down
<1>3. context' \in (Calls \X Attempts) \cup {None}
  BY <1>2 DEF IInv, FilesOK
<1> QED  BY <1>1, <1>3, FilesUntouched

LEMMA InitHolds == Init => IInv
BY DEF Init, IInv, FilesOK, OneRequest, FirstIsClosed, NotBoth

LEMMA NextStep == ASSUME IInv, [Next]_vars PROVE IInv'
<1>1. CASE \E c \in Calls, k \in Kinds : StartTurn(c, k)
  BY <1>1, StartTurnStep
<1>2. CASE SendSms
  BY <1>2, SendSmsStep
<1>3. CASE SendElsewhere
  BY <1>3, SendElsewhereStep
<1>4. ASSUME NEW c \in Calls, NEW a \in Attempts, Send(c, a) PROVE IInv'
  BY <1>4, SendEndsStep, ToolDiesStep DEF Send
<1>5. CASE \/ \E c \in Calls : CallEnded(c)
           \/ \E c \in Calls, k \in Kinds : Begin(c, k) \/ Gather(c, k) \/ DropQueued(c, k)
           \/ EndTurn \/ FailTurn \/ OrdinaryTurn \/ OrdinaryEnds
           \/ Listen \/ OpenSessions \/ Recover \/ Crash \/ Stop
           \/ UNCHANGED vars
  BY <1>5, OtherStep
<1> QED  BY <1>1, <1>2, <1>3, <1>4, <1>5 DEF Next

\* In every behaviour the attempt files say at least what the provider was asked.
THEOREM Invariant == Spec => []IInv
<1>1. IInv /\ [Next]_vars => IInv'
  BY NextStep
<1> QED  BY <1>1, InitHolds, PTL DEF Spec

\* A contact gets at most one SMS for a call: reserve_hosted_sms_attempt creates the
\* file of an attempt once, and the second attempt only after the first came to nothing.
THEOREM OneSmsPerCall == Spec => []AtMostOneSms
<1>1. ASSUME IInv, NEW c \in Calls PROVE landed[c][1] + landed[c][2] <= 1
  <2>1. landed[c][1] \in {0, 1} /\ landed[c][2] \in {0, 1}
    BY <1>1 DEF IInv, OneRequest
  <2>2. landed[c][1] = 0 \/ landed[c][2] = 0
    BY <1>1 DEF IInv, NotBoth
  <2> QED  BY <2>1, <2>2
<1>2. IInv => AtMostOneSms
  BY <1>1 DEF AtMostOneSms
<1> QED  BY <1>2, Invariant, PTL

\* When the guard would let the correction pass, nothing of the first attempt was
\* accepted and nothing of it is in flight.
THEOREM CorrectionsAreSafe == Spec => []CorrectionIsSafe
<1>1. IInv => CorrectionIsSafe
  BY DEF IInv, FilesOK, OneRequest, FirstIsClosed, CorrectionIsSafe, MayReserve
<1> QED  BY <1>1, Invariant, PTL
-----------------------------------------------------------------------------
(* The registry's verdict                                                  *)

TurnRows ==
  [call : Calls \cup {None}, kind : Kinds \cup {"none", "ordinary"}, attempt : {0} \cup Attempts,
   seen : {"none", "blocked", "success", "recoverable", "terminal"}, open : BOOLEAN, sends : Nat]

StepOf(a) == CASE a = 1 -> "turn1" [] a = 2 -> "turn2" [] OTHER -> "plain"

\* The conversation's turn is the one its task waits for, and an SMS turn is announced in the
\* context file.
TurnOfTask ==
  /\ active \in TurnRows
  /\ active.call \in Calls =>
       active.kind \in Kinds /\ job[active.call][active.kind] = StepOf(active.attempt)
  /\ active.attempt # 0 => active.call \in Calls /\ context = <<active.call, active.attempt>>

\* Only the first task of a call that owes no SMS asks for a plain turn.
PlainOwesNone ==
  \A c \in Calls, k \in Kinds :
    job[c][k] \in {"askPlain", "plain"} => k = "full" /\ c \notin SmsCalls

\* A redelivered call.ended would find the first task at work, ...
Deduped(c) ==
  \/ registry[c].state = "completed"
  \/ registry[c].state = "failed" /\ ~registry[c].retryable
  \/ registry[c].state \in {"queued", "running"} /\ registry[c].owner = owner
FullIsKnown ==
  \A c \in Calls : job[c]["full"] # "none" => table[c] = "full" /\ Deduped(c)

\* ... and the other one is started by the recovery only.
FixIsRecovery == \A c \in Calls : job[c]["fix"] # "none" => phase = "recovered"
Asleep == phase = "down" => active = NoTurn /\ \A c \in Calls : Idle(c)

\* What is noted as accepted was accepted.
SuccessIsTrue ==
  /\ \A c \in Calls, a \in Attempts : attempt[c][a] = "success" => landed[c][a] > 0
  /\ active.attempt # 0 /\ active.seen = "success" => landed[active.call][active.attempt] > 0

TablesOK ==
  /\ registry \in [Calls -> [state : {"none", "queued", "running", "completed", "failed"},
                             retryable : BOOLEAN, owner : Nat]]
  /\ job \in [Calls -> [Kinds -> Steps]] /\ table \in [Calls -> Kinds \cup {"none"}]
  /\ phase \in {"down", "listening", "ready", "recovered"} /\ owner \in Nat
  /\ deliveries \in 0 .. MaxDeliveries /\ stops \in 0 .. MaxCrashes

VInv ==
  /\ TablesOK /\ TurnOfTask /\ PlainOwesNone /\ FullIsKnown /\ FixIsRecovery /\ Asleep
  /\ SuccessIsTrue /\ CompletedWasSent

\* What the tasks and their turns read and write.
tasks == <<registry, phase, owner, job, table, deliveries, stops>>

\* A request, its answer or a blocked one changes what the host noted, and no task.
LEMMA NotesOnly ==
  ASSUME IInv, VInv, IInv', UNCHANGED <<tasks, context>>,
         active' \in TurnRows, active'.call = active.call, active'.kind = active.kind,
         active'.attempt = active.attempt,
         active = NoTurn => active' = NoTurn,
         SuccessIsTrue', \A c \in Calls, a \in Attempts : landed[c][a] > 0 => landed'[c][a] > 0
  PROVE  VInv'
<1>1. TablesOK' /\ PlainOwesNone' /\ FullIsKnown' /\ FixIsRecovery'
  BY DEF VInv, tasks, TablesOK, PlainOwesNone, FullIsKnown, FixIsRecovery, Deduped
<1>2. TurnOfTask'
  BY DEF VInv, tasks, TurnOfTask
<1>3. Asleep'
  BY DEF VInv, tasks, Asleep, Idle
<1>4. CompletedWasSent'
  BY HostedAssumption DEF VInv, tasks, CompletedWasSent
<1> QED  BY <1>1, <1>2, <1>3, <1>4 DEF VInv

\* A step of the webhook, of a task or of the turn it waits for concerns one call.
LEMMA OneCall ==
  ASSUME VInv, NEW c \in Calls, phase # "down", UNCHANGED <<phase, owner, attempt, landed>>,
         TablesOK', TurnOfTask', SuccessIsTrue',
         \A d \in Calls \ {c} :
           registry'[d] = registry[d] /\ job'[d] = job[d] /\ table'[d] = table[d],
         \A k \in Kinds : job'[c][k] \in {"askPlain", "plain"} => k = "full" /\ c \notin SmsCalls,
         job'[c]["full"] # "none" => table'[c] = "full" /\ Deduped(c)',
         job'[c]["fix"] # "none" => job[c]["fix"] # "none",
         c \in SmsCalls /\ registry'[c].state = "completed" =>
           registry[c].state = "completed" \/ \E a \in Attempts : landed[c][a] > 0
  PROVE  VInv'
<1>1. PlainOwesNone'
  BY DEF VInv, PlainOwesNone
<1>2. FullIsKnown'
  <2>1. ASSUME NEW d \in Calls, d # c, job'[d]["full"] # "none"
        PROVE  table'[d] = "full" /\ Deduped(d)'
    BY <2>1 DEF VInv, FullIsKnown, Deduped
  <2> QED  BY <2>1 DEF FullIsKnown
<1>3. FixIsRecovery'
  BY DEF VInv, FixIsRecovery
<1>4. Asleep'
  BY DEF Asleep
<1>5. CompletedWasSent'
  BY HostedAssumption DEF VInv, CompletedWasSent
<1> QED  BY <1>1, <1>2, <1>3, <1>4, <1>5 DEF VInv

\* A write of the registry and the step of a task.
LEMMA Writes ==
  ASSUME VInv, NEW c \in Calls,
         NEW s \in {"queued", "running", "completed", "failed"}, NEW retry \in BOOLEAN,
         Write(c, s, retry)
  PROVE  /\ registry' \in [Calls -> [state : {"none", "queued", "running", "completed", "failed"},
                                     retryable : BOOLEAN, owner : Nat]]
         /\ registry'[c] = Entry(s, retry, owner)
         /\ \A d \in Calls \ {c} : registry'[d] = registry[d]
<1>1. registry' = [registry EXCEPT ![c] = [state |-> s, retryable |-> retry, owner |-> owner]]
  BY DEF Write, Entry
<1> QED  BY <1>1 DEF VInv, TablesOK, Entry

LEMMA Moves ==
  ASSUME VInv, NEW c \in Calls, NEW k \in Kinds, NEW s \in Steps,
         job' = [job EXCEPT ![c][k] = s]
  PROVE  /\ job' \in [Calls -> [Kinds -> Steps]]
         /\ job'[c][k] = s
         /\ \A j \in Kinds \ {k} : job'[c][j] = job[c][j]
         /\ \A d \in Calls \ {c} : job'[d] = job[d]
BY DEF VInv, TablesOK

LEMMA Discards ==
  ASSUME VInv, NEW c \in Calls, NEW k \in Kinds, Discard(c, k)
  PROVE  /\ job' \in [Calls -> [Kinds -> Steps]]
         /\ job'[c][k] = "none"
         /\ \A j \in Kinds \ {k} : job'[c][j] = job[c][j]
         /\ \A d \in Calls \ {c} : job'[d] = job[d]
         /\ table' \in [Calls -> Kinds \cup {"none"}]
         /\ table[c] # k => table'[c] = table[c]
         /\ \A d \in Calls \ {c} : table'[d] = table[d]
<1>1. "none" \in Steps
  BY DEF Steps
<1>2. job' = [job EXCEPT ![c][k] = "none"]
  BY DEF Discard
<1>3. /\ table' \in [Calls -> Kinds \cup {"none"}]
      /\ table[c] # k => table'[c] = table[c]
      /\ \A d \in Calls \ {c} : table'[d] = table[d]
  BY DEF Discard, VInv, TablesOK
<1> QED  BY <1>1, <1>2, <1>3, Moves

\* A task that does not end the turn leaves it as it is.
LEMMA SameTurn ==
  ASSUME VInv, active' = active, context' = context,
         \A c \in Calls, k \in Kinds :
           job[c][k] \in {"turn1", "turn2", "plain"} => job'[c][k] = job[c][k]
  PROVE  TurnOfTask'
<1>1. \A a \in {0, 1, 2} : StepOf(a) \in {"turn1", "turn2", "plain"}
  BY DEF StepOf
<1> QED  BY <1>1 DEF VInv, TurnOfTask, TurnRows

LEMMA SameNotes ==
  ASSUME VInv, UNCHANGED <<attempt, landed>>, active' \in {active, NoTurn}
  PROVE  SuccessIsTrue'
BY DEF VInv, SuccessIsTrue, NoTurn

\* While the gateway is down there is nothing to do.
LEMMA Awake ==
  ASSUME VInv, NEW c \in Calls, NEW k \in Kinds, job[c][k] # "none" \/ active.call \in Calls \/ active # NoTurn
  PROVE  phase # "down"
BY HostedAssumption DEF VInv, Asleep, Idle, NoTurn

LEMMA CallEndedVerdict == ASSUME IInv, VInv, NEW c \in Calls, CallEnded(c) PROVE VInv'
<1>1. /\ phase # "down" /\ UNCHANGED <<phase, owner, attempt, landed, active, context, stops>>
      /\ deliveries' \in 0 .. MaxDeliveries
  BY HostedAssumption DEF CallEnded, Serving, VInv, TablesOK
<1>2. SuccessIsTrue'
  BY <1>1, SameNotes
<1>3. CASE Deduped(c)
  <2>1. UNCHANGED <<registry, job, table>>
    BY <1>3 DEF CallEnded, Deduped
  <2>2. TablesOK'
    BY <1>1, <2>1 DEF VInv, TablesOK
  <2>3. TurnOfTask'
    BY <1>1, <2>1, SameTurn
  <2> QED  BY <1>1, <1>2, <1>3, <2>1, <2>2, <2>3, OneCall
              DEF VInv, PlainOwesNone, FullIsKnown, Deduped
<1>4. CASE ~Deduped(c)
  <2>1. /\ Write(c, "queued", TRUE) /\ job' = [job EXCEPT ![c]["full"] = "new"]
        /\ table' = [table EXCEPT ![c] = "full"]
    BY <1>4 DEF CallEnded, Deduped, Schedule
  <2>2. job[c]["full"] = "none"
    BY <1>4 DEF VInv, FullIsKnown
  <2>3. /\ registry' \in [Calls -> [state : {"none", "queued", "running", "completed", "failed"},
                                    retryable : BOOLEAN, owner : Nat]]
        /\ registry'[c] = Entry("queued", TRUE, owner)
        /\ \A d \in Calls \ {c} : registry'[d] = registry[d]
    BY <2>1, Writes
  <2>4. /\ job' \in [Calls -> [Kinds -> Steps]]
        /\ job'[c]["full"] = "new" /\ job'[c]["fix"] = job[c]["fix"]
        /\ \A d \in Calls \ {c} : job'[d] = job[d]
    BY <2>1, Moves DEF Kinds, Steps
  <2>5. table' \in [Calls -> Kinds \cup {"none"}] /\ table'[c] = "full"
        /\ \A d \in Calls \ {c} : table'[d] = table[d]
    BY <2>1 DEF VInv, TablesOK, Kinds
  <2>6. TablesOK'
    BY <1>1, <2>3, <2>4, <2>5 DEF VInv, TablesOK
  <2>7. TurnOfTask'
    BY <1>1, <2>2, <2>4, SameTurn DEF Kinds
  <2>8. registry'[c].state = "queued" /\ Deduped(c)'
    BY <1>1, <2>3 DEF Entry, Deduped
  <2>9. \A k \in Kinds : job'[c][k] \in {"askPlain", "plain"} => k = "full" /\ c \notin SmsCalls
    BY <2>4 DEF VInv, PlainOwesNone, Kinds
  <2> QED  BY <1>1, <1>2, <2>3, <2>4, <2>5, <2>6, <2>7, <2>8, <2>9, OneCall
<1> QED  BY <1>3, <1>4

LEMMA BeginVerdict == ASSUME IInv, VInv, NEW c \in Calls, NEW k \in Kinds, Begin(c, k) PROVE VInv'
<1>1. /\ job[c][k] = "new" /\ Write(c, "running", TRUE) /\ job' = [job EXCEPT ![c][k] = "gather"]
      /\ UNCHANGED <<phase, owner, attempt, landed, table, active, context, deliveries, stops>>
  BY DEF Begin
<1>2. /\ registry' \in [Calls -> [state : {"none", "queued", "running", "completed", "failed"},
                                  retryable : BOOLEAN, owner : Nat]]
      /\ registry'[c] = Entry("running", TRUE, owner)
      /\ \A d \in Calls \ {c} : registry'[d] = registry[d]
  BY <1>1, Writes
<1>3. /\ job' \in [Calls -> [Kinds -> Steps]] /\ job'[c][k] = "gather"
      /\ \A j \in Kinds \ {k} : job'[c][j] = job[c][j]
      /\ \A d \in Calls \ {c} : job'[d] = job[d]
  BY <1>1, Moves DEF Steps
<1>4. TablesOK'
  BY <1>1, <1>2, <1>3 DEF VInv, TablesOK
<1>5. TurnOfTask'
  BY <1>1, <1>3, SameTurn
<1>6. registry'[c].state = "running" /\ Deduped(c)'
  BY <1>1, <1>2 DEF Entry, Deduped
<1>7. \A j \in Kinds : job'[c][j] \in {"askPlain", "plain"} => j = "full" /\ c \notin SmsCalls
  BY <1>3 DEF VInv, PlainOwesNone
<1>8. job'[c]["full"] # "none" => table'[c] = "full"
  BY <1>1, <1>3 DEF VInv, FullIsKnown, Kinds
<1>9. job'[c]["fix"] # "none" => job[c]["fix"] # "none"
  BY <1>1, <1>3 DEF Kinds
<1> QED  BY <1>1, <1>2, <1>3, <1>4, <1>5, <1>6, <1>7, <1>8, <1>9, OneCall, SameNotes, Awake

\* Tasks that gather, and those whose evidence is missing.
LEMMA GatherVerdict == ASSUME IInv, VInv, NEW c \in Calls, NEW k \in Kinds, Gather(c, k) PROVE VInv'
<1>1. CASE Gathered(c, k)
  <2>1. /\ job[c][k] = "gather" /\ job' = [job EXCEPT ![c][k] = Asked(c, k)]
        /\ UNCHANGED <<registry, phase, owner, attempt, landed, table, active, context, deliveries,
                       stops>>
    BY <1>1 DEF Gathered
  <2>2. Asked(c, k) \in {"ask1", "ask2", "askPlain"}
        /\ (Asked(c, k) = "askPlain" => k = "full" /\ c \notin SmsCalls)
    BY DEF Asked, RequiresSms, Kinds
  <2>3. /\ job' \in [Calls -> [Kinds -> Steps]] /\ job'[c][k] = Asked(c, k)
        /\ \A j \in Kinds \ {k} : job'[c][j] = job[c][j]
        /\ \A d \in Calls \ {c} : job'[d] = job[d]
    BY <2>1, <2>2, Moves DEF Steps
  <2>4. TablesOK'
    BY <2>1, <2>3 DEF VInv, TablesOK
  <2>5. TurnOfTask'
    BY <2>1, <2>3, SameTurn
  <2>6. \A j \in Kinds : job'[c][j] \in {"askPlain", "plain"} => j = "full" /\ c \notin SmsCalls
    BY <2>2, <2>3 DEF VInv, PlainOwesNone
  <2>7. /\ job'[c]["full"] # "none" => table'[c] = "full" /\ Deduped(c)'
        /\ job'[c]["fix"] # "none" => job[c]["fix"] # "none"
    BY <2>1, <2>3 DEF VInv, FullIsKnown, Deduped, Kinds
  <2> QED  BY <2>1, <2>3, <2>4, <2>5, <2>6, <2>7, OneCall, SameNotes, Awake
<1>2. ASSUME job[c][k] = "gather", NEW retry \in BOOLEAN, Write(c, "failed", retry), Discard(c, k),
             k = "fix" => ~retry,
             UNCHANGED <<attempt, landed, sending, phase, owner, active, context, deliveries,
                         stops>>
      PROVE  VInv'
  <2>1. /\ registry' \in [Calls -> [state : {"none", "queued", "running", "completed", "failed"},
                                    retryable : BOOLEAN, owner : Nat]]
        /\ registry'[c] = Entry("failed", retry, owner)
        /\ \A d \in Calls \ {c} : registry'[d] = registry[d]
    BY <1>2, Writes
  <2>2. /\ job' \in [Calls -> [Kinds -> Steps]] /\ job'[c][k] = "none"
        /\ \A j \in Kinds \ {k} : job'[c][j] = job[c][j]
        /\ \A d \in Calls \ {c} : job'[d] = job[d]
        /\ table' \in [Calls -> Kinds \cup {"none"}]
        /\ table[c] # k => table'[c] = table[c]
        /\ \A d \in Calls \ {c} : table'[d] = table[d]
    BY <1>2, Discards
  <2>3. TablesOK'
    BY <1>2, <2>1, <2>2 DEF VInv, TablesOK
  <2>4. TurnOfTask'
    BY <1>2, <2>2, SameTurn
  <2>5. \A j \in Kinds : job'[c][j] \in {"askPlain", "plain"} => j = "full" /\ c \notin SmsCalls
    BY <2>2 DEF VInv, PlainOwesNone
  <2>6. /\ job'[c]["full"] # "none" => table'[c] = "full" /\ Deduped(c)'
        /\ job'[c]["fix"] # "none" => job[c]["fix"] # "none"
    <3>1. registry'[c].state = "failed" /\ registry'[c].retryable = retry
      BY <2>1 DEF Entry
    <3> QED  BY <1>2, <2>2, <3>1 DEF VInv, FullIsKnown, Deduped, Kinds
  <2>7. registry'[c].state # "completed"
    BY <2>1 DEF Entry
  <2> QED  BY <1>2, <2>1, <2>2, <2>3, <2>4, <2>5, <2>6, <2>7, OneCall, SameNotes, Awake
<1>3. CASE k = "full" /\ GatherFails(c)
  BY <1>2, <1>3 DEF GatherFails
<1>4. CASE k = "fix" /\ NoEvidence(c)
  BY <1>2, <1>4 DEF NoEvidence
<1> QED  BY <1>1, <1>3, <1>4 DEF Gather

LEMMA StartTurnVerdict ==
  ASSUME IInv, VInv, NEW c \in Calls, NEW k \in Kinds, StartTurn(c, k) PROVE VInv'
<1> DEFINE a == AttemptOf(job[c][k])
<1>1. a \in {0, 1, 2} /\ StepOf(a) \in Steps /\ job[c][k] \in {"ask1", "ask2", "askPlain"}
      /\ (a \notin {1, 2} <=> job[c][k] = "askPlain")
  BY DEF AttemptOf, StartTurn, StepOf, Steps
<1>2. /\ active' = [NoTurn EXCEPT !.call = c, !.kind = k, !.attempt = a]
      /\ context' = IF a = 0 THEN context ELSE <<c, a>>
      /\ job' = [job EXCEPT ![c][k] = StepOf(a)]
      /\ UNCHANGED <<registry, attempt, landed, sending, phase, owner, table, deliveries, stops>>
  BY DEF StartTurn, StepOf
<1> HIDE DEF a
<1>3. active' = [call |-> c, kind |-> k, attempt |-> a, seen |-> "none", open |-> FALSE, sends |-> 0]
  BY <1>2 DEF NoTurn
<1>4. /\ job' \in [Calls -> [Kinds -> Steps]] /\ job'[c][k] = StepOf(a)
      /\ \A j \in Kinds \ {k} : job'[c][j] = job[c][j]
      /\ \A d \in Calls \ {c} : job'[d] = job[d]
  BY <1>1, <1>2, Moves
<1>5. TablesOK'
  BY <1>2, <1>4 DEF VInv, TablesOK
<1>6. TurnOfTask'
  <2>1. active' \in TurnRows
    BY <1>1, <1>3 DEF TurnRows
  <2>2. active'.call = c /\ active'.kind = k /\ active'.attempt = a
    BY <1>3
  <2>3. a # 0 => context' = <<c, a>>
    BY <1>2
  <2> QED  BY <1>4, <2>1, <2>2, <2>3 DEF TurnOfTask
<1>7. SuccessIsTrue'
  <2>1. active'.seen = "none"
    BY <1>3
  <2> QED  BY <1>2, <2>1 DEF VInv, SuccessIsTrue
<1>8. \A j \in Kinds : job'[c][j] \in {"askPlain", "plain"} => j = "full" /\ c \notin SmsCalls
  BY <1>1, <1>4 DEF VInv, PlainOwesNone, StepOf
<1>9. /\ job'[c]["full"] # "none" => table'[c] = "full" /\ Deduped(c)'
      /\ job'[c]["fix"] # "none" => job[c]["fix"] # "none"
  BY <1>1, <1>2, <1>4 DEF VInv, FullIsKnown, Deduped, Kinds
<1> QED  BY <1>1, <1>2, <1>4, <1>5, <1>6, <1>7, <1>8, <1>9, OneCall, Awake

\* A task ends with its verdict, and its turn is over or was not begun.
LEMMA Concludes ==
  ASSUME IInv, VInv, NEW c \in Calls, NEW k \in Kinds, job[c][k] # "none",
         NEW s \in {"completed", "failed"}, NEW retry \in BOOLEAN, Write(c, s, retry), Discard(c, k),
         k = "fix" /\ s = "failed" => ~retry,
         s = "completed" => c \notin SmsCalls \/ \E a \in Attempts : landed[c][a] > 0,
         UNCHANGED <<attempt, landed, phase, owner, deliveries, stops>>,
         active' = NoTurn \/ (active' = active /\ context' = context
                              /\ job[c][k] \notin {"turn1", "turn2", "plain"})
  PROVE  VInv'
<1>1. /\ registry' \in [Calls -> [state : {"none", "queued", "running", "completed", "failed"},
                                  retryable : BOOLEAN, owner : Nat]]
      /\ registry'[c] = Entry(s, retry, owner)
      /\ \A d \in Calls \ {c} : registry'[d] = registry[d]
  BY Writes
<1>2. /\ job' \in [Calls -> [Kinds -> Steps]] /\ job'[c][k] = "none"
      /\ \A j \in Kinds \ {k} : job'[c][j] = job[c][j]
      /\ \A d \in Calls \ {c} : job'[d] = job[d]
      /\ table' \in [Calls -> Kinds \cup {"none"}]
      /\ table[c] # k => table'[c] = table[c]
      /\ \A d \in Calls \ {c} : table'[d] = table[d]
  BY Discards
<1>3. TablesOK'
  BY <1>1, <1>2 DEF VInv, TablesOK
<1>4. TurnOfTask'
  <2>1. CASE active' = NoTurn
    BY <2>1, HostedAssumption DEF TurnOfTask, TurnRows, NoTurn
  <2>2. CASE active' # NoTurn
    BY <1>2, <2>2, SameTurn
  <2> QED  BY <2>1, <2>2
<1>5. \A j \in Kinds : job'[c][j] \in {"askPlain", "plain"} => j = "full" /\ c \notin SmsCalls
  BY <1>2 DEF VInv, PlainOwesNone
<1>6. registry'[c].state = s /\ registry'[c].retryable = retry
  BY <1>1 DEF Entry
<1>7. /\ job'[c]["full"] # "none" => table'[c] = "full" /\ Deduped(c)'
      /\ job'[c]["fix"] # "none" => job[c]["fix"] # "none"
  BY <1>2, <1>6 DEF VInv, FullIsKnown, Deduped, Kinds
<1> QED  BY <1>1, <1>2, <1>3, <1>4, <1>5, <1>6, <1>7, OneCall, SameNotes, Awake

LEMMA EndTurnVerdict == ASSUME IInv, VInv, EndTurn PROVE VInv'
<1>1. PICK c \in Calls, k \in Kinds, a \in {0, 1, 2} :
        c = active.call /\ k = active.kind /\ a = active.attempt /\ job[c][k] = StepOf(a)
  BY DEF EndTurn, VInv, TurnOfTask, TurnRows
<1> DEFINE s == IF a = 0 THEN "success" ELSE Settlement(active.seen, attempt[c][a])
<1>2. /\ active' = NoTurn /\ UNCHANGED <<attempt, landed, sending, phase, owner, deliveries, stops>>
  BY DEF EndTurn, Retire
<1>3. CASE a = 1 /\ s \in {"none", "recoverable"}
  <2>1. job' = [job EXCEPT ![c][k] = "ask2"] /\ UNCHANGED <<registry, table>>
    BY <1>1, <1>3 DEF EndTurn
  <2> HIDE DEF s
  <2>2. /\ job' \in [Calls -> [Kinds -> Steps]] /\ job'[c][k] = "ask2"
        /\ \A j \in Kinds \ {k} : job'[c][j] = job[c][j]
        /\ \A d \in Calls \ {c} : job'[d] = job[d]
    <3>1. "ask2" \in Steps
      BY DEF Steps
    <3>2. job' = [job EXCEPT ![c][k] = "ask2"]
      BY <2>1
    <3> QED  BY <3>1, <3>2, Moves
  <2>3. TablesOK'
    BY <1>2, <2>1, <2>2 DEF VInv, TablesOK
  <2>4. TurnOfTask'
    BY <1>2, HostedAssumption DEF TurnOfTask, TurnRows, NoTurn
  <2>5. \A j \in Kinds : job'[c][j] \in {"askPlain", "plain"} => j = "full" /\ c \notin SmsCalls
    BY <1>1, <2>2 DEF VInv, PlainOwesNone
  <2>6. job[c][k] # "none"
    BY <1>1 DEF StepOf
  <2>7. \A j \in Kinds : job'[c][j] # "none" => job[c][j] # "none"
    BY <2>2, <2>6
  <2>8. job'[c]["full"] # "none" => table'[c] = "full" /\ Deduped(c)'
    <3>1. (Deduped(c)' <=> Deduped(c)) /\ table' = table
      BY <1>2, <2>1 DEF Deduped
    <3> QED  BY <1>1, <2>7, <3>1 DEF VInv, FullIsKnown, Kinds
  <2>9. job'[c]["fix"] # "none" => job[c]["fix"] # "none"
    BY <2>7 DEF Kinds
  <2>10. phase # "down"
    BY <1>1, <2>6, Awake
  <2>11. SuccessIsTrue'
    BY <1>2, SameNotes
  <2> QED  BY <1>1, <1>2, <2>1, <2>2, <2>3, <2>4, <2>5, <2>8, <2>9, <2>10, <2>11, OneCall
<1>4. CASE ~(a = 1 /\ s \in {"none", "recoverable"})
  <2>1. Conclude(c, k, s)
    BY <1>1, <1>4 DEF EndTurn
  <2>2. s = "success" => c \notin SmsCalls \/ landed[c][a] > 0
    <3>1. CASE a = 0
      BY <1>1, <3>1 DEF StepOf, VInv, PlainOwesNone
    <3>2. CASE a # 0
      <4>1. s = "success" => active.seen = "success" \/ attempt[c][a] = "success"
        BY <3>2 DEF Settlement
      <4> QED  BY <1>1, <3>2, <4>1 DEF VInv, SuccessIsTrue
    <3> QED  BY <3>1, <3>2
  <2>3. a = 0 => c \notin SmsCalls
    BY <1>1 DEF StepOf, VInv, PlainOwesNone
  <2> HIDE DEF s
  <2>4. job[c][k] # "none"
    BY <1>1 DEF StepOf
  <2>5. s = "success" => c \notin SmsCalls \/ \E b \in Attempts : landed[c][b] > 0
    BY <1>1, <2>2, <2>3
  <2>6. CASE s = "success"
    <3>1. Write(c, "completed", TRUE) /\ Discard(c, k)
      BY <2>1, <2>6 DEF Conclude
    <3> QED  BY <1>1, <1>2, <2>4, <2>5, <2>6, <3>1, Concludes
  <2>7. CASE s # "success"
    <3>1. Write(c, "failed", FALSE) /\ Discard(c, k)
      BY <2>1, <2>7 DEF Conclude
    <3> QED  BY <1>1, <1>2, <2>4, <3>1, Concludes
  <2> QED  BY <2>6, <2>7
<1> QED  BY <1>3, <1>4

LEMMA FailTurnVerdict == ASSUME IInv, VInv, FailTurn PROVE VInv'
<1>1. PICK c \in Calls, k \in Kinds, a \in {0, 1, 2} :
        c = active.call /\ k = active.kind /\ a = active.attempt /\ job[c][k] = StepOf(a)
  BY DEF FailTurn, VInv, TurnOfTask, TurnRows
<1>2. /\ Write(c, "failed", a = 0) /\ Discard(c, k) /\ active' = NoTurn
      /\ UNCHANGED <<attempt, landed, phase, owner, deliveries, stops>>
  BY <1>1 DEF FailTurn, Retire
<1>3. job[c][k] # "none" /\ (k = "fix" => a # 0)
  BY <1>1 DEF StepOf, VInv, PlainOwesNone
<1>4. CASE a = 0
  <2>1. Write(c, "failed", TRUE)
    BY <1>2, <1>4
  <2> QED  BY <1>2, <1>3, <1>4, <2>1, Concludes
<1>5. CASE a # 0
  <2>1. Write(c, "failed", FALSE)
    BY <1>2, <1>5
  <2> QED  BY <1>2, <1>3, <2>1, Concludes
<1> QED  BY <1>4, <1>5

LEMMA DropQueuedVerdict ==
  ASSUME IInv, VInv, NEW c \in Calls, NEW k \in Kinds, DropQueued(c, k) PROVE VInv'
<1>1. /\ job[c][k] \in {"ask1", "ask2", "askPlain"}
      /\ UNCHANGED <<attempt, landed, phase, owner, active, context, deliveries, stops>>
      /\ Conclude(c, k, IF job[c][k] = "askPlain" THEN "success" ELSE "aborted")
  BY DEF DropQueued
<1>2. CASE job[c][k] = "askPlain"
  <2>1. Write(c, "completed", TRUE) /\ Discard(c, k) /\ c \notin SmsCalls
    BY <1>1, <1>2 DEF Conclude, VInv, PlainOwesNone
  <2> QED  BY <1>1, <2>1, Concludes
<1>3. CASE job[c][k] # "askPlain"
  <2>1. Write(c, "failed", FALSE) /\ Discard(c, k)
    BY <1>1, <1>3 DEF Conclude
  <2> QED  BY <1>1, <2>1, Concludes
<1> QED  BY <1>2, <1>3

LEMMA OrdinaryVerdict == ASSUME IInv, VInv, OrdinaryTurn \/ OrdinaryEnds PROVE VInv'
<1>1. UNCHANGED <<tasks, attempt, landed, context>>
  BY DEF OrdinaryTurn, OrdinaryEnds, tasks
<1>2. active'.call = None /\ active'.attempt = 0 /\ active' \in TurnRows
      /\ active.call \notin Calls /\ active.attempt = 0 /\ phase # "down"
  <2>1. CASE OrdinaryTurn
    <3>1. /\ active = NoTurn /\ phase # "down"
          /\ active' = [call |-> None, kind |-> "ordinary", attempt |-> 0, seen |-> "none",
                        open |-> FALSE, sends |-> 0]
      BY <2>1 DEF OrdinaryTurn, NoTurn
    <3> QED  BY <3>1, HostedAssumption DEF NoTurn, TurnRows
  <2>2. CASE OrdinaryEnds
    <3>1. active.kind = "ordinary" /\ active' = NoTurn
      BY <2>2 DEF OrdinaryEnds
    <3>2. active.call \notin Calls /\ active.attempt = 0
      BY <3>1 DEF VInv, TurnOfTask, Kinds
    <3>3. phase # "down"
      BY <3>1 DEF VInv, Asleep, NoTurn
    <3> QED  BY <3>1, <3>2, <3>3, HostedAssumption DEF NoTurn, TurnRows
  <2> QED  BY <2>1, <2>2
<1>3. TablesOK' /\ PlainOwesNone' /\ FullIsKnown' /\ FixIsRecovery' /\ CompletedWasSent'
  BY <1>1, HostedAssumption
     DEF VInv, tasks, TablesOK, PlainOwesNone, FullIsKnown, FixIsRecovery, Deduped, CompletedWasSent
<1>4. TurnOfTask' /\ SuccessIsTrue' /\ Asleep'
  BY <1>1, <1>2, HostedAssumption DEF VInv, TurnOfTask, SuccessIsTrue, Asleep, tasks
<1> QED  BY <1>3, <1>4 DEF VInv

\* What the host notes, and whether it can be an accepted send.
LEMMA Notes ==
  ASSUME NEW seen \in {"none", "blocked", "success", "recoverable", "terminal"},
         NEW outcome \in {"blocked", "success", "recoverable", "terminal"}
  PROVE  /\ Note(seen, outcome) \in {"none", "blocked", "success", "recoverable", "terminal"}
         /\ Note(seen, outcome) = "success" => seen = "success" \/ outcome = "success"
BY DEF Note

\* A call of the tool and its answer leave the turn the one of its task.
LEMMA Opened ==
  ASSUME NEW t \in TurnRows, NEW n \in Nat, NEW u, u = [t EXCEPT !.open = TRUE, !.sends = n]
  PROVE  /\ u \in TurnRows /\ u.call = t.call /\ u.kind = t.kind /\ u.attempt = t.attempt
         /\ u.seen = t.seen
BY DEF TurnRows

LEMMA ToolVerdict == ASSUME IInv, VInv, IInv', SendSms \/ SendElsewhere PROVE VInv'
<1>1. PICK c \in Calls, a \in Attempts : context = <<c, a>>
  BY DEF SendSms, SendElsewhere, CallsTool, IInv, FilesOK
<1>2. UNCHANGED <<tasks, context, landed>> /\ active # NoTurn
  BY DEF SendSms, SendElsewhere, CallsTool, tasks
<1>3. \/ active' = [active EXCEPT !.open = TRUE, !.sends = @ + 1]
      \/ \E outcome \in {"blocked", "terminal"} :
           active' = [active EXCEPT !.seen = Note(@, outcome), !.sends = @ + 1]
  BY DEF SendSms, SendElsewhere
<1>4. active \in TurnRows
  BY DEF VInv, TurnOfTask
<1>5. /\ active' \in TurnRows /\ active'.call = active.call /\ active'.kind = active.kind
      /\ active'.attempt = active.attempt
      /\ active'.seen = "success" => active.seen = "success"
  <2>0. PICK n \in Nat : n = active.sends + 1
    <3>1. active.sends \in Nat
      BY <1>4 DEF TurnRows
    <3> QED  BY <3>1
  <2>1. CASE active' = [active EXCEPT !.open = TRUE, !.sends = @ + 1]
    <3>1. active' = [active EXCEPT !.open = TRUE, !.sends = n]
      BY <2>0, <2>1
    <3> QED  BY <1>4, <3>1, Opened
  <2>2. CASE \E outcome \in {"blocked", "terminal"} :
               active' = [active EXCEPT !.seen = Note(@, outcome), !.sends = @ + 1]
    <3>1. PICK outcome \in {"blocked", "terminal"} :
            active' = [active EXCEPT !.seen = Note(@, outcome), !.sends = @ + 1]
      BY <2>2
    <3>2. PICK old \in {"none", "blocked", "success", "recoverable", "terminal"} : old = active.seen
      BY <1>4 DEF TurnRows
    <3>3. PICK new \in {"none", "blocked", "success", "recoverable", "terminal"} :
            new = Note(old, outcome) /\ (new = "success" => old = "success")
      BY Notes
    <3>4. active' = [active EXCEPT !.seen = new, !.sends = n]
      BY <2>0, <3>1, <3>2, <3>3
    <3>5. /\ active' \in TurnRows /\ active'.call = active.call /\ active'.kind = active.kind
          /\ active'.attempt = active.attempt /\ active'.seen = new
      BY <1>4, <3>4 DEF TurnRows
    <3> QED  BY <3>2, <3>3, <3>5
  <2> QED  BY <1>3, <2>1, <2>2
<1>6. \A d \in Calls, b \in Attempts : attempt'[d][b] = "success" => attempt[d][b] = "success"
  <2>1. attempt' = attempt \/ attempt' = [attempt EXCEPT ![c][a] = "pending"]
        \/ attempt' = [attempt EXCEPT ![c][a] = "terminal"]
    BY <1>1 DEF SendSms, SendElsewhere, Settle
  <2> QED  BY <2>1 DEF IInv, FilesOK
<1>7. SuccessIsTrue'
  BY <1>2, <1>5, <1>6 DEF VInv, SuccessIsTrue
<1> QED  BY <1>2, <1>5, <1>7, NotesOnly

\* What was accepted stays accepted.
LEMMA AcceptanceStays ==
  ASSUME IInv, NEW c \in Calls, NEW a \in Attempts, NEW arrives \in BOOLEAN,
         landed' = IF arrives THEN [landed EXCEPT ![c][a] = @ + 1] ELSE landed
  PROVE  /\ \A d \in Calls, b \in Attempts : landed[d][b] > 0 => landed'[d][b] > 0
         /\ arrives => landed'[c][a] > 0
BY DEF IInv, FilesOK

LEMMA SendEndsVerdict ==
  ASSUME IInv, VInv, IInv', NEW c \in Calls, NEW a \in Attempts, NEW arrives \in BOOLEAN,
         NEW outcome \in {"success", "recoverable", "terminal"},
         SendEnds(c, a, outcome, arrives)
  PROVE  VInv'
<1>1. /\ UNCHANGED <<tasks, context>> /\ Settle(c, a, outcome) /\ (outcome = "success" => arrives)
      /\ landed' = IF arrives THEN [landed EXCEPT ![c][a] = @ + 1] ELSE landed
  BY DEF SendEnds, tasks
<1>2. \/ active' = active
      \/ /\ active.open /\ context = <<c, a>>
         /\ active' = [active EXCEPT !.open = FALSE, !.seen = Note(@, outcome)]
  BY DEF SendEnds
<1>3. active \in TurnRows
  BY DEF VInv, TurnOfTask
<1>4. /\ active' \in TurnRows /\ active'.call = active.call /\ active'.kind = active.kind
      /\ active'.attempt = active.attempt
      /\ active'.seen = "success" =>
           active.seen = "success" \/ (outcome = "success" /\ context = <<c, a>>)
  <2>1. CASE active' = active
    BY <1>3, <2>1
  <2>2. CASE /\ active.open /\ context = <<c, a>>
             /\ active' = [active EXCEPT !.open = FALSE, !.seen = Note(@, outcome)]
    <3>1. PICK old \in {"none", "blocked", "success", "recoverable", "terminal"} : old = active.seen
      BY <1>3 DEF TurnRows
    <3>2. PICK new \in {"none", "blocked", "success", "recoverable", "terminal"} :
            new = Note(old, outcome) /\ (new = "success" => old = "success" \/ outcome = "success")
      BY Notes
    <3>3. active' = [active EXCEPT !.open = FALSE, !.seen = new]
      BY <2>2, <3>1, <3>2
    <3>4. /\ active' \in TurnRows /\ active'.call = active.call /\ active'.kind = active.kind
          /\ active'.attempt = active.attempt /\ active'.seen = new
      BY <1>3, <3>3 DEF TurnRows
    <3> QED  BY <2>2, <3>1, <3>2, <3>4
  <2> QED  BY <1>2, <2>1, <2>2
<1>5. /\ \A d \in Calls, b \in Attempts : landed[d][b] > 0 => landed'[d][b] > 0
      /\ arrives => landed'[c][a] > 0
  BY <1>1, AcceptanceStays
<1>6. \A d \in Calls, b \in Attempts :
        attempt'[d][b] = "success" => attempt[d][b] = "success" \/ (d = c /\ b = a /\ outcome = "success")
  BY <1>1 DEF Settle, IInv, FilesOK
<1>7. SuccessIsTrue'
  <2>1. \A d \in Calls, b \in Attempts : attempt'[d][b] = "success" => landed'[d][b] > 0
    BY <1>1, <1>5, <1>6 DEF VInv, SuccessIsTrue
  <2>2. ASSUME active'.attempt # 0, active'.seen = "success"
        PROVE  landed'[active'.call][active'.attempt] > 0
    <3>1. active.attempt \in Attempts /\ active.call \in Calls /\ context = <<active.call,
                                                                              active.attempt>>
      BY <1>3, <1>4, <2>2 DEF VInv, TurnOfTask, TurnRows
    <3>2. CASE active.seen = "success"
      BY <1>4, <1>5, <3>1, <3>2 DEF VInv, SuccessIsTrue
    <3>3. CASE outcome = "success" /\ context = <<c, a>>
      BY <1>1, <1>4, <1>5, <3>1, <3>3
    <3> QED  BY <1>4, <2>2, <3>2, <3>3
  <2> QED  BY <2>1, <2>2 DEF SuccessIsTrue
<1>8. active = NoTurn => active' = NoTurn
  BY <1>2 DEF NoTurn
<1> QED  BY <1>1, <1>4, <1>5, <1>7, <1>8, NotesOnly

LEMMA ToolDiesVerdict ==
  ASSUME IInv, VInv, IInv', NEW c \in Calls, NEW a \in Attempts, NEW arrives \in BOOLEAN,
         ToolDies(c, a, arrives)
  PROVE  VInv'
<1>1. /\ UNCHANGED <<tasks, context, attempt, active>>
      /\ landed' = IF arrives THEN [landed EXCEPT ![c][a] = @ + 1] ELSE landed
  BY DEF ToolDies, tasks
<1>2. \A d \in Calls, b \in Attempts : landed[d][b] > 0 => landed'[d][b] > 0
  BY <1>1, AcceptanceStays
<1>3. active' \in TurnRows
  BY <1>1 DEF VInv, TurnOfTask
<1>4. SuccessIsTrue'
  <2>1. active.attempt # 0 => active.call \in Calls /\ active.attempt \in Attempts
    BY DEF VInv, TurnOfTask, TurnRows
  <2> QED  BY <1>1, <1>2, <2>1 DEF VInv, SuccessIsTrue
<1> QED  BY <1>1, <1>2, <1>3, <1>4, NotesOnly

\* The process opens its doors; while it was down nothing ran.
LEMMA OpensVerdict == ASSUME IInv, VInv, Listen \/ OpenSessions PROVE VInv'
<1>1. /\ UNCHANGED <<registry, attempt, landed, sending, job, table, active, context, deliveries,
                     stops>>
      /\ phase \in {"down", "listening"} /\ phase' \in {"listening", "ready"}
      /\ owner' = owner \/ (owner' = owner + 1 /\ phase = "down")
  BY DEF Listen, OpenSessions
<1>2. TablesOK'
  BY <1>1 DEF VInv, TablesOK
<1>3. TurnOfTask' /\ PlainOwesNone' /\ CompletedWasSent' /\ SuccessIsTrue' /\ Asleep'
  BY <1>1, HostedAssumption
     DEF VInv, TurnOfTask, PlainOwesNone, CompletedWasSent, SuccessIsTrue, Asleep
<1>4. FullIsKnown'
  BY <1>1 DEF VInv, FullIsKnown, Asleep, Idle, Kinds, Deduped
<1>5. FixIsRecovery'
  BY <1>1 DEF VInv, FixIsRecovery
<1> QED  BY <1>2, <1>3, <1>4, <1>5 DEF VInv

LEMMA RecoverVerdict == ASSUME IInv, VInv, Recover PROVE VInv'
<1>1. /\ phase = "ready" /\ phase' = "recovered"
      /\ UNCHANGED <<attempt, landed, sending, owner, active, context, deliveries, stops>>
  BY DEF Recover
<1>2. \A c \in Calls : Verdict(c) \in {"skip", "correct", "block", "requeue"}
  BY DEF Verdict
<1>3. ASSUME NEW c \in Calls
      PROVE  /\ Verdict(c) \in {"correct", "requeue"} => table[c] = "none" /\ job[c]["full"] = "none"
             /\ job[c]["fix"] = "none"
  BY <1>1 DEF VInv, FullIsKnown, FixIsRecovery, Verdict
<1>4. ASSUME NEW c \in Calls
      PROVE  /\ Verdict(c) = "block" => registry'[c] = Entry("failed", FALSE, owner)
             /\ Verdict(c) = "requeue" => registry'[c] = Entry("queued", TRUE, owner)
             /\ Verdict(c) \notin {"block", "requeue"} => registry'[c] = registry[c]
             /\ Verdict(c) = "correct" => table'[c] = "fix" /\ job'[c] = [job[c] EXCEPT !["fix"] = "new"]
             /\ Verdict(c) = "requeue" => table'[c] = "full" /\ job'[c] = [job[c] EXCEPT !["full"] = "new"]
             /\ Verdict(c) \notin {"correct", "requeue"} => table'[c] = table[c] /\ job'[c] = job[c]
  <2>1. /\ registry' = [d \in Calls |-> CASE Verdict(d) = "block" -> Entry("failed", FALSE, owner)
                                          [] Verdict(d) = "requeue" -> Entry("queued", TRUE, owner)
                                          [] OTHER -> registry[d]]
        /\ table' = [d \in Calls |-> CASE Verdict(d) = "correct" -> "fix"
                                       [] Verdict(d) = "requeue" -> "full"
                                       [] OTHER -> table[d]]
        /\ job' = [d \in Calls |-> CASE Verdict(d) = "correct" -> [job[d] EXCEPT !["fix"] = "new"]
                                     [] Verdict(d) = "requeue" -> [job[d] EXCEPT !["full"] = "new"]
                                     [] OTHER -> job[d]]
    BY DEF Recover
  <2> HIDE DEF Verdict
  <2> QED  BY <1>2, <2>1 DEF Recover
<1> HIDE DEF Verdict
<1>5. TablesOK'
  <2>1. ASSUME NEW c \in Calls
        PROVE  registry'[c] \in [state : {"none", "queued", "running", "completed", "failed"},
                                 retryable : BOOLEAN, owner : Nat]
    <3>1. owner \in Nat
          /\ registry[c] \in [state : {"none", "queued", "running", "completed", "failed"},
                                              retryable : BOOLEAN, owner : Nat]
      BY DEF VInv, TablesOK
    <3>2. \/ registry'[c] = Entry("failed", FALSE, owner) \/ registry'[c] = Entry("queued", TRUE, owner)
          \/ registry'[c] = registry[c]
      BY <1>4
    <3>3. CASE registry'[c] = registry[c]
      BY <3>1, <3>3
    <3>4. CASE registry'[c] = Entry("failed", FALSE, owner)
      BY <3>1, <3>4 DEF Entry
    <3>5. CASE registry'[c] = Entry("queued", TRUE, owner)
      BY <3>1, <3>5 DEF Entry
    <3> QED  BY <3>2, <3>3, <3>4, <3>5
  <2>2. ASSUME NEW c \in Calls
        PROVE  job'[c] \in [Kinds -> Steps] /\ table'[c] \in Kinds \cup {"none"}
    <3>1. job[c] \in [Kinds -> Steps] /\ table[c] \in Kinds \cup {"none"}
      BY DEF VInv, TablesOK
    <3>2. [job[c] EXCEPT !["fix"] = "new"] \in [Kinds -> Steps] /\ "fix" \in Kinds /\ "full" \in Kinds
          /\ [job[c] EXCEPT !["full"] = "new"] \in [Kinds -> Steps]
      BY <3>1 DEF Kinds, Steps
    <3> QED  BY <1>2, <1>4, <3>1, <3>2
  <2>3. /\ registry' = [c \in Calls |-> registry'[c]] /\ table' = [c \in Calls |-> table'[c]]
        /\ job' = [c \in Calls |-> job'[c]]
    BY DEF Recover
  <2> QED  BY <1>1, <2>1, <2>2, <2>3 DEF VInv, TablesOK
<1>6. ASSUME NEW c \in Calls, NEW k \in Kinds
      PROVE  job'[c][k] = job[c][k] \/ (job'[c][k] = "new" /\ job[c][k] = "none")
  <2>1. job[c] \in [Kinds -> Steps] /\ k \in {"full", "fix"}
    BY DEF VInv, TablesOK, Kinds
  <2>2. CASE Verdict(c) = "correct"
    BY <1>3, <1>4, <2>1, <2>2 DEF Kinds
  <2>3. CASE Verdict(c) = "requeue"
    BY <1>3, <1>4, <2>1, <2>3 DEF Kinds
  <2>4. CASE Verdict(c) \notin {"correct", "requeue"}
    BY <1>4, <2>4
  <2> QED  BY <2>2, <2>3, <2>4
<1>7. TurnOfTask'
  BY <1>1, <1>6, SameTurn
<1>8. PlainOwesNone'
  BY <1>6 DEF VInv, PlainOwesNone
<1>9. FullIsKnown'
  <2> SUFFICES ASSUME NEW c \in Calls, job'[c]["full"] # "none"
               PROVE  table'[c] = "full" /\ Deduped(c)'
    BY DEF FullIsKnown
  <2>1. CASE Verdict(c) = "requeue"
    <3>1. registry'[c] = Entry("queued", TRUE, owner) /\ table'[c] = "full"
      BY <1>4, <2>1
    <3> QED  BY <1>1, <3>1 DEF Entry, Deduped
  <2>2. CASE Verdict(c) = "correct"
    <3>1. job'[c]["full"] = job[c]["full"]
      <4>1. job'[c] = [job[c] EXCEPT !["fix"] = "new"]
        BY <1>4, <2>2
      <4>2. job[c] \in [Kinds -> Steps]
        BY DEF VInv, TablesOK
      <4> QED  BY <4>1, <4>2 DEF Kinds
    <3> QED  BY <1>3, <2>2, <3>1
  <2>3. CASE Verdict(c) = "block"
    <3>1. registry'[c] = Entry("failed", FALSE, owner) /\ table'[c] = table[c] /\ job'[c] = job[c]
      BY <1>4, <2>3
    <3>2. Deduped(c)'
      BY <3>1 DEF Entry, Deduped
    <3> QED  BY <3>1, <3>2 DEF VInv, FullIsKnown
  <2>4. CASE Verdict(c) = "skip"
    <3>1. registry'[c] = registry[c] /\ table'[c] = table[c] /\ job'[c] = job[c]
      BY <1>4, <2>4
    <3> QED  BY <1>1, <3>1 DEF VInv, FullIsKnown, Deduped
  <2> QED  BY <1>2, <2>1, <2>2, <2>3, <2>4
<1>10. FixIsRecovery' /\ Asleep'
  BY <1>1 DEF FixIsRecovery, Asleep
<1>11. SuccessIsTrue'
  BY <1>1, SameNotes
<1>12. CompletedWasSent'
  <2>1. ASSUME NEW c \in Calls, registry'[c].state = "completed"
        PROVE  registry[c].state = "completed"
    <3>1. \/ registry'[c] = Entry("failed", FALSE, owner) \/ registry'[c] = Entry("queued", TRUE, owner)
          \/ registry'[c] = registry[c]
      BY <1>4
    <3> QED  BY <2>1, <3>1 DEF Entry
  <2> QED  BY <1>1, <2>1, HostedAssumption DEF VInv, CompletedWasSent
<1> QED  BY <1>5, <1>7, <1>8, <1>9, <1>10, <1>11, <1>12 DEF VInv

LEMMA DownVerdict == ASSUME IInv, VInv, Crash \/ Stop PROVE VInv'
<1>1. /\ phase' = "down" /\ active' = NoTurn /\ stops' = stops + 1 /\ stops < MaxCrashes
      /\ job' = [c \in Calls |-> [k \in Kinds |-> "none"]] /\ table' = [c \in Calls |-> "none"]
      /\ UNCHANGED <<attempt, landed, owner, deliveries>>
  BY DEF Crash, Stop, Down
<1>2. \A c \in Calls : registry'[c] = registry[c] \/ registry'[c] = Entry("failed", FALSE, owner)
  BY DEF Crash, Stop
<1>3. TablesOK'
  <2>1. registry' \in [Calls -> [state : {"none", "queued", "running", "completed", "failed"},
                                 retryable : BOOLEAN, owner : Nat]]
    <3>1. owner \in Nat
          /\ registry \in [Calls -> [state : {"none", "queued", "running", "completed", "failed"},
                                     retryable : BOOLEAN, owner : Nat]]
      BY DEF VInv, TablesOK
    <3>2. CASE Crash
      BY <3>1, <3>2 DEF Crash
    <3>3. CASE Stop
      <4>1. registry' = [c \in Calls |-> IF GivesUp(c) THEN [state |-> "failed", retryable |-> FALSE,
                                                            owner |-> owner]
                                         ELSE registry[c]]
        BY <3>3 DEF Stop, Entry
      <4> HIDE DEF GivesUp
      <4> QED  BY <3>1, <4>1
    <3> QED  BY <3>2, <3>3
  <2>2. /\ job' \in [Calls -> [Kinds -> Steps]] /\ table' \in [Calls -> Kinds \cup {"none"}]
    BY <1>1 DEF Steps
  <2>3. stops' \in 0 .. MaxCrashes
    BY <1>1, HostedAssumption DEF VInv, TablesOK
  <2> QED  BY <1>1, <2>1, <2>2, <2>3 DEF VInv, TablesOK
<1>4. TurnOfTask' /\ SuccessIsTrue'
  BY <1>1, HostedAssumption, SameNotes DEF TurnOfTask, TurnRows, NoTurn
<1>5. PlainOwesNone' /\ FullIsKnown' /\ FixIsRecovery' /\ Asleep'
  BY <1>1 DEF PlainOwesNone, FullIsKnown, FixIsRecovery, Asleep, Idle, Kinds
<1>6. CompletedWasSent'
  <2>1. ASSUME NEW c \in Calls, registry'[c].state = "completed"
        PROVE  registry[c].state = "completed"
    BY <1>2, <2>1 DEF Entry
  <2> QED  BY <1>1, <2>1, HostedAssumption DEF VInv, CompletedWasSent
<1> QED  BY <1>3, <1>4, <1>5, <1>6 DEF VInv

LEMMA InitVerdict == Init => VInv
<1> SUFFICES ASSUME Init PROVE VInv
  OBVIOUS
<1>1. TablesOK
  BY HostedAssumption DEF Init, TablesOK, NoEntry, Entry, Steps
<1>2. TurnOfTask
  BY HostedAssumption DEF Init, TurnOfTask, TurnRows, NoTurn
<1>3. PlainOwesNone /\ FullIsKnown /\ FixIsRecovery /\ Asleep
  BY DEF Init, PlainOwesNone, FullIsKnown, FixIsRecovery, Asleep, Idle, Kinds
<1>4. SuccessIsTrue /\ CompletedWasSent
  BY HostedAssumption DEF Init, SuccessIsTrue, CompletedWasSent, NoTurn, NoEntry, Entry
<1> QED  BY <1>1, <1>2, <1>3, <1>4 DEF VInv

LEMMA NextVerdict == ASSUME IInv, VInv, IInv', [Next]_vars PROVE VInv'
<1>1. CASE \E c \in Calls : CallEnded(c)
  BY <1>1, CallEndedVerdict
<1>2. ASSUME NEW c \in Calls, NEW k \in Kinds,
             Begin(c, k) \/ Gather(c, k) \/ StartTurn(c, k) \/ DropQueued(c, k)
      PROVE  VInv'
  BY <1>2, BeginVerdict, GatherVerdict, StartTurnVerdict, DropQueuedVerdict
<1>3. CASE EndTurn \/ FailTurn \/ OrdinaryTurn \/ OrdinaryEnds
  BY <1>3, EndTurnVerdict, FailTurnVerdict, OrdinaryVerdict
<1>4. CASE SendSms \/ SendElsewhere
  BY <1>4, ToolVerdict
<1>5. ASSUME NEW c \in Calls, NEW a \in Attempts, Send(c, a) PROVE VInv'
  BY <1>5, SendEndsVerdict, ToolDiesVerdict DEF Send
<1>6. CASE Listen \/ OpenSessions \/ Recover \/ Crash \/ Stop
  BY <1>6, OpensVerdict, RecoverVerdict, DownVerdict
<1>7. CASE UNCHANGED vars
  BY <1>7 DEF vars, VInv, TablesOK, TurnOfTask, PlainOwesNone, FullIsKnown, FixIsRecovery, Deduped,
              Asleep, Idle, SuccessIsTrue, CompletedWasSent
<1> QED  BY <1>1, <1>2, <1>3, <1>4, <1>5, <1>6, <1>7 DEF Next

\* In every behaviour a task at work is known to the registry, and a turn to its task.
THEOREM Verdicts == Spec => []VInv
<1>1. IInv /\ VInv /\ [Next]_vars => VInv'
  BY NextStep, NextVerdict
<1> QED  BY <1>1, InitVerdict, Invariant, PTL DEF Spec

\* The files, the registry, the tasks and the turn always hold values of their types.
THEOREM Typing == Spec => []TypeOK
<1>1. IInv /\ VInv => TypeOK
  BY DEF IInv, VInv, FilesOK, TablesOK, TurnOfTask, TurnRows, TypeOK
<1> QED  BY <1>1, Invariant, Verdicts, PTL

\* What is settled and has no task is no business of any step.
LEMMA SettledStays ==
  ASSUME IInv, VInv, [Next]_vars, NEW c \in Calls, Settled(c)
  PROVE  registry'[c] = registry[c] /\ Idle(c)'
<1> DEFINE Left == registry'[c] = registry[c] /\ Idle(c)'
<1>1. /\ \A k \in Kinds : job[c][k] = "none"
      /\ Deduped(c) /\ ~Replayable(registry[c])
      /\ active.call # c
  BY HostedAssumption DEF Settled, Idle, Deduped, Replayable, VInv, TurnOfTask, StepOf
<1>3. ASSUME NEW d \in Calls, CallEnded(d) PROVE Left
  <2>1. CASE d = c
    BY <1>1, <1>3, <2>1 DEF CallEnded, Deduped, Idle
  <2>2. CASE d # c
    <3>1. CASE UNCHANGED <<registry, job, table>>
      BY <1>1, <3>1 DEF Idle
    <3>2. CASE Write(d, "queued", TRUE) /\ Schedule(d, "full")
      <4>1. registry'[c] = registry[c] /\ job'[c] = job[c]
        BY <2>2, <3>2 DEF Write, Schedule, VInv, TablesOK
      <4> QED  BY <1>1, <4>1 DEF Idle
    <3> QED  BY <1>3, <3>1, <3>2 DEF CallEnded
  <2> QED  BY <2>1, <2>2
<1>4. ASSUME NEW d \in Calls, NEW k \in Kinds,
             Begin(d, k) \/ Gather(d, k) \/ StartTurn(d, k) \/ DropQueued(d, k)
      PROVE  Left
  <2>1. d # c
    BY <1>1, <1>4 DEF Begin, Gather, Gathered, GatherFails, NoEvidence, StartTurn, DropQueued, Kinds
  <2>2. registry'[c] = registry[c]
    <3>1. \/ registry' = registry \/ \E s, retry : Write(d, s, retry)
      BY <1>4 DEF Begin, Gather, Gathered, GatherFails, NoEvidence, StartTurn, DropQueued, Conclude
    <3> QED  BY <2>1, <3>1 DEF Write, VInv, TablesOK
  <2>3. job'[c] = job[c]
    <3>1. \E j \in Kinds : \E s : job' = [job EXCEPT ![d][j] = s]
      BY <1>4
         DEF Begin, Gather, Gathered, GatherFails, NoEvidence, StartTurn, DropQueued, Conclude,
             Discard,
                  Kinds
    <3> QED  BY <2>1, <3>1 DEF VInv, TablesOK
  <2> QED  BY <1>1, <2>2, <2>3 DEF Idle
<1>5. CASE EndTurn \/ FailTurn
  <2>1. PICK d \in Calls, j \in Kinds : d = active.call /\ j = active.kind
    BY <1>5 DEF EndTurn, FailTurn, VInv, TurnOfTask
  <2>2. /\ registry' = registry \/ \E s, retry : Write(d, s, retry)
        /\ \E s : job' = [job EXCEPT ![d][j] = s]
    <3>1. CASE EndTurn
      BY <2>1, <3>1 DEF EndTurn, Conclude, Discard
    <3>2. CASE FailTurn
      BY <2>1, <3>2 DEF FailTurn, Discard
    <3> QED  BY <1>5, <3>1, <3>2
  <2>3. registry'[c] = registry[c] /\ job'[c] = job[c]
    BY <1>1, <2>1, <2>2 DEF Write, VInv, TablesOK
  <2> QED  BY <1>1, <2>3 DEF Idle
<1>6. CASE \/ OrdinaryTurn \/ OrdinaryEnds \/ SendSms \/ SendElsewhere \/ Listen \/ OpenSessions
           \/ UNCHANGED vars
  BY <1>1, <1>6
     DEF OrdinaryTurn, OrdinaryEnds, SendSms, SendElsewhere, Listen, OpenSessions, vars, Idle
<1>7. ASSUME NEW d \in Calls, NEW a \in Attempts, Send(d, a) PROVE Left
  BY <1>1, <1>7 DEF Send, SendEnds, ToolDies, Idle
<1>8. CASE Recover
  <2>1. Verdict(c) = "skip"
    BY <1>1 DEF Verdict
  <2>2. registry'[c] = registry[c] /\ job'[c] = job[c]
    BY <1>8, <2>1 DEF Recover
  <2> QED  BY <1>1, <2>2 DEF Idle
<1>9. CASE Crash \/ Stop
  <2>1. ~GivesUp(c)
    BY <1>1 DEF GivesUp, Kinds
  <2>2. registry'[c] = registry[c]
    BY <1>9, <2>1 DEF Crash, Stop
  <2>3. job'[c] = [k \in Kinds |-> "none"]
    BY <1>9 DEF Crash, Stop, Down
  <2> QED  BY <2>2, <2>3 DEF Idle
<1> QED  BY <1>3, <1>4, <1>5, <1>6, <1>7, <1>8, <1>9 DEF Next

\* The registry's verdict on a call is true and final: "completed" is said of a promised SMS only
\* when the provider accepted it, and a call that is settled is left alone by redelivered
\* call.ended events, by the recovery of a start and by the tasks of other calls.
THEOREM VerdictsAreFinal == Spec => VerdictIsFinal
<1>1. VInv => CompletedWasSent
  BY DEF VInv
<1>2. IInv /\ VInv /\ [Next]_vars
        => [\A c \in Calls : Settled(c) => registry'[c] = registry[c] /\ Idle(c)']_vars
  BY SettledStays
<1> QED
  BY <1>1, <1>2, Invariant, Verdicts, PTL DEF Spec, VerdictIsFinal, SettledIsLeftAlone
-----------------------------------------------------------------------------
(* The bridge of a voice call *)

Entries == [response : {"none", "active", "past"}, audio : BOOLEAN, transcript : BOOLEAN,
            timer : BOOLEAN, owned : BOOLEAN]

\* A call has a task once it was dispatched, and was not answered before its task ended.
TaskInv == \A c \in ToolCalls : c \notin dispatched => task[c] = "none"
Before == {"none", "started", "consulting", "submitting", "answering", "confirming"}
ResultInv == \A c \in ToolCalls : results[c] <= 1 /\ (task[c] \in Before => results[c] = 0)

\* A consult is pending while its task works on it, and no response, timer or place in the
\* queue is that of a consult whose output was not submitted.
Early == {"none", "started", "consulting", "submitting"}
ConsultInv ==
  \A c \in Consults :
    /\ task[c] \in Early \ {"none"} => pending[c].owned
    /\ task[c] \in Early => /\ ~pending[c].timer /\ pending[c].response = "none"
                            /\ \A i \in DOMAIN awaiting : awaiting[i] # c

\* A consult is queued once, and pending as long as it is.
QueueOnce ==
  /\ \A i, k \in DOMAIN awaiting : awaiting[i] = awaiting[k] => i = k
  /\ \A i \in DOMAIN awaiting : pending[awaiting[i]].owned

\* As long as the bridge runs, a consult is pending or it is known what became of it.
FateInv ==
  closed \notin {"torn", "over"} =>
    \A c \in Consults \cap dispatched : pending[c].owned \/ fate[c] # "none"

\* From the moment a hangup is under way, what was called before it is settled.
HangInv ==
  /\ hanging # "none" \/ stopped =>
       \A c \in (Consults \cap dispatched) \ late : ~pending[c].owned /\ fate[c] # "none"
  /\ stopped => closed \in {"closed", "torn", "over"}

BridgeInv ==
  BridgeTypeOK /\ TaskInv /\ ResultInv /\ ConsultInv /\ QueueOnce /\ FateInv /\ HangInv
-----------------------------------------------------------------------------
LEMMA BridgeStarts == BridgeInit => BridgeInv
<1> SUFFICES ASSUME BridgeInit PROVE BridgeInv
  OBVIOUS
<1>1. Consults \subseteq ToolCalls /\ \A s \in Scenes : s.talk \in Nat
  BY BridgeAssumption DEF Consults
<1>2. BridgeTypeOK
  <2>1. <<>> \in Seq(Consults) /\ <<>> \in Seq(ToolCalls \cup {Other})
    BY EmptySeq
  <2>2. pending \in [Consults -> Entries]
    BY DEF BridgeInit, NoConsult, Entries
  <2> QED  BY <1>1, <2>1, <2>2 DEF BridgeInit, BridgeTypeOK, Entries
<1>3. TaskInv /\ ResultInv /\ FateInv /\ HangInv
  BY <1>1 DEF BridgeInit, TaskInv, ResultInv, FateInv, HangInv
<1>4. ConsultInv /\ QueueOnce
  BY <1>1 DEF BridgeInit, ConsultInv, QueueOnce, NoConsult
<1> QED  BY <1>2, <1>3, <1>4 DEF BridgeInv

\* What RemoveAt leaves of a sequence.
LEMMA Removed ==
  ASSUME NEW S, NEW s \in Seq(S), NEW i \in 1 .. Len(s)
  PROVE  /\ RemoveAt(s, i) \in Seq(S) /\ Len(RemoveAt(s, i)) = Len(s) - 1
         /\ \A k \in 1 .. Len(s) - 1 : RemoveAt(s, i)[k] = IF k < i THEN s[k] ELSE s[k + 1]
<1>1. Len(s) \in Nat /\ \A k \in 1 .. Len(s) : s[k] \in S
  BY LenProperties
<1> DEFINE a == SubSeq(s, 1, i - 1)
           b == SubSeq(s, i + 1, Len(s))
<1>2. /\ a \in Seq(S) /\ Len(a) = i - 1
      /\ \A k \in 1 .. i - 1 : a[k] = s[k]
  <2>1. 1 \in Int /\ i - 1 \in Int /\ \A k \in 1 .. i - 1 : s[k] \in S
    BY <1>1
  <2>2. /\ a \in Seq(S) /\ Len(a) = IF 1 <= i - 1 THEN i - 1 - 1 + 1 ELSE 0
        /\ \A k \in 1 .. i - 1 - 1 + 1 : a[k] = s[1 + k - 1]
    BY <2>1, SubSeqProperties
  <2> HIDE DEF a
  <2> QED  BY <2>2
<1>3. /\ b \in Seq(S) /\ Len(b) = Len(s) - i
      /\ \A k \in 1 .. Len(s) - i : b[k] = s[i + k]
  <2>1. i + 1 \in Int /\ Len(s) \in Int /\ \A k \in i + 1 .. Len(s) : s[k] \in S
    BY <1>1
  <2>2. /\ b \in Seq(S) /\ Len(b) = IF i + 1 <= Len(s) THEN Len(s) - (i + 1) + 1 ELSE 0
        /\ \A k \in 1 .. Len(s) - (i + 1) + 1 : b[k] = s[i + 1 + k - 1]
    BY <2>1, SubSeqProperties
  <2>3. \A k \in 1 .. Len(s) - i : k \in 1 .. Len(s) - (i + 1) + 1 /\ i + 1 + k - 1 = i + k
    BY <1>1
  <2> HIDE DEF b
  <2> QED  BY <1>1, <2>2, <2>3
<1>4. /\ a \o b \in Seq(S) /\ Len(a \o b) = Len(a) + Len(b)
      /\ \A k \in 1 .. Len(a) + Len(b) :
           (a \o b)[k] = IF k <= Len(a) THEN a[k] ELSE b[k - Len(a)]
  <2> HIDE DEF a, b
  <2> QED  BY <1>2, <1>3, ConcatProperties
<1>5. RemoveAt(s, i) = a \o b
  BY DEF RemoveAt
<1> HIDE DEF a, b
<1>6. ASSUME NEW k \in 1 .. Len(s) - 1
      PROVE  (a \o b)[k] = IF k < i THEN s[k] ELSE s[k + 1]
  <2>1. CASE k < i
    <3>1. k \in 1 .. Len(a) + Len(b) /\ k <= Len(a) /\ k \in 1 .. i - 1
      BY <1>1, <1>2, <1>3, <2>1
    <3> QED  BY <1>2, <1>4, <2>1, <3>1
  <2>2. CASE ~(k < i)
    <3>1. /\ k \in 1 .. Len(a) + Len(b) /\ ~(k <= Len(a))
          /\ k - Len(a) \in 1 .. Len(s) - i /\ i + (k - Len(a)) = k + 1
      BY <1>1, <1>2, <1>3, <2>2
    <3>2. (a \o b)[k] = b[k - Len(a)]
      BY <1>4, <3>1
    <3>3. b[k - Len(a)] = s[k + 1]
      BY <1>3, <3>1
    <3> QED  BY <2>2, <3>2, <3>3
  <2> QED  BY <2>1, <2>2
<1>7. a \o b \in Seq(S) /\ Len(a \o b) = Len(s) - 1
  BY <1>1, <1>2, <1>3, <1>4
<1> QED  BY <1>5, <1>6, <1>7

\* The queue without a consult is what is left of it, in its order.
LEMMA WithoutIs ==
  ASSUME awaiting \in Seq(Consults), QueueOnce, NEW c \in Consults
  PROVE  /\ Without(c) \in Seq(Consults)
         /\ \A i \in DOMAIN Without(c) :
              Without(c)[i] # c /\ \E k \in DOMAIN awaiting : Without(c)[i] = awaiting[k]
         /\ \A i, k \in DOMAIN Without(c) : Without(c)[i] = Without(c)[k] => i = k
<1>1. Len(awaiting) \in Nat /\ DOMAIN awaiting = 1 .. Len(awaiting)
  BY LenProperties
<1>2. CASE \A i \in DOMAIN awaiting : awaiting[i] # c
  BY <1>2 DEF Without, QueueOnce
<1>3. CASE \E i \in DOMAIN awaiting : awaiting[i] = c
  <2>1. PICK p \in DOMAIN awaiting : Without(c) = RemoveAt(awaiting, p) /\ awaiting[p] = c
    BY <1>3, Zenon DEF Without
  <2> DEFINE w == RemoveAt(awaiting, p)
             From(i) == IF i < p THEN i ELSE i + 1
  <2>2. /\ w \in Seq(Consults) /\ DOMAIN w = 1 .. Len(awaiting) - 1
        /\ \A i \in 1 .. Len(awaiting) - 1 : w[i] = awaiting[From(i)]
    <3>1. /\ w \in Seq(Consults) /\ Len(w) = Len(awaiting) - 1
          /\ \A i \in 1 .. Len(awaiting) - 1 :
               w[i] = IF i < p THEN awaiting[i] ELSE awaiting[i + 1]
      BY <1>1, Removed, Zenon
    <3>2. DOMAIN w = 1 .. Len(w)
      <4> HIDE DEF w
      <4> QED  BY <3>1, LenProperties
    <3>3. Len(awaiting) - 1 = Len(w) /\ \A i \in 1 .. Len(awaiting) - 1 :
            w[i] = awaiting[From(i)]
      <4> HIDE DEF w
      <4> QED  BY <3>1
    <3> HIDE DEF w, From
    <3> QED  BY <3>1, <3>2, <3>3
  <2>3. \A i \in 1 .. Len(awaiting) - 1 : From(i) \in DOMAIN awaiting /\ From(i) # p
    BY <1>1, <2>1
  <2>4. \A i, k \in 1 .. Len(awaiting) - 1 : From(i) = From(k) => i = k
    BY <1>1, <2>1
  <2> HIDE DEF w, From
  <2>5. \A i \in DOMAIN w : w[i] # c /\ \E k \in DOMAIN awaiting : w[i] = awaiting[k]
    BY <2>1, <2>2, <2>3 DEF QueueOnce
  <2>6. \A i, k \in DOMAIN w : w[i] = w[k] => i = k
    BY <2>2, <2>3, <2>4 DEF QueueOnce
  <2> QED  BY <2>1, <2>2, <2>5, <2>6 DEF w
<1> QED  BY <1>2, <1>3

\* A hangup that begins leaves nobody behind: no consult is pending then.
LEMMA PerformStarts ==
  ASSUME NEW by, NEW owned, NEW wanted, Perform(by, owned, wanted)
  PROVE  hanging' = hanging \/ (hanging' = by /\ hanging = "none" /\ owned = {} /\ closed = "no")
BY DEF Perform, Blocked

\* What _finish_pending_consult does to a consult whose output was submitted or whose task
\* ends, and to the hangup that waited for it.
LEMMA FinishKeeps ==
  ASSUME BridgeInv, NEW c \in Consults, NEW by \in {"pump", "task"},
         NEW why \in {"read", "mistaken", "expired", "failed"}, Finish(c, by, why),
         task'[c] \notin Early, \A x \in ToolCalls \ {c} : task'[x] = task[x],
         closed' = closed, dispatched' = dispatched, late' = late
  PROVE  /\ pending' \in [Consults -> Entries] /\ awaiting' \in Seq(Consults)
         /\ fate' \in [Consults -> {"none", "read", "mistaken", "expired", "failed"}]
         /\ armed' \in BOOLEAN /\ deferred' \in BOOLEAN /\ stopped' \in BOOLEAN
         /\ hanging' \in {"none", "pump", "task"}
         /\ ConsultInv' /\ QueueOnce' /\ FateInv' /\ HangInv'
<1>1. /\ pending \in [Consults -> Entries] /\ awaiting \in Seq(Consults)
      /\ fate \in [Consults -> {"none", "read", "mistaken", "expired", "failed"}]
      /\ armed \in BOOLEAN /\ deferred \in BOOLEAN /\ stopped \in BOOLEAN
      /\ hanging \in {"none", "pump", "task"}
  BY DEF BridgeInv, BridgeTypeOK, Entries
<1>2. /\ pending' = [pending EXCEPT ![c] = NoConsult] /\ awaiting' = Without(c)
      /\ fate' = IF pending[c].owned THEN [fate EXCEPT ![c] = why] ELSE fate
      /\ Perform(by, Pending \ {c}, deferred)
      /\ armed' = armed /\ deferred' = deferred /\ stopped' = stopped
  BY DEF Finish
<1>3. NoConsult \in Entries /\ ~NoConsult.owned /\ ~NoConsult.timer /\ NoConsult.response = "none"
  BY DEF NoConsult, Entries
<1>4. /\ awaiting' \in Seq(Consults)
      /\ \A i \in DOMAIN awaiting' :
           awaiting'[i] # c /\ \E k \in DOMAIN awaiting : awaiting'[i] = awaiting[k]
      /\ \A i, k \in DOMAIN awaiting' : awaiting'[i] = awaiting'[k] => i = k
  BY <1>1, <1>2, WithoutIs DEF BridgeInv
<1>5. pending' \in [Consults -> Entries] /\ pending'[c] = NoConsult
      /\ \A x \in Consults \ {c} : pending'[x] = pending[x]
  BY <1>1, <1>2, <1>3
<1>6. /\ fate' \in [Consults -> {"none", "read", "mistaken", "expired", "failed"}]
      /\ \A x \in Consults : fate[x] # "none" => fate'[x] # "none"
      /\ pending[c].owned => fate'[c] # "none"
  BY <1>1, <1>2
<1>7. /\ hanging' \in {"none", "pump", "task"}
      /\ hanging' = hanging
           \/ (hanging' # "none" /\ closed = "no" /\ \A x \in Consults \ {c} : ~pending[x].owned)
  BY <1>1, <1>2, PerformStarts DEF Pending
<1>8. \A x \in Consults : x \in ToolCalls
  BY DEF Consults
<1>9. ConsultInv'
  <2> SUFFICES ASSUME NEW x \in Consults
               PROVE  /\ task'[x] \in Early \ {"none"} => pending'[x].owned
                      /\ task'[x] \in Early =>
                           /\ ~pending'[x].timer /\ pending'[x].response = "none"
                           /\ \A i \in DOMAIN awaiting' : awaiting'[i] # x
    BY DEF ConsultInv
  <2>1. CASE x = c
    BY <2>1
  <2>2. CASE x # c
    <3>1. task'[x] = task[x] /\ pending'[x] = pending[x]
      BY <1>5, <1>8, <2>2
    <3> QED  BY <1>4, <3>1 DEF BridgeInv, ConsultInv
  <2> QED  BY <2>1, <2>2
<1>10. QueueOnce'
  <2> SUFFICES ASSUME NEW i \in DOMAIN awaiting' PROVE pending'[awaiting'[i]].owned
    BY <1>4 DEF QueueOnce
  <2>1. PICK k \in DOMAIN awaiting : awaiting'[i] = awaiting[k] /\ awaiting[k] # c
    BY <1>4
  <2>2. awaiting[k] \in Consults /\ pending[awaiting[k]].owned
    BY <1>1, LenProperties DEF BridgeInv, QueueOnce
  <2> QED  BY <1>5, <2>1, <2>2
<1>11. \A x \in Consults : pending[x].owned \/ fate[x] # "none"
                             => pending'[x].owned \/ fate'[x] # "none"
  BY <1>5, <1>6
<1>12. FateInv'
  BY <1>11 DEF BridgeInv, FateInv
<1>13. HangInv'
  <2>1. CASE hanging' = hanging
    <3>1. \A x \in Consults : ~pending[x].owned /\ fate[x] # "none"
                               => ~pending'[x].owned /\ fate'[x] # "none"
      BY <1>3, <1>5, <1>6
    <3> QED  BY <1>2, <2>1, <3>1 DEF BridgeInv, HangInv
  <2>2. CASE closed = "no" /\ \A x \in Consults \ {c} : ~pending[x].owned
    <3>1. \A x \in Consults : ~pending'[x].owned
      BY <1>3, <1>5, <2>2
    <3>2. \A x \in Consults \cap dispatched : fate'[x] # "none"
      BY <1>11, <2>2, <3>1 DEF BridgeInv, FateInv
    <3>3. ~stopped'
      BY <1>2, <2>2 DEF BridgeInv, HangInv
    <3> QED  BY <3>1, <3>2, <3>3 DEF HangInv
  <2> QED  BY <1>7, <2>1, <2>2
<1> QED  BY <1>1, <1>2, <1>4, <1>5, <1>6, <1>7, <1>9, <1>10, <1>12, <1>13
-----------------------------------------------------------------------------
\* A part of the invariant holds after a step that leaves what it reads alone.
LEMMA BridgeFramed ==
  ASSUME BridgeInv
  PROVE  /\ UNCHANGED <<dispatched, task>> => TaskInv'
         /\ UNCHANGED <<results, task>> => ResultInv'
         /\ UNCHANGED <<task, pending, awaiting>> => ConsultInv'
         /\ UNCHANGED <<pending, awaiting>> => QueueOnce'
         /\ UNCHANGED <<closed, dispatched, pending, fate>> => FateInv'
         /\ UNCHANGED <<closed, dispatched, pending, fate, hanging, stopped, late>> => HangInv'
BY DEF BridgeInv, TaskInv, ResultInv, ConsultInv, QueueOnce, FateInv, HangInv

LEMMA BridgeUntouched ==
  ASSUME BridgeInv, UNCHANGED bridgeVars
  PROVE  BridgeInv'
<1>1. UNCHANGED <<dispatched, task, results, pending, awaiting, fate, armed, deferred, hanging,
                  stopped, closed, requests, speaking, late, scene, talks, faults>>
  BY DEF bridgeVars, consulting, hangup, server, bounds
<1>2. BridgeTypeOK'
  BY <1>1 DEF BridgeInv, BridgeTypeOK
<1> QED  BY <1>1, <1>2, BridgeFramed DEF BridgeInv

LEMMA PhaseStep ==
  ASSUME BridgeInv, Opens \/ OpenFails \/ Accepts \/ AcceptFails \/ Ends \/ FollowsUp
  PROVE  BridgeInv'
<1>1. /\ UNCHANGED <<dispatched, task, results, pending, awaiting, fate, armed, deferred,
                     hanging, stopped, requests, speaking, late, scene, talks, faults>>
      /\ closed' \in {"opened", "refused", "no", "closed", "over"}
      /\ closed \in {"closed", "torn", "over"} => closed' = "over" /\ closed = "torn"
      /\ closed' = "over" => closed = "torn"
  BY DEF Opens, OpenFails, Accepts, AcceptFails, Ends, FollowsUp, Phase, consulting, hangup,
         server, bounds
<1>2. BridgeTypeOK'
  BY <1>1 DEF BridgeInv, BridgeTypeOK
<1>3. TaskInv' /\ ResultInv' /\ ConsultInv' /\ QueueOnce'
  BY <1>1, BridgeFramed
<1>4. FateInv' /\ HangInv'
  BY <1>1 DEF BridgeInv, FateInv, HangInv
<1> QED  BY <1>2, <1>3, <1>4 DEF BridgeInv

LEMMA ExpiresStep ==
  ASSUME BridgeInv, NEW c \in Consults, Expires(c)
  PROVE  BridgeInv'
<1>1. /\ Finish(c, "task", "expired") /\ pending[c].timer
      /\ UNCHANGED <<dispatched, task, results, closed, requests, speaking, late, scene, talks,
                     faults>>
  BY DEF Expires, server, bounds
<1>2. task'[c] \notin Early
  BY <1>1 DEF BridgeInv, ConsultInv
<1>3. /\ pending' \in [Consults -> Entries] /\ awaiting' \in Seq(Consults)
      /\ fate' \in [Consults -> {"none", "read", "mistaken", "expired", "failed"}]
      /\ armed' \in BOOLEAN /\ deferred' \in BOOLEAN /\ stopped' \in BOOLEAN
      /\ hanging' \in {"none", "pump", "task"}
      /\ ConsultInv' /\ QueueOnce' /\ FateInv' /\ HangInv'
  BY <1>1, <1>2, FinishKeeps
<1>4. BridgeTypeOK'
  BY <1>1, <1>3 DEF BridgeInv, BridgeTypeOK, Entries
<1>5. TaskInv' /\ ResultInv'
  BY <1>1, BridgeFramed
<1> QED  BY <1>3, <1>4, <1>5 DEF BridgeInv

LEMMA StopFrameStep ==
  ASSUME BridgeInv, StopFrame
  PROVE  BridgeInv'
<1>1. /\ UNCHANGED <<dispatched, task, results, pending, awaiting, fate, armed, deferred,
                     requests, speaking, late, scene, talks>>
      /\ hanging # "none" /\ hanging' = "none" /\ stopped' \in {stopped, TRUE}
      /\ \/ closed # "no" /\ closed' = closed /\ stopped' = stopped
         \/ closed = "no" /\ closed' = "closed"
      /\ faults' \in {faults, faults + 1}
  BY DEF StopFrame, consulting, server
<1>2. BridgeTypeOK'
  <2>1. faults' \in Nat /\ stopped' \in BOOLEAN
    <3>1. faults \in Nat /\ stopped \in BOOLEAN
      BY DEF BridgeInv, BridgeTypeOK
    <3>2. faults' \in {faults, faults + 1} /\ (stopped' = stopped \/ stopped' = TRUE)
      BY <1>1
    <3>3. faults' \in Nat
      BY <3>1, <3>2
    <3>4. stopped' \in BOOLEAN
      BY <3>1, <3>2, Zenon
    <3> QED  BY <3>3, <3>4
  <2>2. closed' \in {"opening", "opened", "no", "closed", "torn", "over", "refused"}
    BY <1>1 DEF BridgeInv, BridgeTypeOK
  <2> QED  BY <1>1, <2>1, <2>2 DEF BridgeInv, BridgeTypeOK
<1>3. TaskInv' /\ ResultInv' /\ ConsultInv' /\ QueueOnce'
  BY <1>1, BridgeFramed
<1>4. FateInv'
  BY <1>1 DEF BridgeInv, FateInv
<1>5. HangInv'
  BY <1>1 DEF BridgeInv, HangInv
<1> QED  BY <1>2, <1>3, <1>4, <1>5 DEF BridgeInv

LEMMA WindowStep ==
  ASSUME BridgeInv, WindowCloses \/ Refuses
  PROVE  BridgeInv'
<1>1. /\ UNCHANGED <<dispatched, task, results, pending, awaiting, fate, deferred, hanging,
                     stopped, closed, speaking, late, scene, talks, faults>>
      /\ armed' \in {armed, FALSE}
      /\ requests' = requests \/ (requests # <<>> /\ requests' = Tail(requests))
  BY DEF WindowCloses, Refuses, consulting, hangup, server, bounds
<1>2. BridgeTypeOK'
  <2>1. requests \in Seq(ToolCalls \cup {Other})
    BY DEF BridgeInv, BridgeTypeOK
  <2>2. requests' \in Seq(ToolCalls \cup {Other})
    BY <1>1, <2>1, HeadTailProperties
  <2> QED  BY <1>1, <2>2 DEF BridgeInv, BridgeTypeOK
<1> QED  BY <1>1, <1>2, BridgeFramed DEF BridgeInv

LEMMA DispatchStep ==
  ASSUME BridgeInv, NEW c \in ToolCalls, Dispatch(c)
  PROVE  BridgeInv'
<1>1. /\ UNCHANGED <<results, awaiting, fate, armed, deferred, hanging, stopped, closed,
                     requests, speaking, scene, talks, faults>>
      /\ closed = "no" /\ c \notin dispatched /\ dispatched' = dispatched \cup {c}
      /\ pending' = Registered(c) /\ task' = [task EXCEPT ![c] = "started"]
      /\ late' = IF Tool[c] = "consult" /\ hanging # "none" THEN late \cup {c} ELSE late
  BY DEF Dispatch, Reading, Seen, hangup, server, bounds
<1>2. /\ task \in [ToolCalls -> {"none", "started", "consulting", "submitting", "requesting",
                                 "answering", "confirming", "over"}]
      /\ pending \in [Consults -> Entries] /\ task[c] = "none"
      /\ Consults = {x \in ToolCalls : Tool[x] = "consult"}
      /\ \A x \in ToolCalls : task'[x] = IF x = c THEN "started" ELSE task[x]
  BY <1>1 DEF BridgeInv, BridgeTypeOK, TaskInv, Entries, Consults
<1>3. /\ pending' \in [Consults -> Entries]
      /\ \A x \in Consults \ {c} : pending'[x] = pending[x]
      /\ c \in Consults => /\ pending'[c].owned /\ ~pending'[c].timer
                           /\ pending'[c].response = "none"
      /\ \A x \in Consults : pending[x].owned => pending'[x].owned
  <2>1. NewConsult \in Entries /\ NewConsult.owned /\ ~NewConsult.timer
        /\ NewConsult.response = "none"
    BY DEF NewConsult, NoConsult, Entries
  <2>2. CASE Tool[c] # "consult" \/ pending[c].owned
    BY <1>1, <1>2, <2>2 DEF Registered, BridgeInv, ConsultInv, Early
  <2>3. CASE ~(Tool[c] # "consult" \/ pending[c].owned)
    <3>1. pending' = [pending EXCEPT ![c] = NewConsult] /\ c \in Consults
      BY <1>1, <1>2, <2>3 DEF Registered
    <3> QED  BY <1>2, <2>1, <3>1
  <2> QED  BY <2>2, <2>3
<1>4. BridgeTypeOK'
  <2>1. late' \subseteq Consults /\ dispatched' \subseteq ToolCalls
    BY <1>1, <1>2 DEF BridgeInv, BridgeTypeOK
  <2>2. task' \in [ToolCalls -> {"none", "started", "consulting", "submitting", "requesting",
                                 "answering", "confirming", "over"}]
    BY <1>1, <1>2
  <2> QED  BY <1>1, <1>3, <2>1, <2>2 DEF BridgeInv, BridgeTypeOK, Entries
<1>5. TaskInv' /\ ResultInv'
  BY <1>1, <1>2 DEF BridgeInv, TaskInv, ResultInv, Before
<1>6. ConsultInv'
  <2> SUFFICES ASSUME NEW x \in Consults
               PROVE  /\ task'[x] \in Early \ {"none"} => pending'[x].owned
                      /\ task'[x] \in Early =>
                           /\ ~pending'[x].timer /\ pending'[x].response = "none"
                           /\ \A i \in DOMAIN awaiting : awaiting[i] # x
    BY <1>1 DEF ConsultInv
  <2>1. CASE x = c
    BY <1>2, <1>3, <2>1 DEF BridgeInv, ConsultInv, Early
  <2>2. CASE x # c
    BY <1>2, <1>3, <2>2 DEF BridgeInv, ConsultInv
  <2> QED  BY <2>1, <2>2
<1>7. QueueOnce'
  <2>1. \A i \in DOMAIN awaiting : awaiting[i] \in Consults
    BY LenProperties DEF BridgeInv, BridgeTypeOK
  <2> QED  BY <1>1, <1>3, <2>1 DEF BridgeInv, QueueOnce
<1>8. FateInv'
  BY <1>1, <1>3 DEF BridgeInv, FateInv
<1>9. HangInv'
  BY <1>1, <1>2, <1>3 DEF BridgeInv, HangInv
<1> QED  BY <1>4, <1>5, <1>6, <1>7, <1>8, <1>9 DEF BridgeInv

\* A task that moves on without touching the consults.
LEMMA TaskMoves ==
  ASSUME BridgeInv, NEW c \in ToolCalls, NEW to \in {"answering", "confirming", "over"},
         task[c] # "none", task' = [task EXCEPT ![c] = to],
         results' = results
           \/ (results' = [results EXCEPT ![c] = @ + 1] /\ task[c] \in Before /\ to = "over"),
         to # "over" => task[c] \in Before,
         UNCHANGED <<dispatched, pending, awaiting>>
  PROVE  /\ task' \in [ToolCalls -> {"none", "started", "consulting", "submitting", "requesting",
                                     "answering", "confirming", "over"}]
         /\ results' \in [ToolCalls -> Nat]
         /\ TaskInv' /\ ResultInv' /\ ConsultInv' /\ QueueOnce'
<1>1. /\ task \in [ToolCalls -> {"none", "started", "consulting", "submitting", "requesting",
                                 "answering", "confirming", "over"}]
      /\ results \in [ToolCalls -> Nat]
  BY DEF BridgeInv, BridgeTypeOK
<1>2. /\ task' \in [ToolCalls -> {"none", "started", "consulting", "submitting", "requesting",
                                  "answering", "confirming", "over"}]
      /\ task'[c] = to /\ \A x \in ToolCalls \ {c} : task'[x] = task[x]
  BY <1>1
<1>3. /\ results' \in [ToolCalls -> Nat]
      /\ results'[c] = results[c]
           \/ (results'[c] = results[c] + 1 /\ task[c] \in Before /\ to = "over")
      /\ \A x \in ToolCalls \ {c} : results'[x] = results[x]
  BY <1>1
<1>4. TaskInv'
  BY <1>2 DEF BridgeInv, TaskInv
<1>5. ResultInv'
  <2> SUFFICES ASSUME NEW x \in ToolCalls
               PROVE  results'[x] <= 1 /\ (task'[x] \in Before => results'[x] = 0)
    BY DEF ResultInv
  <2>1. CASE x = c
    BY <1>1, <1>2, <1>3, <2>1 DEF BridgeInv, ResultInv, Before
  <2>2. CASE x # c
    BY <1>2, <1>3, <2>2 DEF BridgeInv, ResultInv
  <2> QED  BY <2>1, <2>2
<1>6. ConsultInv'
  <2> SUFFICES ASSUME NEW x \in Consults, task'[x] \in Early PROVE task'[x] = task[x]
    BY DEF BridgeInv, ConsultInv
  <2> QED  BY <1>2 DEF Consults, Early
<1>7. QueueOnce'
  BY BridgeFramed
<1> QED  BY <1>2, <1>3, <1>4, <1>5, <1>6, <1>7

LEMMA RequestsTyped ==
  ASSUME BridgeInv, NEW for \in ToolCalls \cup {Other}, NEW s, s = Append(requests, for)
  PROVE  s \in Seq(ToolCalls \cup {Other})
<1>1. requests \in Seq(ToolCalls \cup {Other})
  BY DEF BridgeInv, BridgeTypeOK
<1> QED  BY <1>1, AppendProperties

LEMMA HangUpStartsStep ==
  ASSUME BridgeInv, NEW c \in ToolCalls, HangUpStarts(c) \/ ActionStarts(c)
  PROVE  BridgeInv'
<1>1. /\ UNCHANGED <<dispatched, results, pending, awaiting, fate, deferred, hanging, stopped,
                     closed, requests, speaking, late, scene, talks, faults>>
      /\ armed' \in {armed, TRUE} /\ task[c] = "started"
      /\ \E to \in {"answering", "confirming"} : task' = [task EXCEPT ![c] = to]
  BY DEF HangUpStarts, ActionStarts, consulting, hangup, server, bounds
<1>2. /\ task' \in [ToolCalls -> {"none", "started", "consulting", "submitting", "requesting",
                                  "answering", "confirming", "over"}]
      /\ TaskInv' /\ ResultInv' /\ ConsultInv' /\ QueueOnce'
  BY <1>1, TaskMoves DEF Before
<1>3. BridgeTypeOK'
  BY <1>1, <1>2 DEF BridgeInv, BridgeTypeOK
<1>4. FateInv' /\ HangInv'
  BY <1>1, BridgeFramed
<1> QED  BY <1>2, <1>3, <1>4 DEF BridgeInv

LEMMA AnswersStep ==
  ASSUME BridgeInv, NEW c \in ToolCalls, Answers(c)
  PROVE  BridgeInv'
<1>1. /\ UNCHANGED <<dispatched, pending, awaiting, fate, armed, deferred, hanging, stopped,
                     closed, speaking, late, scene, talks>>
      /\ task[c] = "answering" /\ task' = [task EXCEPT ![c] = "over"]
      /\ results' = results \/ results' = [results EXCEPT ![c] = @ + 1]
      /\ requests' = requests \/ requests' = Append(requests, Other)
      /\ faults' \in {faults, faults + 1}
  BY DEF Answers, Requests, Fails, consulting, hangup
<1>2. /\ task' \in [ToolCalls -> {"none", "started", "consulting", "submitting", "requesting",
                                  "answering", "confirming", "over"}]
      /\ results' \in [ToolCalls -> Nat]
      /\ TaskInv' /\ ResultInv' /\ ConsultInv' /\ QueueOnce'
  BY <1>1, TaskMoves DEF Before
<1>3. requests' \in Seq(ToolCalls \cup {Other})
  BY <1>1, RequestsTyped DEF BridgeInv, BridgeTypeOK
<1>4. BridgeTypeOK'
  BY <1>1, <1>2, <1>3 DEF BridgeInv, BridgeTypeOK
<1>5. FateInv' /\ HangInv'
  BY <1>1, BridgeFramed
<1> QED  BY <1>2, <1>4, <1>5 DEF BridgeInv

LEMMA HangUpConfirmedStep ==
  ASSUME BridgeInv, NEW c \in ToolCalls, HangUpConfirmed(c)
  PROVE  BridgeInv'
<1>1. /\ UNCHANGED <<dispatched, pending, awaiting, fate, armed, stopped, closed, requests,
                     speaking, late, scene, talks>>
      /\ task[c] = "confirming" /\ task' = [task EXCEPT ![c] = "over"]
      /\ results' = results \/ results' = [results EXCEPT ![c] = @ + 1]
      /\ faults' \in {faults, faults + 1}
      /\ \/ deferred' = deferred /\ hanging' = hanging
         \/ ~Ending /\ deferred' = TRUE /\ Perform("task", Pending, TRUE)
  BY DEF HangUpConfirmed, consulting, server
<1>2. /\ task' \in [ToolCalls -> {"none", "started", "consulting", "submitting", "requesting",
                                  "answering", "confirming", "over"}]
      /\ results' \in [ToolCalls -> Nat]
      /\ TaskInv' /\ ResultInv' /\ ConsultInv' /\ QueueOnce'
  BY <1>1, TaskMoves DEF Before
<1>3. hanging' = hanging \/ (hanging' = "task" /\ Pending = {} /\ closed = "no")
  BY <1>1, PerformStarts
<1>4. BridgeTypeOK'
  <2>1. faults' \in Nat /\ deferred' \in BOOLEAN
    <3>1. faults \in Nat /\ deferred \in BOOLEAN
      BY DEF BridgeInv, BridgeTypeOK
    <3>2. faults' \in {faults, faults + 1} /\ (deferred' = deferred \/ deferred' = TRUE)
      BY <1>1
    <3>3. faults' \in Nat
      BY <3>1, <3>2
    <3>4. deferred' \in BOOLEAN
      BY <3>1, <3>2, Zenon
    <3> QED  BY <3>3, <3>4
  <2>2. hanging' \in {"none", "pump", "task"}
    BY <1>3 DEF BridgeInv, BridgeTypeOK
  <2> QED  BY <1>1, <1>2, <2>1, <2>2 DEF BridgeInv, BridgeTypeOK
<1>5. FateInv'
  BY <1>1, BridgeFramed
<1>6. HangInv'
  <2>1. CASE hanging' = hanging
    BY <1>1, <2>1, BridgeFramed
  <2>2. CASE Pending = {} /\ closed = "no"
    <3>1. \A x \in Consults \cap dispatched : ~pending[x].owned /\ fate[x] # "none"
      BY <2>2 DEF BridgeInv, FateInv, Pending
    <3>2. ~stopped
      BY <2>2 DEF BridgeInv, HangInv
    <3> QED  BY <1>1, <3>1, <3>2 DEF HangInv
  <2> QED  BY <1>3, <2>1, <2>2
<1> QED  BY <1>2, <1>4, <1>5, <1>6 DEF BridgeInv

LEMMA ConsultWorksStep ==
  ASSUME BridgeInv, NEW c \in Consults, ConsultStarts(c) \/ ConsultEnds(c)
  PROVE  BridgeInv'
<1>1. /\ UNCHANGED <<dispatched, results, awaiting, fate, armed, deferred, hanging, stopped,
                     closed, speaking, late, scene, talks>>
      /\ pending' = [pending EXCEPT ![c].owned = TRUE]
      /\ \/ task[c] = "started" /\ task' = [task EXCEPT ![c] = "consulting"]
         \/ task[c] = "consulting" /\ task' = [task EXCEPT ![c] = "submitting"]
      /\ requests' = requests \/ requests' = Append(requests, Other)
      /\ faults' \in {faults, faults + 1}
  BY DEF ConsultStarts, ConsultEnds, Requests, Fails, hangup, server, bounds
<1>2. /\ task \in [ToolCalls -> {"none", "started", "consulting", "submitting", "requesting",
                                 "answering", "confirming", "over"}]
      /\ pending \in [Consults -> Entries] /\ c \in ToolCalls /\ Consults \subseteq ToolCalls
  BY DEF BridgeInv, BridgeTypeOK, Entries, Consults
\* The consult was pending already, so its entry is what it was.
<1>3. pending' = pending
  <2>1. pending[c].owned = TRUE
    BY <1>1, <1>2 DEF BridgeInv, ConsultInv, Early, Entries
  <2>2. [pending[c] EXCEPT !.owned = TRUE] = pending[c]
    <3>1. pending[c] \in Entries
      BY <1>2
    <3> QED  BY <2>1, <3>1 DEF Entries
  <2>3. pending' = [pending EXCEPT ![c] = pending[c]]
    BY <1>1, <2>2
  <2> QED  BY <1>2, <2>3
<1>4. /\ task' \in [ToolCalls -> {"none", "started", "consulting", "submitting", "requesting",
                                  "answering", "confirming", "over"}]
      /\ task'[c] \in {"consulting", "submitting"} /\ task[c] \in {"started", "consulting"}
      /\ \A x \in ToolCalls \ {c} : task'[x] = task[x]
  BY <1>1, <1>2
<1>5. BridgeTypeOK'
  <2>1. requests' \in Seq(ToolCalls \cup {Other})
    BY <1>1, RequestsTyped DEF BridgeInv, BridgeTypeOK
  <2>2. faults' \in Nat
    BY <1>1 DEF BridgeInv, BridgeTypeOK
  <2> QED  BY <1>1, <1>3, <1>4, <2>1, <2>2 DEF BridgeInv, BridgeTypeOK
<1>6. TaskInv'
  BY <1>1, <1>2, <1>4 DEF BridgeInv, TaskInv
<1>7. ResultInv'
  BY <1>1, <1>2, <1>4 DEF BridgeInv, ResultInv, Before
<1>8. ConsultInv'
  BY <1>1, <1>2, <1>3, <1>4 DEF BridgeInv, ConsultInv, Early
<1>9. QueueOnce' /\ FateInv' /\ HangInv'
  BY <1>1, <1>3, BridgeFramed
<1> QED  BY <1>5, <1>6, <1>7, <1>8, <1>9 DEF BridgeInv

\* The task of a consult ends without an answer asked for: the consult is released.
LEMMA ReleaseStep ==
  ASSUME BridgeInv, NEW c \in Consults, task[c] # "none", task' = [task EXCEPT ![c] = "over"],
         Finish(c, "task", "failed"), faults' \in {faults, faults + 1},
         UNCHANGED <<dispatched, results, closed, requests, speaking, late, scene, talks>>
  PROVE  BridgeInv'
<1>1. /\ task \in [ToolCalls -> {"none", "started", "consulting", "submitting", "requesting",
                                 "answering", "confirming", "over"}]
      /\ c \in ToolCalls
  BY DEF BridgeInv, BridgeTypeOK, Consults
<1>2. /\ task' \in [ToolCalls -> {"none", "started", "consulting", "submitting", "requesting",
                                  "answering", "confirming", "over"}]
      /\ task'[c] = "over" /\ \A x \in ToolCalls \ {c} : task'[x] = task[x]
  BY <1>1
<1>3. /\ pending' \in [Consults -> Entries] /\ awaiting' \in Seq(Consults)
      /\ fate' \in [Consults -> {"none", "read", "mistaken", "expired", "failed"}]
      /\ armed' \in BOOLEAN /\ deferred' \in BOOLEAN /\ stopped' \in BOOLEAN
      /\ hanging' \in {"none", "pump", "task"}
      /\ ConsultInv' /\ QueueOnce' /\ FateInv' /\ HangInv'
  BY <1>2, FinishKeeps DEF Early
<1>4. BridgeTypeOK'
  <2>1. faults' \in Nat
    BY DEF BridgeInv, BridgeTypeOK
  <2> QED  BY <1>2, <1>3, <2>1 DEF BridgeInv, BridgeTypeOK, Entries
<1>5. TaskInv' /\ ResultInv'
  BY <1>1, <1>2 DEF BridgeInv, TaskInv, ResultInv, Before
<1> QED  BY <1>3, <1>4, <1>5 DEF BridgeInv

LEMMA SubmitsStep ==
  ASSUME BridgeInv, NEW c \in Consults, Submits(c)
  PROVE  BridgeInv'
<1>1. task[c] = "submitting"
      /\ UNCHANGED <<dispatched, closed, speaking, late, scene, talks>>
  BY DEF Submits
<1>2. CASE /\ task' = [task EXCEPT ![c] = "over"] /\ Finish(c, "task", "failed")
           /\ Fails /\ results' = results
  BY <1>1, <1>2, ReleaseStep DEF Fails
<1>3. CASE /\ task' = [task EXCEPT ![c] = "requesting"]
           /\ results' = [results EXCEPT ![c] = @ + 1]
           /\ awaiting' = Append(awaiting, c) /\ pending' = Timed(c)
           /\ UNCHANGED <<fate, hangup, requests, faults>>
  <2>1. /\ task \in [ToolCalls -> {"none", "started", "consulting", "submitting", "requesting",
                                   "answering", "confirming", "over"}]
        /\ pending \in [Consults -> Entries] /\ c \in ToolCalls /\ Consults \subseteq ToolCalls
        /\ awaiting \in Seq(Consults) /\ results \in [ToolCalls -> Nat]
        /\ UNCHANGED <<fate, armed, deferred, hanging, stopped, requests, faults>>
    BY <1>3 DEF BridgeInv, BridgeTypeOK, Entries, Consults, hangup
  <2>2. /\ task' \in [ToolCalls -> {"none", "started", "consulting", "submitting",
                                    "requesting", "answering", "confirming", "over"}]
        /\ task'[c] = "requesting" /\ \A x \in ToolCalls \ {c} : task'[x] = task[x]
    BY <1>3, <2>1
  <2>3. /\ results' \in [ToolCalls -> Nat] /\ results'[c] = results[c] + 1
        /\ \A x \in ToolCalls \ {c} : results'[x] = results[x]
    BY <1>3, <2>1
  <2>4. /\ pending' \in [Consults -> Entries] /\ pending'[c].owned = pending[c].owned
        /\ \A x \in Consults \ {c} : pending'[x] = pending[x]
    <3>1. pending' = [pending EXCEPT ![c] = [pending[c] EXCEPT !.timer = TRUE]]
      BY <1>3 DEF Timed
    <3>2. pending[c] \in Entries
      BY <2>1
    <3>3. /\ [pending[c] EXCEPT !.timer = TRUE] \in Entries
          /\ [pending[c] EXCEPT !.timer = TRUE].owned = pending[c].owned
      BY <3>2 DEF Entries
    <3> QED  BY <2>1, <3>1, <3>3
  <2>5. /\ awaiting' \in Seq(Consults) /\ DOMAIN awaiting' = 1 .. Len(awaiting) + 1
        /\ DOMAIN awaiting = 1 .. Len(awaiting) /\ Len(awaiting) \in Nat
        /\ awaiting'[Len(awaiting) + 1] = c
        /\ \A i \in 1 .. Len(awaiting) : awaiting'[i] = awaiting[i] /\ awaiting[i] \in Consults
    <3>1. /\ awaiting' \in Seq(Consults) /\ Len(awaiting') = Len(awaiting) + 1
          /\ awaiting'[Len(awaiting) + 1] = c
          /\ \A i \in 1 .. Len(awaiting) : awaiting'[i] = awaiting[i]
      BY <1>3, <2>1, AppendProperties
    <3>2. /\ Len(awaiting) \in Nat /\ DOMAIN awaiting = 1 .. Len(awaiting)
          /\ \A i \in 1 .. Len(awaiting) : awaiting[i] \in Consults
      BY <2>1, LenProperties
    <3>3. DOMAIN awaiting' = 1 .. Len(awaiting')
      BY <3>1, LenProperties
    <3> QED  BY <3>1, <3>2, <3>3
  <2>6. \A i \in DOMAIN awaiting : awaiting[i] # c
    BY <1>1 DEF BridgeInv, ConsultInv, Early
  <2>7. pending[c].owned
    BY <1>1 DEF BridgeInv, ConsultInv, Early
  <2>8. BridgeTypeOK'
    BY <1>1, <2>1, <2>2, <2>3, <2>4, <2>5 DEF BridgeInv, BridgeTypeOK, Entries
  <2>9. TaskInv' /\ ResultInv'
    <3>1. TaskInv'
      BY <1>1, <2>1, <2>2 DEF BridgeInv, TaskInv
    <3>2. results[c] = 0
      BY <1>1, <2>1 DEF BridgeInv, ResultInv, Before
    <3> QED  BY <1>1, <2>1, <2>2, <2>3, <3>1, <3>2 DEF BridgeInv, ResultInv, Before
  <2>10. ConsultInv'
    <3> SUFFICES ASSUME NEW x \in Consults
                 PROVE  /\ task'[x] \in Early \ {"none"} => pending'[x].owned
                        /\ task'[x] \in Early =>
                             /\ ~pending'[x].timer /\ pending'[x].response = "none"
                             /\ \A i \in DOMAIN awaiting' : awaiting'[i] # x
      BY DEF ConsultInv
    <3>1. CASE x = c
      BY <2>2, <3>1 DEF Early
    <3>2. CASE x # c
      <4>1. task'[x] = task[x] /\ pending'[x] = pending[x]
        BY <2>1, <2>2, <2>4, <3>2
      <4>2. \A i \in DOMAIN awaiting' : i \in DOMAIN awaiting \/ awaiting'[i] = c
        BY <2>5
      <4> QED  BY <2>5, <3>2, <4>1, <4>2 DEF BridgeInv, ConsultInv
    <3> QED  BY <3>1, <3>2
  <2>11. QueueOnce'
    <3>1. \A i, k \in DOMAIN awaiting' : awaiting'[i] = awaiting'[k] => i = k
      BY <2>5, <2>6 DEF BridgeInv, QueueOnce
    <3>2. \A x \in Consults : pending'[x].owned <=> pending[x].owned
      BY <2>4
    <3>3. \A i \in DOMAIN awaiting' : awaiting'[i] \in Consults /\ pending[awaiting'[i]].owned
      BY <2>5, <2>7 DEF BridgeInv, QueueOnce
    <3> QED  BY <3>1, <3>2, <3>3 DEF QueueOnce
  <2>12. FateInv'
    BY <1>1, <2>1, <2>4 DEF BridgeInv, FateInv
  <2>13. HangInv'
    BY <1>1, <2>1, <2>4 DEF BridgeInv, HangInv
  <2> QED  BY <2>8, <2>9, <2>10, <2>11, <2>12, <2>13 DEF BridgeInv
<1> QED  BY <1>2, <1>3 DEF Submits

LEMMA RequestsAnswerStep ==
  ASSUME BridgeInv, NEW c \in Consults, RequestsAnswer(c)
  PROVE  BridgeInv'
<1>1. /\ task[c] = "requesting" /\ task' = [task EXCEPT ![c] = "over"]
      /\ UNCHANGED <<dispatched, results, closed, speaking, late, scene, talks>>
      /\ c \in ToolCalls
  BY DEF RequestsAnswer, Consults
<1>2. CASE Fails /\ Finish(c, "task", "failed")
  BY <1>1, <1>2, ReleaseStep DEF Fails
<1>3. CASE Requests(c) /\ UNCHANGED <<consulting, hangup>>
  <2>1. /\ UNCHANGED <<pending, awaiting, fate, armed, deferred, hanging, stopped, faults>>
        /\ requests' = Append(requests, c)
    BY <1>3 DEF Requests, consulting, hangup
  <2>2. /\ task' \in [ToolCalls -> {"none", "started", "consulting", "submitting",
                                    "requesting", "answering", "confirming", "over"}]
        /\ TaskInv' /\ ResultInv' /\ ConsultInv' /\ QueueOnce'
    BY <1>1, <2>1, TaskMoves
  <2>3. requests' \in Seq(ToolCalls \cup {Other})
    BY <1>1, <2>1, RequestsTyped
  <2>4. BridgeTypeOK'
    BY <1>1, <2>1, <2>2, <2>3 DEF BridgeInv, BridgeTypeOK
  <2>5. FateInv' /\ HangInv'
    BY <1>1, <2>1, BridgeFramed
  <2> QED  BY <2>2, <2>4, <2>5 DEF BridgeInv
<1> QED  BY <1>2, <1>3 DEF RequestsAnswer
-----------------------------------------------------------------------------
\* A response is bound to the head of the queue, whose output was submitted.
LEMMA BoundStep ==
  ASSUME BridgeInv, NEW for \in ToolCalls \cup {Other}, Bound(for),
         speaking' = for, talks' \in Nat,
         requests' = requests \/ (requests # <<>> /\ requests' = Tail(requests)),
         UNCHANGED <<dispatched, task, results, armed, deferred, hanging, stopped, closed, late,
                     scene, faults>>
  PROVE  BridgeInv'
<1>1. /\ pending \in [Consults -> Entries] /\ awaiting \in Seq(Consults)
      /\ fate \in [Consults -> {"none", "read", "mistaken", "expired", "failed"}]
      /\ requests \in Seq(ToolCalls \cup {Other})
  BY DEF BridgeInv, BridgeTypeOK, Entries
<1>2. requests' \in Seq(ToolCalls \cup {Other})
  <2>1. requests # <<>> => Tail(requests) \in Seq(ToolCalls \cup {Other})
    BY <1>1, HeadTailProperties
  <2> QED  BY <1>1, <2>1
<1>3. TaskInv' /\ ResultInv'
  BY BridgeFramed
<1>4. CASE awaiting = <<>>
  <2>1. UNCHANGED <<pending, awaiting, fate>>
    BY <1>4 DEF Bound
  <2>2. BridgeTypeOK'
    BY <1>2, <2>1 DEF BridgeInv, BridgeTypeOK
  <2> QED  BY <1>3, <2>1, <2>2, BridgeFramed DEF BridgeInv
<1>5. CASE awaiting # <<>>
  <2> DEFINE c == Head(awaiting)
  <2>1. /\ pending' = [pending EXCEPT ![c].response = "active"] /\ awaiting' = Tail(awaiting)
        /\ fate' = IF for = c THEN fate ELSE [fate EXCEPT ![c] = "mistaken"]
    BY <1>5 DEF Bound
  <2>2. /\ c \in Consults /\ c = awaiting[1] /\ 1 \in DOMAIN awaiting
        /\ awaiting' \in Seq(Consults)
        /\ \A i \in DOMAIN awaiting' :
             i + 1 \in DOMAIN awaiting /\ i + 1 # 1 /\ awaiting'[i] = awaiting[i + 1]
        /\ \A i, k \in DOMAIN awaiting' : i + 1 = k + 1 => i = k
    <3>1. /\ c \in Consults /\ awaiting' \in Seq(Consults)
          /\ Len(awaiting') = Len(awaiting) - 1
          /\ \A i \in 1 .. Len(awaiting') : awaiting'[i] = awaiting[i + 1]
      BY <1>1, <1>5, <2>1, HeadTailProperties
    <3>2. c = awaiting[1]
      OBVIOUS
    <3>3. Len(awaiting) \in Nat \ {0} /\ DOMAIN awaiting = 1 .. Len(awaiting)
      BY <1>1, <1>5, LenProperties, EmptySeq
    <3>4. DOMAIN awaiting' = 1 .. Len(awaiting')
      BY <3>1, LenProperties
    <3> HIDE DEF c
    <3> QED  BY <3>1, <3>2, <3>3, <3>4
  <2> HIDE DEF c
  <2>3. /\ pending' \in [Consults -> Entries] /\ pending'[c].owned = pending[c].owned
        /\ \A x \in Consults \ {c} : pending'[x] = pending[x]
    <3>1. pending' = [pending EXCEPT ![c] = [pending[c] EXCEPT !.response = "active"]]
      BY <2>1
    <3>2. pending[c] \in Entries
      BY <1>1, <2>2
    <3>3. /\ [pending[c] EXCEPT !.response = "active"] \in Entries
          /\ [pending[c] EXCEPT !.response = "active"].owned = pending[c].owned
      BY <3>2 DEF Entries
    <3> QED  BY <1>1, <2>2, <3>1, <3>3
  <2>4. /\ fate' \in [Consults -> {"none", "read", "mistaken", "expired", "failed"}]
        /\ \A x \in Consults : fate[x] # "none" => fate'[x] # "none"
    BY <1>1, <2>1, <2>2
  <2>5. \A x \in Consults : pending'[x].owned = pending[x].owned
    BY <2>3
  <2>6. task[c] \notin Early
    BY <2>2 DEF BridgeInv, ConsultInv
  <2>7. BridgeTypeOK'
    BY <1>2, <2>2, <2>3, <2>4 DEF BridgeInv, BridgeTypeOK, Entries
  <2>8. ConsultInv'
    BY <2>2, <2>3, <2>6 DEF BridgeInv, ConsultInv
  <2>9. QueueOnce'
    <3>1. \A i, k \in DOMAIN awaiting' : awaiting'[i] = awaiting'[k] => i = k
      BY <2>2 DEF BridgeInv, QueueOnce
    <3>2. \A i \in DOMAIN awaiting : awaiting[i] \in Consults
      BY <1>1, LenProperties
    <3>3. \A i \in DOMAIN awaiting' : pending'[awaiting'[i]].owned
      BY <2>2, <2>5, <3>2 DEF BridgeInv, QueueOnce
    <3> QED  BY <3>1, <3>3 DEF QueueOnce
  <2>10. FateInv'
    BY <2>4, <2>5 DEF BridgeInv, FateInv
  <2>11. HangInv'
    BY <2>4, <2>5 DEF BridgeInv, HangInv
  <2> QED  BY <1>3, <2>7, <2>8, <2>9, <2>10, <2>11 DEF BridgeInv
<1> QED  BY <1>4, <1>5

LEMMA CreatesStep ==
  ASSUME BridgeInv, Creates \/ Talks
  PROVE  BridgeInv'
<1>1. talks \in Nat /\ requests \in Seq(ToolCalls \cup {Other})
  BY DEF BridgeInv, BridgeTypeOK
<1>2. CASE Creates
  <2>1. Head(requests) \in ToolCalls \cup {Other}
    BY <1>1, <1>2, HeadTailProperties DEF Creates
  <2>2. Bound(Head(requests))
    BY <1>2 DEF Creates, Bound
  <2> QED  BY <1>1, <1>2, <2>1, <2>2, BoundStep DEF Creates, hangup, bounds
<1>3. CASE Talks
  BY <1>1, <1>3, BoundStep DEF Talks, hangup
<1> QED  BY <1>2, <1>3

\* What a consult's entry says of its response changes, not that the consult is pending.
LEMMA EntryStep ==
  ASSUME BridgeInv, NEW c \in Consults, NEW e \in Entries, pending' = [pending EXCEPT ![c] = e],
         e.owned = pending[c].owned, e.timer = pending[c].timer,
         pending[c].response = "active",
         speaking' \in ToolCalls \cup {Other, "none"},
         UNCHANGED <<dispatched, task, results, awaiting, fate, armed, deferred, hanging, stopped,
                     closed, requests, late, scene, talks, faults>>
  PROVE  BridgeInv'
<1>1. /\ pending' \in [Consults -> Entries] /\ pending'[c] = e
      /\ \A x \in Consults \ {c} : pending'[x] = pending[x]
      /\ \A x \in Consults : pending'[x].owned = pending[x].owned
  BY DEF BridgeInv, BridgeTypeOK, Entries
<1>2. BridgeTypeOK'
  BY <1>1 DEF BridgeInv, BridgeTypeOK, Entries
<1>3. TaskInv' /\ ResultInv'
  BY BridgeFramed
<1>4. ConsultInv'
  BY <1>1 DEF BridgeInv, ConsultInv
<1>5. QueueOnce'
  <2>1. \A i \in DOMAIN awaiting : awaiting[i] \in Consults
    BY LenProperties DEF BridgeInv, BridgeTypeOK
  <2> QED  BY <1>1, <2>1 DEF BridgeInv, QueueOnce
<1>6. FateInv' /\ HangInv'
  BY <1>1 DEF BridgeInv, FateInv, HangInv
<1> QED  BY <1>2, <1>3, <1>4, <1>5, <1>6 DEF BridgeInv

LEMMA MediaDoneStep ==
  ASSUME BridgeInv, AudioDone \/ TranscriptDone
  PROVE  BridgeInv'
<1>1. PICK c \in Matching :
        /\ \/ pending' = [pending EXCEPT ![c].audio = TRUE]
           \/ pending' = [pending EXCEPT ![c].transcript = TRUE]
        /\ UNCHANGED <<dispatched, task, results, awaiting, fate, armed, deferred, hanging,
                       stopped, closed, requests, speaking, late, scene, talks, faults>>
  BY DEF AudioDone, TranscriptDone, hangup, server, bounds
<1>2. c \in Consults /\ pending[c].response = "active"
  BY DEF Matching
<1>3. pending[c] \in Entries /\ speaking \in ToolCalls \cup {Other, "none"}
  BY <1>2 DEF BridgeInv, BridgeTypeOK, Entries
<1>4. PICK e \in {[pending[c] EXCEPT !.audio = TRUE], [pending[c] EXCEPT !.transcript = TRUE]} :
        pending' = [pending EXCEPT ![c] = e]
  BY <1>1
<1>5. e \in Entries /\ e.owned = pending[c].owned /\ e.timer = pending[c].timer
  BY <1>3 DEF Entries
<1> QED  BY <1>1, <1>2, <1>3, <1>4, <1>5, EntryStep

LEMMA ResponseDoneStep ==
  ASSUME BridgeInv, ResponseDone
  PROVE  BridgeInv'
<1>1. /\ speaking' = "none"
      /\ UNCHANGED <<dispatched, task, results, closed, requests, late, scene, talks, faults>>
  BY DEF ResponseDone, bounds
<1>2. ASSUME NEW c \in Matching, Finish(c, "pump", Why(c))
      PROVE  BridgeInv'
  <2>1. c \in Consults /\ task[c] \notin Early
    BY DEF BridgeInv, ConsultInv, Matching
  <2>2. Why(c) \in {"read", "mistaken", "expired", "failed"}
    BY DEF Why
  <2>3. task'[c] \notin Early /\ \A x \in ToolCalls \ {c} : task'[x] = task[x]
    BY <1>1, <2>1
  <2>4. /\ pending' \in [Consults -> Entries] /\ awaiting' \in Seq(Consults)
        /\ fate' \in [Consults -> {"none", "read", "mistaken", "expired", "failed"}]
        /\ armed' \in BOOLEAN /\ deferred' \in BOOLEAN /\ stopped' \in BOOLEAN
        /\ hanging' \in {"none", "pump", "task"}
        /\ ConsultInv' /\ QueueOnce' /\ FateInv' /\ HangInv'
    BY <1>1, <1>2, <2>1, <2>2, <2>3, FinishKeeps
  <2>5. BridgeTypeOK'
    BY <1>1, <2>4 DEF BridgeInv, BridgeTypeOK, Entries
  <2>6. TaskInv' /\ ResultInv'
    BY <1>1, BridgeFramed
  <2> QED  BY <2>4, <2>5, <2>6 DEF BridgeInv
<1>3. ASSUME NEW c \in Matching, pending' = [pending EXCEPT ![c].response = "past"],
             UNCHANGED <<awaiting, fate, hangup>>
      PROVE  BridgeInv'
  <2>1. c \in Consults /\ pending[c].response = "active"
    BY DEF Matching
  <2>2. pending[c] \in Entries
    BY <2>1 DEF BridgeInv, BridgeTypeOK, Entries
  <2> DEFINE e == [pending[c] EXCEPT !.response = "past"]
  <2>3. e \in Entries /\ e.owned = pending[c].owned /\ e.timer = pending[c].timer
    BY <2>2 DEF Entries
  <2>4. pending' = [pending EXCEPT ![c] = e]
    BY <1>3
  <2> HIDE DEF e
  <2> QED  BY <1>1, <1>3, <2>1, <2>3, <2>4, EntryStep DEF hangup
<1>4. CASE UNCHANGED <<consulting, hangup>>
  <2>1. UNCHANGED <<pending, awaiting, fate, armed, deferred, hanging, stopped>>
    BY <1>4 DEF consulting, hangup
  <2>2. BridgeTypeOK'
    BY <1>1, <2>1 DEF BridgeInv, BridgeTypeOK
  <2> QED  BY <1>1, <2>1, <2>2, BridgeFramed DEF BridgeInv
<1> QED  BY <1>2, <1>3, <1>4 DEF ResponseDone

LEMMA TearStep ==
  ASSUME BridgeInv, Tear
  PROVE  BridgeInv'
<1>1. /\ UNCHANGED <<dispatched, results, fate, armed, deferred, stopped, late, scene, talks,
                     faults>>
      /\ closed' = "torn" /\ awaiting' = <<>> /\ requests' = <<>> /\ speaking' = "none"
      /\ hanging' = "none"
      /\ task' = [c \in ToolCalls |-> IF task[c] = "none" THEN "none" ELSE "over"]
      /\ pending' = [c \in Consults |-> NoConsult]
  BY DEF Tear, bounds
<1>2. /\ NoConsult \in Entries /\ ~NoConsult.owned /\ ~NoConsult.timer
      /\ NoConsult.response = "none"
  BY DEF NoConsult, Entries
<1>3. BridgeTypeOK'
  <2>1. awaiting' \in Seq(Consults) /\ requests' \in Seq(ToolCalls \cup {Other})
    BY <1>1, EmptySeq
  <2>2. pending' \in [Consults -> Entries]
    BY <1>1, <1>2
  <2>3. task' \in [ToolCalls -> {"none", "started", "consulting", "submitting", "requesting",
                                 "answering", "confirming", "over"}]
    BY <1>1
  <2> QED  BY <1>1, <2>1, <2>2, <2>3 DEF BridgeInv, BridgeTypeOK, Entries
<1>4. TaskInv' /\ ResultInv'
  BY <1>1 DEF BridgeInv, TaskInv, ResultInv, Before
<1>5. ConsultInv' /\ QueueOnce'
  <2>1. DOMAIN awaiting' = {}
    BY <1>1
  <2>2. \A c \in Consults : task'[c] \in {"none", "over"} /\ pending'[c] = NoConsult
    BY <1>1 DEF Consults
  <2> QED  BY <1>2, <2>1, <2>2 DEF ConsultInv, QueueOnce, Early
<1>6. FateInv' /\ HangInv'
  BY <1>1, <1>2 DEF BridgeInv, FateInv, HangInv
<1> QED  BY <1>3, <1>4, <1>5, <1>6 DEF BridgeInv
-----------------------------------------------------------------------------
LEMMA BridgeSteps ==
  ASSUME BridgeInv, [BridgeNext]_bridgeVars
  PROVE  BridgeInv'
<1>1. ASSUME NEW c \in ToolCalls, Runs(c) PROVE BridgeInv'
  BY <1>1, HangUpStartsStep, AnswersStep, HangUpConfirmedStep DEF Runs
<1>2. ASSUME NEW c \in Consults, Asks(c) PROVE BridgeInv'
  BY <1>2, ConsultWorksStep, SubmitsStep, RequestsAnswerStep, ExpiresStep DEF Asks
<1>3. CASE StopFrame \/ Tear \/ FollowsUp
  BY <1>3, StopFrameStep, TearStep, PhaseStep
<1>4. ASSUME NEW c \in ToolCalls, Dispatch(c) PROVE BridgeInv'
  BY <1>4, DispatchStep
<1>5. CASE Creates \/ Refuses \/ Talks \/ AudioDone \/ TranscriptDone \/ ResponseDone
  BY <1>5, CreatesStep, WindowStep, MediaDoneStep, ResponseDoneStep
<1>6. CASE WindowCloses \/ Ends \/ Opens \/ OpenFails \/ Accepts \/ AcceptFails
  BY <1>6, WindowStep, PhaseStep
<1>7. CASE UNCHANGED bridgeVars
  BY <1>7, BridgeUntouched
<1> QED  BY <1>1, <1>2, <1>3, <1>4, <1>5, <1>6, <1>7 DEF BridgeNext, GoesOn

\* BridgeInv holds in every state of a bridged call.
THEOREM BridgeInvariant == BridgeSpec => []BridgeInv
<1>1. BridgeInv /\ [BridgeNext]_bridgeVars => BridgeInv'
  BY BridgeSteps
<1> QED  BY <1>1, BridgeStarts, PTL DEF BridgeSpec

\* The entries of consults, their tasks and the hangup keep their types.
THEOREM BridgeTyping == BridgeSpec => []BridgeTypeOK
<1>1. BridgeInv => BridgeTypeOK
  BY DEF BridgeInv
<1> QED  BY <1>1, BridgeInvariant, PTL

\* For any number of calls of the model, responses of the server's own and failed sends, a
\* call is answered once, and when the stop frame of a hangup goes out every consult called
\* before the hangup was read out, expired or could not be sent (_perform_deferred_hangup,
\* _finish_pending_consult).
THEOREM AnswersStayHeard == BridgeSpec => []AnswersAreHeard
<1>1. BridgeInv => AnswersAreHeard
  <2>1. BridgeInv => AnsweredOnce
    BY DEF BridgeInv, ResultInv, AnsweredOnce
  <2>2. BridgeInv => AnswersBeforeStop
    BY DEF BridgeInv, HangInv, AnswersBeforeStop, Pending
  <2> QED  BY <2>1, <2>2 DEF AnswersAreHeard
<1> QED  BY <1>1, BridgeInvariant, PTL
==============================================================================
