------------------------ MODULE CompanionInboxProofs ------------------------
(***************************************************************************)
(* For any number of receipts, activations, crashes, faults and decisions: *)
(* no automatic path of the Companion inbox repeats an effect (IInv);      *)
(* what is settled has a reason, what is not will be woken, and only late  *)
(* arrivals are overtaken (AccountInv); and the inbox keeps the promise of *)
(* ReceiptLedger, slow interactions apart.                                 *)
(***************************************************************************)
EXTENDS CompanionInbox, WellFoundedInduction, TLAPS

Preparing == {"enrich", "load", "fence", "repeat", "submit", "stopped"}
Working   == Preparing \cup {"rescue", "turn", "deliver", "send"}

\* A submission that can produce an answer, or that is the receipt's own input,
\* holds the receipt's source.
Covers(e, j) == j.answers \/ j.part = "turn" => Source[e] \in j.sources

\* Where the task stands says what the row of its receipt can be.
StageInv ==
  /\ ~up => pc = "idle"
  /\ pc \in Working => cur \in Receipts
  /\ pc \in Preparing => state[cur] \in {"pending", "done"} /\ reply[cur] = None
  /\ pc = "rescue"    => state[cur] \in {"uncertain", "done"}
  /\ pc = "turn"      => state[cur] \in {"submitting", "done"} /\ reply[cur] = None
  /\ pc = "deliver"   => state[cur] \in {"reply_pending", "done"} /\ reply[cur] # None
  /\ pc = "send"      => state[cur] \in {"sending", "done"} /\ reply[cur] # None
  /\ pc = "load"      => Phase[cur] = "initialization" \/ Phase[cur] = "live"

\* The submission the task holds belongs to the receipt it works on.
JobInv ==
  /\ pc \in {"turn", "stopped"} => job # None
  /\ pc \in {"submit", "stopped", "turn"} /\ job # None => Covers(cur, job)
  /\ pc = "stopped" => job.answers
  /\ pc \in {"enrich", "load", "fence", "repeat", "deliver", "send"} => job = None
  /\ \A e \in Receipts : journal[e] # None => Covers(e, journal[e])

\* What the row and the saved answer of a receipt say of its input.
RowInv == \A e \in Receipts :
  /\ state[e] \in {"absent", "pending", "submitting"} => reply[e] = None
  /\ state[e] \in {"reply_pending", "sending"} => reply[e] # None
  /\ reply[e] # None => SourceSubmitted(e)

\* What has been counted: an input that may still be submitted has not been, ...
TurnsInv == \A e \in Receipts :
  /\ turns[e] \in {0, 1}
  /\ state[e] \in {"absent", "pending", "failed", "reply_pending", "sending"}
       => turns[e] = 0 \/ SourceSubmitted(e)
  /\ e = cur /\ pc \in Preparing => turns[e] = 0
  /\ e = cur /\ pc = "turn" /\ job.part = "init" => turns[e] = 0

\* ... and an answer that may still be saved or sent has not been sent.
SendsInv == \A e \in Receipts :
  /\ \A p \in Parts : sends[e][p] \in {0, 1}
  /\ \A p \in Parts : sends[e][p] = 1 => SourceSubmitted(e)
  /\ reply[e] = None /\ state[e] \in {"submitting", "uncertain"}
       => \A p \in Parts : sends[e][p] = 0
  /\ reply[e] # None /\ state[e] \in {"failed", "reply_pending"}
       => sends[e][reply[e].part] = 0
  /\ e = cur /\ pc \in Preparing \cup {"turn"} => \A p \in Parts : sends[e][p] = 0
  /\ e = cur /\ pc = "rescue" /\ reply[e] = None => \A p \in Parts : sends[e][p] = 0

RetiredInv ==
  /\ RetiredStaysRetired
  /\ retired # {} => Channel = "whatsapp"
  /\ cur \in retired => pc \notin {"turn", "deliver", "send", "rescue"}

IInv == TypeOK /\ StageInv /\ JobInv /\ RowInv /\ TurnsInv /\ SendsInv
        /\ RetiredInv /\ SingleFlight
-----------------------------------------------------------------------------
USE DEF store, task, other, ghost, bounds, Preparing, Working, Parts

LEMMA GoOnFacts ==
  ASSUME NEW e \in Receipts, NEW st \in [Receipts -> ReceiptStates], TypeOK, GoOn(e, st)
  PROVE  /\ state' \in [Receipts -> ReceiptStates]
         /\ \A f \in Receipts \ {e} : state'[f] = st[f]
         /\ pc' \in {"loop", "deliver", "enrich", "submit", "load", "fence", "repeat"}
         /\ IF pc' = "loop" THEN state'[e] = "done" ELSE state'[e] = st[e]
         /\ pc' = "deliver" <=> reply'[e] # None
         /\ pc' \in Preparing => ~(<<Activation[e], Source[e]>> \in submitted')
         /\ pc' = "load" => Phase[e] # "ordinary"
         /\ attempts' \in Nat
<1>1. state' = IF pc' = "loop" THEN [st EXCEPT ![e] = "done"] ELSE st
  BY DEF GoOn, Route
<1>2. attempts' \in Nat
  BY DEF GoOn, TypeOK, TaskTypeOK
<1>3. /\ pc' \in {"loop", "deliver", "enrich", "submit", "load", "fence", "repeat"}
      /\ pc' = "deliver" <=> reply'[e] # None
      /\ pc' \in Preparing => ~(<<Activation[e], Source[e]>> \in submitted')
      /\ pc' = "load" => Phase[e] # "ordinary"
  BY DEF GoOn, Route
<1> QED  BY <1>1, <1>2, <1>3 DEF ReceiptStates

LEMMA SettleFacts ==
  ASSUME TypeOK, NEW e \in Receipts, NEW j \in Job, NEW answer \in BOOLEAN, Settle(e, j, answer)
  PROVE  /\ SettledRow(e, j, answer) \in [Receipts -> ReceiptStates]
         /\ \A f \in Receipts \ {e} :
              SettledRow(e, j, answer)[f] = state[f] /\ reply'[f] = reply[f]
         /\ IF answer
            THEN /\ SettledRow(e, j, answer)[e] = "reply_pending"
                 /\ reply'[e] # None /\ reply'[e].part = j.part
            ELSE /\ SettledRow(e, j, answer)[e] \in {"pending", "done"}
                 /\ SettledRow(e, j, answer)[e] = "pending" => j.part = "init"
                 /\ reply' = reply
         /\ submitted \subseteq submitted'
         /\ Source[e] \in j.sources => <<Activation[e], Source[e]>> \in submitted'
         /\ submitted' \subseteq (Activations \cup {None}) \X Sources
         /\ reply' \in [Receipts -> SavedReply \cup {None}]
         /\ activation' \in [Activations -> ActivationStates]
         /\ notice' \in BOOLEAN
<1> USE DEF Settle
<1>1. NextRow(e, j) \in {"pending", "done"} /\ (NextRow(e, j) = "pending" => j.part = "init")
  BY DEF NextRow
<1>2. /\ SettledRow(e, j, answer) \in [Receipts -> ReceiptStates]
      /\ \A f \in Receipts \ {e} : SettledRow(e, j, answer)[f] = state[f]
      /\ SettledRow(e, j, answer)[e] = IF answer THEN "reply_pending" ELSE NextRow(e, j)
  BY <1>1 DEF SettledRow, ReceiptStates, TypeOK, StoreTypeOK
<1>3. [next |-> NextRow(e, j), part |-> j.part] \in SavedReply
  BY <1>1 DEF SavedReply, Job
<1>4. /\ reply' \in [Receipts -> SavedReply \cup {None}]
      /\ \A f \in Receipts \ {e} : reply'[f] = reply[f]
      /\ IF answer THEN reply'[e] # None /\ reply'[e].part = j.part ELSE reply' = reply
  BY <1>3, NoneAssumption DEF TypeOK, StoreTypeOK
<1>5. /\ submitted \subseteq submitted'
      /\ Source[e] \in j.sources => <<Activation[e], Source[e]>> \in submitted'
      /\ submitted' \subseteq (Activations \cup {None}) \X Sources
  BY ReceiptsAssumption DEF TypeOK, StoreTypeOK, Job
<1>6. activation' \in [Activations -> ActivationStates] /\ notice' \in BOOLEAN
  BY DEF TypeOK, StoreTypeOK, ActivationStates
<1> QED  BY <1>1, <1>2, <1>4, <1>5, <1>6

\* What the task may submit covers the receipt.
LEMMA SubmissionFacts ==
  ASSUME IInv, pc = "submit", NEW j \in Submission
  PROVE  /\ j \in Job /\ Covers(cur, j)
         /\ IF job = None THEN j.part = "turn" ELSE j = job
<1>c. cur \in Receipts
  BY DEF IInv, StageInv
<1>1. CASE job = None
  <2>1. /\ j.part = "turn" /\ j.sources = {Source[cur]}
        /\ j = [part |-> j.part, sources |-> j.sources,
                 answers |-> j.answers, explains |-> j.explains]
        /\ j.answers \in BOOLEAN /\ j.explains \in BOOLEAN
    BY <1>1 DEF Submission, TurnJobs, IInv, TypeOK, StoreTypeOK
  <2>2. Source[cur] \in Sources
    BY <1>c, ReceiptsAssumption
  <2> QED  BY <1>1, <2>1, <2>2 DEF Job, Covers
<1>2. CASE job # None
  BY <1>c, <1>2 DEF Submission, IInv, JobInv, TypeOK, TaskTypeOK
<1> QED  BY <1>1, <1>2
-----------------------------------------------------------------------------
(* Each step preserves the invariant *)

Replaced(e, f) ==
  /\ Channel = "whatsapp" /\ turns[f] = 0 /\ reply[f] = None /\ ~SourceSubmitted(f)
  /\ f = e \/ state[f] \in {"pending", "failed"}

LEMMA InsertedFacts ==
  ASSUME IInv, NEW e \in Receipts, state[e] = "absent"
  PROVE  /\ Inserted(e) \in [Receipts -> ReceiptStates] /\ Superseded(e) \subseteq Receipts
         /\ \A f \in Receipts : Inserted(e)[f] = IF f \in Superseded(e) THEN "done"
                                      ELSE IF f = e THEN "pending" ELSE state[f]
         /\ \A f \in Superseded(e) : Replaced(e, f)
<1>1. Superseded(e) \subseteq Receipts
  BY DEF Superseded
<1>2. /\ Inserted(e) \in [Receipts -> ReceiptStates]
      /\ \A f \in Receipts : Inserted(e)[f] = IF f \in Superseded(e) THEN "done"
                                   ELSE IF f = e THEN "pending" ELSE state[f]
  BY DEF Inserted, IInv, TypeOK, StoreTypeOK, ReceiptStates
<1>3. ASSUME NEW f \in Superseded(e) PROVE Replaced(e, f)
  <2>1. /\ Channel = "whatsapp" /\ ~SourceSubmitted(f)
        /\ f = e \/ (state[f] \in {"pending", "failed"} /\ reply[f] = None)
    BY DEF Superseded, Retirable
  <2> QED  BY <1>1, <2>1 DEF Replaced, IInv, RowInv, TurnsInv
<1> QED  BY <1>1, <1>2, <1>3

LEMMA AdmitStep ==
  ASSUME IInv, NEW e \in Receipts, Admit(e)
  PROVE  IInv'
<1>i. /\ Inserted(e) \in [Receipts -> ReceiptStates] /\ Superseded(e) \subseteq Receipts
      /\ \A f \in Receipts : Inserted(e)[f] = IF f \in Superseded(e) THEN "done"
                                   ELSE IF f = e THEN "pending" ELSE state[f]
      /\ \A f \in Superseded(e) : Replaced(e, f)
  BY InsertedFacts DEF Admit
<1>1. StoreTypeOK'
  BY <1>i DEF IInv, TypeOK, StoreTypeOK, Admit
<1>2. TaskTypeOK'
  BY DEF IInv, TypeOK, TaskTypeOK, Admit, Schedule
<1>3. HistoryTypeOK'
  BY <1>i DEF IInv, TypeOK, HistoryTypeOK, Admit
<1>4. StageInv'
  BY <1>i DEF IInv, StageInv, Admit, Schedule
<1>5. JobInv'
  BY DEF IInv, JobInv, Admit, Schedule
<1>6. RowInv'
  BY <1>i DEF IInv, RowInv, SourceSubmitted, Admit
<1>7. TurnsInv'
  BY <1>i DEF IInv, TurnsInv, SourceSubmitted, Admit, Schedule
<1>8. SendsInv'
  BY <1>i DEF IInv, SendsInv, SourceSubmitted, RowInv, Admit, Schedule
<1>9. RetiredInv'
  BY <1>i DEF IInv, RetiredInv, RetiredStaysRetired, StageInv, TypeOK, HistoryTypeOK,
      Admit, Schedule, Replaced
<1>10. SingleFlight'
  BY <1>i DEF IInv, SingleFlight, Admit, Schedule
<1> QED  BY <1>1, <1>2, <1>3, <1>4, <1>5, <1>6, <1>7, <1>8, <1>9, <1>10 DEF IInv, TypeOK

LEMMA AdmitAnswerStep ==
  ASSUME IInv, NEW e \in Receipts, AdmitAnswer(e)
  PROVE  IInv'
<1>0. <<Activation[e], Source[e]>> \in (Activations \cup {None}) \X Sources
  BY ReceiptsAssumption
<1>i. /\ Inserted(e) \in [Receipts -> ReceiptStates] /\ Superseded(e) \subseteq Receipts
      /\ \A f \in Receipts : Inserted(e)[f] = IF f \in Superseded(e) THEN "done"
                                   ELSE IF f = e THEN "pending" ELSE state[f]
      /\ \A f \in Superseded(e) : Replaced(e, f)
  BY InsertedFacts DEF AdmitAnswer
<1>1. StoreTypeOK'
  BY <1>0, <1>i DEF IInv, TypeOK, StoreTypeOK, ReceiptStates, AdmitAnswer, Consume
<1>2. TaskTypeOK'
  BY DEF IInv, TypeOK, TaskTypeOK, AdmitAnswer
<1>3. HistoryTypeOK'
  BY <1>i DEF IInv, TypeOK, HistoryTypeOK, AdmitAnswer
<1>4. StageInv'
  BY <1>i DEF IInv, StageInv, AdmitAnswer, Consume
<1>5. JobInv'
  BY <1>0, <1>i DEF IInv, JobInv, AdmitAnswer
<1>6. RowInv'
  BY <1>0, <1>i DEF IInv, RowInv, SourceSubmitted, AdmitAnswer, Consume
<1>7. TurnsInv'
  BY <1>0, <1>i DEF IInv, TurnsInv, SourceSubmitted, RowInv, AdmitAnswer, Consume
<1>8. SendsInv'
  BY <1>0, <1>i DEF IInv, SendsInv, SourceSubmitted, RowInv, StageInv, AdmitAnswer,
      Consume
<1>9. RetiredInv'
  BY <1>0, <1>i DEF IInv, RetiredInv, RetiredStaysRetired, StageInv, TypeOK,
      HistoryTypeOK, AdmitAnswer, Consume, Replaced
<1>10. SingleFlight'
  BY <1>0, <1>i DEF IInv, SingleFlight, AdmitAnswer, Consume
<1> QED  BY <1>1, <1>2, <1>3, <1>4, <1>5, <1>6, <1>7, <1>8, <1>9, <1>10 DEF IInv, TypeOK

LEMMA AnswerSlowlyStep ==
  ASSUME IInv, NEW e \in Receipts, AnswerSlowly(e)
  PROVE  IInv'
<1>i. \/ state' = state /\ retired' = retired
      \/ /\ state' \in [Receipts -> ReceiptStates]
         /\ \A f \in Receipts :
              state'[f] = IF f \in Superseded(e) THEN "done"
                          ELSE IF f = e THEN "pending" ELSE state[f]
         /\ state[e] = "absent" /\ e \notin Superseded(e)
         /\ retired' = retired \cup Superseded(e)
         /\ Superseded(e) \subseteq Receipts
         /\ \A f \in Superseded(e) : Replaced(e, f)
  BY InsertedFacts DEF AnswerSlowly
<1>j. /\ job' \in Job \cup {None} /\ pc # "stopped"
      /\ job' = job \/ (pc = "submit" /\ Covers(cur, job'))
  BY SubmissionFacts DEF AnswerSlowly, Interacts, Prepares, IInv, TypeOK, TaskTypeOK
<1>1. StoreTypeOK'
  BY <1>i DEF IInv, TypeOK, StoreTypeOK, AnswerSlowly
<1>2. TaskTypeOK'
  BY <1>j DEF IInv, TypeOK, TaskTypeOK, AnswerSlowly
<1>3. HistoryTypeOK'
  BY <1>i DEF IInv, TypeOK, HistoryTypeOK, AnswerSlowly
<1>4. StageInv'
  BY <1>i DEF IInv, StageInv, AnswerSlowly
<1>5. JobInv'
  BY <1>j DEF IInv, JobInv, AnswerSlowly
<1>6. RowInv'
  BY <1>i DEF IInv, RowInv, SourceSubmitted, AnswerSlowly
<1>7. TurnsInv'
  BY <1>i, <1>j DEF IInv, TurnsInv, SourceSubmitted, AnswerSlowly
<1>8. SendsInv'
  BY <1>i DEF IInv, SendsInv, SourceSubmitted, RowInv, AnswerSlowly
<1>9. RetiredInv'
  BY <1>i DEF IInv, RetiredInv, RetiredStaysRetired, StageInv, TypeOK, HistoryTypeOK,
      AnswerSlowly, Replaced
<1>10. SingleFlight'
  BY <1>i DEF IInv, SingleFlight, AnswerSlowly
<1> QED  BY <1>1, <1>2, <1>3, <1>4, <1>5, <1>6, <1>7, <1>8, <1>9, <1>10 DEF IInv, TypeOK

LEMMA StopsPreparationStep ==
  ASSUME IInv, NEW e \in Receipts, StopsPreparation(e)
  PROVE  IInv'
<1>j. /\ job' \in Job /\ job'.answers /\ Covers(cur, job')
      /\ pc = "submit" /\ pc' = "stopped"
  BY SubmissionFacts DEF StopsPreparation, Prepares
<1>u. UNCHANGED <<store, up, cur, timer, attempts, other, ghost, bounds>>
  BY DEF StopsPreparation
<1>1. StoreTypeOK' /\ HistoryTypeOK'
  BY <1>u DEF IInv, TypeOK, StoreTypeOK, HistoryTypeOK
<1>2. TaskTypeOK'
  BY <1>j, <1>u DEF IInv, TypeOK, TaskTypeOK
<1>3. StageInv' /\ RowInv' /\ RetiredInv' /\ SingleFlight'
  BY <1>j, <1>u DEF IInv, StageInv, RowInv, SourceSubmitted, RetiredInv, RetiredStaysRetired,
     SingleFlight
<1>4. JobInv'
  BY <1>j, <1>u, NoneAssumption DEF IInv, JobInv
<1>5. TurnsInv' /\ SendsInv'
  BY <1>j, <1>u DEF IInv, TurnsInv, SendsInv, SourceSubmitted
<1> QED  BY <1>1, <1>2, <1>3, <1>4, <1>5 DEF IInv, TypeOK

LEMMA InteractionReturnsStep ==
  ASSUME IInv, NEW e \in Receipts, InteractionReturns(e)
  PROVE  IInv'
<1>0. <<Activation[e], Source[e]>> \in (Activations \cup {None}) \X Sources
  BY ReceiptsAssumption
<1>1. StoreTypeOK'
  BY <1>0 DEF IInv, TypeOK, StoreTypeOK, ReceiptStates, InteractionReturns, Consume
<1>2. TaskTypeOK'
  BY DEF IInv, TypeOK, TaskTypeOK, InteractionReturns, Schedule
<1>3. HistoryTypeOK'
  BY DEF IInv, TypeOK, HistoryTypeOK, InteractionReturns
<1>4. StageInv'
  BY DEF IInv, StageInv, TypeOK, StoreTypeOK, InteractionReturns, Consume, Schedule
<1>5. JobInv'
  BY DEF IInv, JobInv, InteractionReturns, Schedule
<1>6. RowInv'
  BY <1>0 DEF IInv, RowInv, SourceSubmitted, TypeOK, StoreTypeOK, InteractionReturns,
      Consume
<1>7. TurnsInv'
  BY <1>0 DEF IInv, TurnsInv, SourceSubmitted, TypeOK, StoreTypeOK, InteractionReturns,
      Consume, Schedule
<1>8. SendsInv'
  BY <1>0 DEF IInv, SendsInv, SourceSubmitted, RowInv, TypeOK, StoreTypeOK,
      InteractionReturns, Consume, Schedule
<1>9. RetiredInv'
  BY <1>0 DEF IInv, RetiredInv, RetiredStaysRetired, TypeOK, StoreTypeOK,
      HistoryTypeOK, InteractionReturns, Consume, Schedule
<1>10. SingleFlight'
  BY DEF IInv, SingleFlight, TypeOK, StoreTypeOK, InteractionReturns, Consume, Schedule
<1> QED  BY <1>1, <1>2, <1>3, <1>4, <1>5, <1>6, <1>7, <1>8, <1>9, <1>10 DEF IInv, TypeOK

LEMMA RedeliverStep ==
  ASSUME IInv, NEW e \in Receipts, Redeliver(e)
  PROVE  IInv'
<1>1. StoreTypeOK'
  BY DEF IInv, TypeOK, StoreTypeOK, Redeliver
<1>2. TaskTypeOK'
  BY DEF IInv, TypeOK, TaskTypeOK, Redeliver, Schedule
<1>3. HistoryTypeOK'
  BY DEF IInv, TypeOK, HistoryTypeOK, Redeliver
<1>4. StageInv'
  BY DEF IInv, StageInv, Redeliver, Schedule
<1>5. JobInv'
  BY DEF IInv, JobInv, Redeliver, Schedule
<1>6. RowInv'
  BY DEF IInv, RowInv, SourceSubmitted, Redeliver
<1>7. TurnsInv'
  BY DEF IInv, TurnsInv, SourceSubmitted, Redeliver, Schedule
<1>8. SendsInv'
  BY DEF IInv, SendsInv, SourceSubmitted, Redeliver, Schedule
<1>9. RetiredInv'
  BY DEF IInv, RetiredInv, RetiredStaysRetired, Redeliver, Schedule
<1>10. SingleFlight'
  BY DEF IInv, SingleFlight, Redeliver, Schedule
<1> QED  BY <1>1, <1>2, <1>3, <1>4, <1>5, <1>6, <1>7, <1>8, <1>9, <1>10 DEF IInv, TypeOK

LEMMA RedeliverAnswerStep ==
  ASSUME IInv, NEW e \in Receipts, RedeliverAnswer(e)
  PROVE  IInv'
<1>0. <<Activation[e], Source[e]>> \in (Activations \cup {None}) \X Sources
  BY ReceiptsAssumption
<1>1. StoreTypeOK'
  BY <1>0 DEF IInv, TypeOK, StoreTypeOK, ReceiptStates, RedeliverAnswer, Consume
<1>2. TaskTypeOK'
  BY DEF IInv, TypeOK, TaskTypeOK, RedeliverAnswer
<1>3. HistoryTypeOK'
  BY DEF IInv, TypeOK, HistoryTypeOK, RedeliverAnswer
<1>4. StageInv'
  BY DEF IInv, StageInv, RedeliverAnswer, Consume
<1>5. JobInv'
  BY DEF IInv, JobInv, RedeliverAnswer
<1>6. RowInv'
  BY <1>0 DEF IInv, RowInv, SourceSubmitted, RedeliverAnswer, Consume
<1>7. TurnsInv'
  BY <1>0 DEF IInv, TurnsInv, SourceSubmitted, RedeliverAnswer, Consume
<1>8. SendsInv'
  BY <1>0 DEF IInv, SendsInv, SourceSubmitted, RowInv, RedeliverAnswer, Consume
<1>9. RetiredInv'
  BY <1>0 DEF IInv, RetiredInv, RetiredStaysRetired, RedeliverAnswer, Consume
<1>10. SingleFlight'
  BY DEF IInv, SingleFlight, RedeliverAnswer, Consume
<1> QED  BY <1>1, <1>2, <1>3, <1>4, <1>5, <1>6, <1>7, <1>8, <1>9, <1>10 DEF IInv, TypeOK

LEMMA RedeliverRevokedStep ==
  ASSUME IInv, NEW e \in Receipts, RedeliverRevoked(e)
  PROVE  IInv'
<1>1. StoreTypeOK'
  BY DEF IInv, TypeOK, StoreTypeOK, ReceiptStates, RedeliverRevoked
<1>2. TaskTypeOK'
  BY DEF IInv, TypeOK, TaskTypeOK, RedeliverRevoked, Schedule
<1>3. HistoryTypeOK'
  BY DEF IInv, TypeOK, HistoryTypeOK, RedeliverRevoked
<1>4. StageInv'
  BY DEF IInv, StageInv, RedeliverRevoked, Schedule
<1>5. JobInv'
  BY DEF IInv, JobInv, RedeliverRevoked, Schedule
<1>6. RowInv'
  BY DEF IInv, RowInv, SourceSubmitted, RedeliverRevoked
<1>7. TurnsInv'
  BY DEF IInv, TurnsInv, SourceSubmitted, RedeliverRevoked, Schedule
<1>8. SendsInv'
  BY DEF IInv, SendsInv, SourceSubmitted, RowInv, RedeliverRevoked, Schedule
<1>9. RetiredInv'
  BY DEF IInv, RetiredInv, RetiredStaysRetired, TurnsInv, StageInv, TypeOK,
      StoreTypeOK, RedeliverRevoked, Schedule, Retirable
<1>10. SingleFlight'
  BY DEF IInv, SingleFlight, RedeliverRevoked, Schedule
<1> QED  BY <1>1, <1>2, <1>3, <1>4, <1>5, <1>6, <1>7, <1>8, <1>9, <1>10 DEF IInv, TypeOK

LEMMA RaiseStep ==
  ASSUME IInv, pc \in Working, Raise(cur), faults' \in Nat
  PROVE  IInv'
<1>r. /\ state' \in [Receipts -> ReceiptStates]
      /\ \A f \in Receipts \ {cur} : state'[f] = state[f]
      /\ \/ state'[cur] = state[cur] /\ state[cur] \notin {"submitting", "sending"}
         \/ state[cur] \in {"submitting", "sending"} /\ state'[cur] = "uncertain"
         \/ state[cur] \in {"pending", "reply_pending"} /\ state'[cur] = "failed"
      /\ pc' \in {"idle", "loop"} /\ timer' \in BOOLEAN /\ attempts' \in Nat
  <2> cur \in Receipts
    BY DEF IInv, StageInv
  <2>1. Counted \in Nat
    BY DEF Counted, IInv, TypeOK, TaskTypeOK
  <2>2. CASE state[cur] = "done" /\ Channel = "whatsapp"
    BY <2>2 DEF Raise, IInv, TypeOK, StoreTypeOK, TaskTypeOK
  <2>3. CASE ~(state[cur] = "done" /\ Channel = "whatsapp")
    <3>1. CASE LosesTrack(cur)
      BY <3>1 DEF Raise, LosesTrack, IInv, TypeOK, StoreTypeOK, TaskTypeOK, ReceiptStates
    <3>2. CASE PreflightFails(cur)
      BY <2>1, <3>2 DEF Raise, PreflightFails, KeepsFailed, IInv, TypeOK, StoreTypeOK,
         ReceiptStates
    <3>3. CASE state[cur] = "uncertain" /\ timer' = TRUE /\ UNCHANGED <<state, attempts>>
      BY <3>3 DEF Raise, IInv, TypeOK, StoreTypeOK, TaskTypeOK
    <3>4. CASE state[cur] = "done" /\ UNCHANGED <<state, timer, attempts>>
      BY <3>4 DEF Raise, IInv, TypeOK, StoreTypeOK, TaskTypeOK
    <3> QED  BY <2>3, <3>1, <3>2, <3>3, <3>4 DEF Raise
  <2> QED  BY <2>2, <2>3
<1>u. UNCHANGED <<activation, submitted, reply, journal, notice, enriched, up, cur,
                  job, other, ghost, crashes, decisions>>
  BY DEF Raise
<1>1. StoreTypeOK'
  BY <1>r, <1>u DEF IInv, TypeOK, StoreTypeOK
<1>2. TaskTypeOK'
  BY <1>r, <1>u DEF IInv, TypeOK, TaskTypeOK
<1>3. HistoryTypeOK'
  BY <1>u DEF IInv, TypeOK, HistoryTypeOK
<1>4. StageInv'
  BY <1>r, <1>u DEF IInv, StageInv
<1>5. JobInv'
  BY <1>r, <1>u DEF IInv, JobInv
<1>6. RowInv'
  BY <1>r, <1>u DEF IInv, RowInv, SourceSubmitted
<1>7. TurnsInv'
  BY <1>r, <1>u DEF IInv, TurnsInv, SourceSubmitted
<1>8. SendsInv'
  BY <1>r, <1>u DEF IInv, SendsInv, SourceSubmitted, RowInv
<1>9. RetiredInv'
  BY <1>r, <1>u DEF IInv, RetiredInv, RetiredStaysRetired, TypeOK, HistoryTypeOK
<1>10. SingleFlight'
  BY <1>r, <1>u DEF IInv, SingleFlight
<1> QED  BY <1>1, <1>2, <1>3, <1>4, <1>5, <1>6, <1>7, <1>8, <1>9, <1>10 DEF IInv, TypeOK

LEMMA FaultStep == ASSUME IInv, Fault PROVE IInv'
<1>1. pc \in Working /\ faults' \in Nat
  BY DEF Fault, IInv, TypeOK, TaskTypeOK, HistoryTypeOK
<1> QED  BY <1>1, RaiseStep DEF Fault

LEMMA RepeatStep == ASSUME IInv, Repeat PROVE IInv'
<1>1. pc \in Working /\ faults' \in Nat
  BY DEF Repeat, IInv, TypeOK, HistoryTypeOK
<1> QED  BY <1>1, RaiseStep DEF Repeat

LEMMA PickStep ==
  ASSUME IInv, Pick
  PROVE  IInv'
<1>c. /\ pc = "loop" /\ up /\ job' = None /\ late' = {}
      /\ UNCHANGED <<activation, submitted, reply, journal, notice, enriched, up, timer,
                     other, turns, inits, sends, retired, bounds>>
  BY DEF Pick
<1>s. \/ pc' = "idle" /\ cur' = None /\ UNCHANGED <<state, attempts>>
      \/ /\ pc' = "rescue" /\ cur' \in Receipts /\ state[cur'] = "uncertain"
         /\ UNCHANGED <<state, attempts>>
      \/ /\ cur' \in Receipts /\ state' \in [Receipts -> ReceiptStates]
         /\ state[cur'] \in {"pending", "reply_pending", "failed"}
         /\ \A f \in Receipts \ {cur'} : state'[f] = state[f]
         /\ IF pc' = "loop" THEN state'[cur'] = "done"
            ELSE state'[cur'] = IF reply[cur'] = None THEN "pending" ELSE "reply_pending"
         /\ pc' \in {"loop", "deliver", "enrich", "submit", "load", "fence", "repeat"}
         /\ pc' = "deliver" <=> reply[cur'] # None
         /\ pc' \in Preparing => ~(<<Activation[cur'], Source[cur']>> \in submitted)
         /\ pc' = "load" => Phase[cur'] # "ordinary"
         /\ attempts' \in Nat
  <2>1. CASE /\ ~\E e \in Receipts : Ready(e)
             /\ pc' = "idle" /\ cur' = None /\ UNCHANGED <<state, attempts>>
    BY <2>1
  <2>2. CASE \E e \in Receipts :
               /\ Ready(e) /\ cur' = e
               /\ IF state[e] = "uncertain"
                  THEN pc' = "rescue" /\ UNCHANGED <<state, attempts>>
                  ELSE GoOn(e, IF state[e] # "failed" THEN state
                               ELSE [state EXCEPT ![e] = Resumed(e)])
    <3>1. PICK e \in Receipts :
               /\ Ready(e) /\ cur' = e
               /\ IF state[e] = "uncertain"
                  THEN pc' = "rescue" /\ UNCHANGED <<state, attempts>>
                  ELSE GoOn(e, IF state[e] # "failed" THEN state
                               ELSE [state EXCEPT ![e] = Resumed(e)])
      BY <2>2
    <3>2. CASE state[e] = "uncertain"
      BY <3>1, <3>2
    <3>3. CASE state[e] # "uncertain"
      <4> DEFINE st == IF state[e] # "failed" THEN state ELSE [state EXCEPT ![e] = Resumed(e)]
      <4>1. state[e] \in {"pending", "reply_pending", "failed"}
        BY <3>1, <3>3 DEF Ready
      <4>2. /\ st \in [Receipts -> ReceiptStates]
            /\ \A f \in Receipts \ {e} : st[f] = state[f]
            /\ st[e] = IF reply[e] = None THEN "pending" ELSE "reply_pending"
        BY <4>1 DEF Resumed, ReceiptStates, IInv, RowInv, TypeOK, StoreTypeOK
      <4>3. GoOn(e, st)
        BY <3>1, <3>3
      <4> HIDE DEF st
      <4> QED  BY <1>c, <3>1, <4>1, <4>2, <4>3, GoOnFacts DEF IInv
    <3> QED  BY <3>2, <3>3
  <2> QED  BY <2>1, <2>2 DEF Pick
<1>1. StoreTypeOK'
  BY <1>c, <1>s DEF IInv, TypeOK, StoreTypeOK
<1>2. TaskTypeOK'
  BY <1>c, <1>s DEF IInv, TypeOK, TaskTypeOK
<1>3. HistoryTypeOK'
  BY <1>c DEF IInv, TypeOK, HistoryTypeOK
<1>4. StageInv'
  <2>1. CASE pc' = "idle"
    BY <2>1 DEF StageInv
  <2>2. CASE pc' = "rescue"
    BY <1>c, <1>s, <2>2 DEF StageInv
  <2>3. CASE pc' \notin {"idle", "rescue"}
    BY <1>c, <1>s, ReceiptsAssumption DEF StageInv
  <2> QED  BY <2>1, <2>2, <2>3
<1>5. JobInv'
  BY <1>c, <1>s DEF IInv, JobInv
<1>6. RowInv'
  BY <1>c, <1>s DEF IInv, RowInv, SourceSubmitted
<1>7. TurnsInv'
  BY <1>c, <1>s DEF IInv, TurnsInv, SourceSubmitted
<1>8. SendsInv'
  BY <1>c, <1>s DEF IInv, SendsInv, SourceSubmitted, RowInv
<1>9. RetiredInv'
  BY <1>c, <1>s DEF IInv, RetiredInv, RetiredStaysRetired, TypeOK, HistoryTypeOK
<1>10. SingleFlight'
  BY <1>c, <1>s DEF IInv, SingleFlight
<1> QED  BY <1>1, <1>2, <1>3, <1>4, <1>5, <1>6, <1>7, <1>8, <1>9, <1>10 DEF IInv, TypeOK

LEMMA EnrichStep ==
  ASSUME IInv, Enrich
  PROVE  IInv'
<1>s. /\ cur \in Receipts
      /\ state' \in [Receipts -> ReceiptStates]
      /\ pc' \in {"loop", "deliver", "enrich", "submit", "load", "fence", "repeat"}
      /\ \A f \in Receipts \ {cur} : state'[f] = state[f]
      /\ IF pc' = "loop" THEN state'[cur] = "done" ELSE state'[cur] = state[cur]
      /\ pc' = "deliver" <=> reply'[cur] # None
      /\ pc' \in Preparing => ~(<<Activation[cur], Source[cur]>> \in submitted')
      /\ pc' = "load" => Phase[cur] # "ordinary"
      /\ attempts' \in Nat
  <2>1. cur \in Receipts /\ pc = "enrich" /\ reply[cur] = None
    BY DEF Enrich, IInv, StageInv
  <2>2. CASE GoOn(cur, state)
    BY <2>1, <2>2, GoOnFacts DEF IInv, TypeOK, StoreTypeOK
  <2>3. CASE state' = [state EXCEPT ![cur] = "done"] /\ pc' = "loop" /\ attempts' = 0
    BY <2>1, <2>3 DEF Enrich, IInv, TypeOK, StoreTypeOK, ReceiptStates
  <2> QED  BY <2>2, <2>3 DEF Enrich
<1>1. StoreTypeOK'
  BY <1>s DEF IInv, TypeOK, StoreTypeOK, Enrich
<1>2. TaskTypeOK'
  BY <1>s DEF IInv, TypeOK, TaskTypeOK, Enrich
<1>3. HistoryTypeOK'
  BY DEF IInv, TypeOK, HistoryTypeOK, Enrich
<1>4. StageInv'
  BY <1>s, ReceiptsAssumption DEF IInv, StageInv, Enrich
<1>5. JobInv'
  BY <1>s DEF IInv, JobInv, Enrich
<1>6. RowInv'
  BY <1>s DEF IInv, RowInv, SourceSubmitted, Enrich
<1>7. TurnsInv'
  BY <1>s, ReceiptsAssumption DEF IInv, TurnsInv, SourceSubmitted, Enrich
<1>8. SendsInv'
  BY <1>s, ReceiptsAssumption DEF IInv, SendsInv, SourceSubmitted, Enrich
<1>9. RetiredInv'
  BY <1>s, ReceiptsAssumption DEF IInv, RetiredInv, RetiredStaysRetired, TypeOK,
      HistoryTypeOK, Enrich
<1>10. SingleFlight'
  BY <1>s DEF IInv, SingleFlight, Enrich
<1> QED  BY <1>1, <1>2, <1>3, <1>4, <1>5, <1>6, <1>7, <1>8, <1>9, <1>10 DEF IInv, TypeOK

LEMMA LoadGoes ==
  ASSUME IInv, Load,
         Phase[cur] = "initialization" /\ Channel # "slack"
              => Trigger[Activation[cur]] = Source[cur]
  PROVE  IInv'
<1>s. /\ up /\ pc = "load" /\ cur \in Receipts /\ pc' = "submit"
      /\ job' \in Job /\ Covers(cur, job')
      /\ UNCHANGED <<store, up, cur, timer, attempts, other, ghost, bounds>>
  <2>1. Phase[cur] # "ordinary" /\ cur \in Receipts
    BY DEF Load, IInv, StageInv
  <2>2. Activation[cur] \in Activations
    BY <2>1, ReceiptsAssumption
  <2>3. PICK S \in Snapshots(cur), answers \in BOOLEAN :
          /\ answers => Source[cur] \in S \/ (Phase[cur] # "live" /\ Channel # "slack")
          /\ job' = [part |-> "init", sources |-> S, answers |-> answers, explains |-> notice]
    BY DEF Load
  <2>4. S \subseteq Sources /\ Trigger[Activation[cur]] \in S
    BY <2>2, ReceiptsAssumption DEF Snapshots
  <2>5. job' \in Job /\ Covers(cur, job')
    BY <2>1, <2>3, <2>4, ReceiptsAssumption DEF Job, Covers, IInv, TypeOK, StoreTypeOK
  <2> QED  BY <2>1, <2>5 DEF Load
<1>1. StoreTypeOK'
  BY <1>s DEF IInv, TypeOK, StoreTypeOK
<1>2. TaskTypeOK'
  BY <1>s DEF IInv, TypeOK, TaskTypeOK
<1>3. HistoryTypeOK'
  BY <1>s DEF IInv, TypeOK, HistoryTypeOK
<1>4. StageInv'
  BY <1>s DEF IInv, StageInv
<1>5. JobInv'
  BY <1>s DEF IInv, JobInv
<1>6. RowInv'
  BY <1>s DEF IInv, RowInv, SourceSubmitted
<1>7. TurnsInv'
  BY <1>s, NoneAssumption DEF IInv, TurnsInv, SourceSubmitted
<1>8. SendsInv'
  BY <1>s, NoneAssumption DEF IInv, SendsInv, SourceSubmitted
<1>9. RetiredInv'
  BY <1>s, NoneAssumption DEF IInv, RetiredInv, RetiredStaysRetired
<1>10. SingleFlight'
  BY <1>s DEF IInv, SingleFlight
<1> QED  BY <1>1, <1>2, <1>3, <1>4, <1>5, <1>6, <1>7, <1>8, <1>9, <1>10 DEF IInv, TypeOK

LEMMA LoadStep == ASSUME IInv, Load PROVE IInv'
<1>1. CASE Phase[cur] = "initialization" /\ Channel # "slack"
              => Trigger[Activation[cur]] = Source[cur]
  BY <1>1, LoadGoes
<1>2. CASE ~(Phase[cur] = "initialization" /\ Channel # "slack"
              => Trigger[Activation[cur]] = Source[cur])
  <2>1. pc \in Working /\ Raise(cur) /\ faults' \in Nat
    BY <1>2 DEF Load, IInv, TypeOK, HistoryTypeOK
  <2> QED  BY <2>1, RaiseStep
<1> QED  BY <1>1, <1>2

LEMMA FenceStep ==
  ASSUME IInv, Fence
  PROVE  IInv'
<1>s. /\ state' \in [Receipts -> ReceiptStates]
      /\ pc' \in {"loop", "deliver", "enrich", "submit", "load", "fence", "repeat"}
      /\ \A f \in Receipts \ {cur} : state'[f] = state[f]
      /\ IF pc' = "loop" THEN state'[cur] = "done" ELSE state'[cur] = state[cur]
      /\ pc' = "deliver" <=> reply'[cur] # None
      /\ pc' \in Preparing => ~(<<Activation[cur], Source[cur]>> \in submitted')
      /\ pc' = "load" => Phase[cur] # "ordinary"
      /\ attempts' \in Nat
  BY GoOnFacts DEF Fence, IInv, StageInv, TypeOK, StoreTypeOK
<1>1. StoreTypeOK'
  BY <1>s DEF IInv, TypeOK, StoreTypeOK, ActivationStates, Fence
<1>2. TaskTypeOK'
  BY <1>s DEF IInv, TypeOK, TaskTypeOK, Fence
<1>3. HistoryTypeOK'
  BY DEF IInv, TypeOK, HistoryTypeOK, Fence
<1>4. StageInv'
  BY <1>s, ReceiptsAssumption DEF IInv, StageInv, Fence
<1>5. JobInv'
  BY <1>s DEF IInv, JobInv, Fence
<1>6. RowInv'
  BY <1>s DEF IInv, RowInv, SourceSubmitted, Fence
<1>7. TurnsInv'
  BY <1>s, ReceiptsAssumption DEF IInv, TurnsInv, SourceSubmitted, Fence
<1>8. SendsInv'
  BY <1>s, ReceiptsAssumption DEF IInv, SendsInv, SourceSubmitted, Fence
<1>9. RetiredInv'
  BY <1>s, ReceiptsAssumption DEF IInv, RetiredInv, RetiredStaysRetired, StageInv,
      TypeOK, HistoryTypeOK, Fence
<1>10. SingleFlight'
  BY <1>s DEF IInv, SingleFlight, Fence
<1> QED  BY <1>1, <1>2, <1>3, <1>4, <1>5, <1>6, <1>7, <1>8, <1>9, <1>10 DEF IInv, TypeOK

LEMMA BeforeSubmitStep ==
  ASSUME IInv, BeforeSubmit
  PROVE  IInv'
<1>c. pc = "submit" /\ up /\ cur \in Receipts
  BY DEF BeforeSubmit, IInv, StageInv
<1>s. \/ /\ pc' = "loop" /\ UNCHANGED <<store, job, clients, turns, inits>>
         /\ state[cur] = "done"
      \/ /\ pc' = "turn" /\ job' \in Job /\ Covers(cur, job')
         /\ ~RetiredMeanwhile
         /\ state' = [state EXCEPT ![cur] = "submitting"]
         /\ activation' \in [Activations -> ActivationStates]
         /\ journal' = journal \/ journal' = [journal EXCEPT ![cur] = job']
         /\ clients' \subseteq Activations \cup {None}
         /\ turns' = IF job'.part = "turn" THEN [turns EXCEPT ![cur] = @ + 1] ELSE turns
         /\ inits' \in [Activations -> Nat]
         /\ UNCHANGED <<submitted, reply, notice, enriched>>
  <2>1. CASE RetiredMeanwhile
    BY <2>1 DEF BeforeSubmit, RetiredMeanwhile
  <2>2. CASE ~RetiredMeanwhile
    <3>1. PICK j \in Submission :
            LET command == j.part = "turn" /\ cur \in Control
                connected == ~command \/ Activation[cur] \in clients
            IN /\ job' = j
               /\ state' = [state EXCEPT ![cur] = "submitting"]
               /\ activation' = IF j.part = "turn" THEN activation
                    ELSE [activation EXCEPT ![Activation[cur]] = "submitting"]
               /\ journal' = IF connected THEN [journal EXCEPT ![cur] = j] ELSE journal
               /\ clients' = IF connected THEN clients \cup {Activation[cur]} ELSE clients
               /\ turns' = IF j.part = "turn" THEN [turns EXCEPT ![cur] = @ + 1] ELSE turns
               /\ inits' = IF j.part = "turn" THEN inits
                           ELSE [inits EXCEPT ![Activation[cur]] = @ + 1]
               /\ pc' = "turn"
      BY <2>2 DEF BeforeSubmit
    <3>2. j \in Job /\ Covers(cur, j)
      BY <1>c, SubmissionFacts
    <3>3. Activation[cur] \in Activations \cup {None}
      BY <1>c, ReceiptsAssumption
    <3>4. /\ activation' \in [Activations -> ActivationStates]
          /\ inits' \in [Activations -> Nat]
      <4>1. activation' \in [Activations -> ActivationStates]
        BY <3>1 DEF IInv, TypeOK, StoreTypeOK, ActivationStates
      <4>2. inits' = inits \/ inits' = [inits EXCEPT ![Activation[cur]] = @ + 1]
        BY <3>1
      <4>3. inits \in [Activations -> Nat]
        BY DEF IInv, TypeOK, HistoryTypeOK
      <4>4. inits' \in [Activations -> Nat]
        BY <4>2, <4>3
      <4> QED  BY <4>1, <4>4
    <3>5. clients' \subseteq Activations \cup {None}
      BY <3>1, <3>3 DEF IInv, TypeOK, TaskTypeOK
    <3>6. journal' = journal \/ journal' = [journal EXCEPT ![cur] = job']
      BY <3>1
    <3> QED  BY <2>2, <3>1, <3>2, <3>4, <3>5, <3>6 DEF BeforeSubmit
  <2> QED  BY <2>1, <2>2
<1>u. UNCHANGED <<submitted, reply, notice, enriched, up, cur, timer, attempts,
                  answering, sends, retired, late, bounds>>
  BY DEF BeforeSubmit
<1>1. StoreTypeOK'
  BY <1>s DEF IInv, TypeOK, StoreTypeOK, ReceiptStates
<1>2. TaskTypeOK'
  BY <1>s, <1>u DEF IInv, TypeOK, TaskTypeOK
<1>3. HistoryTypeOK'
  BY <1>s, <1>u DEF IInv, TypeOK, HistoryTypeOK
<1>4. StageInv'
  BY <1>c, <1>s, <1>u DEF IInv, StageInv, TypeOK, StoreTypeOK
<1>5. JobInv'
  BY <1>s, <1>u, NoneAssumption DEF IInv, JobInv, TypeOK, StoreTypeOK
<1>6. RowInv'
  BY <1>c, <1>s, NoneAssumption DEF IInv, RowInv, SourceSubmitted, StageInv, TypeOK,
      StoreTypeOK
<1>7. TurnsInv'
  BY <1>c, <1>s, <1>u, NoneAssumption DEF IInv, TurnsInv, SourceSubmitted, TypeOK,
      StoreTypeOK, HistoryTypeOK
<1>8. SendsInv'
  BY <1>c, <1>s, <1>u, NoneAssumption DEF IInv, SendsInv, SourceSubmitted, TypeOK,
      StoreTypeOK
<1>9. RetiredInv'
  BY <1>c, <1>s, <1>u, NoneAssumption DEF IInv, RetiredInv, RetiredStaysRetired,
      TypeOK, StoreTypeOK, HistoryTypeOK, RetiredMeanwhile
<1>10. SingleFlight'
  BY <1>c, <1>s, <1>u DEF IInv, SingleFlight, TypeOK, StoreTypeOK
<1> QED  BY <1>1, <1>2, <1>3, <1>4, <1>5, <1>6, <1>7, <1>8, <1>9, <1>10 DEF IInv, TypeOK

LEMMA TurnEndsStep ==
  ASSUME IInv, TurnEnds
  PROVE  IInv'
<1>p. PICK answer \in {job.answers, FALSE} :
        Settle(cur, job, answer) /\ GoOn(cur, SettledRow(cur, job, answer))
  BY DEF TurnEnds
<1>j. /\ pc = "turn" /\ up /\ cur \in Receipts /\ reply[cur] = None
      /\ job \in Job /\ answer \in BOOLEAN
      /\ job.answers \/ job.part = "turn" => Source[cur] \in job.sources
  BY DEF TurnEnds, IInv, StageInv, JobInv, Covers, TypeOK, TaskTypeOK, Job
<1>s. /\ state' \in [Receipts -> ReceiptStates]
      /\ \A f \in Receipts \ {cur} : state'[f] = state[f] /\ reply'[f] = reply[f]
      /\ \/ /\ state'[cur] = "reply_pending" /\ reply'[cur] # None
            /\ reply'[cur].part = job.part /\ job.part \in Parts
            /\ <<Activation[cur], Source[cur]>> \in submitted' /\ pc' = "deliver"
         \/ /\ state'[cur] \in {"pending", "done"} /\ reply'[cur] = None
            /\ \/ job.part = "init"
               \/ <<Activation[cur], Source[cur]>> \in submitted'
      /\ pc' \in {"loop", "deliver", "enrich", "submit", "load", "fence", "repeat"}
      /\ pc' = "deliver" <=> reply'[cur] # None
      /\ pc' \in Preparing => ~(<<Activation[cur], Source[cur]>> \in submitted')
      /\ pc' = "load" => Phase[cur] # "ordinary"
      /\ attempts' \in Nat
      /\ submitted \subseteq submitted'
      /\ submitted' \subseteq (Activations \cup {None}) \X Sources
      /\ reply' \in [Receipts -> SavedReply \cup {None}]
      /\ activation' \in [Activations -> ActivationStates] /\ notice' \in BOOLEAN
  <2>1. answer => job.answers
    OBVIOUS
  <2> QED  BY <1>p, <1>j, <2>1, SettleFacts, GoOnFacts DEF IInv, Job
<1>u. /\ clients' \subseteq clients /\ job' = None
      /\ UNCHANGED <<journal, enriched, up, cur, timer, answering, ghost, bounds>>
  BY DEF TurnEnds
<1>1. StoreTypeOK'
  BY <1>s, <1>u DEF IInv, TypeOK, StoreTypeOK
<1>2. TaskTypeOK'
  BY <1>s, <1>u DEF IInv, TypeOK, TaskTypeOK
<1>3. HistoryTypeOK'
  BY <1>u DEF IInv, TypeOK, HistoryTypeOK
<1>4. StageInv'
  BY <1>j, <1>s, <1>u, ReceiptsAssumption DEF StageInv
<1>5. JobInv'
  BY <1>s, <1>u, ReceiptsAssumption DEF IInv, JobInv
<1>6. RowInv'
  BY <1>s, <1>u, ReceiptsAssumption DEF IInv, RowInv, SourceSubmitted
<1>7. TurnsInv'
  BY <1>j, <1>s, <1>u, ReceiptsAssumption DEF IInv, TurnsInv, SourceSubmitted
<1>8. SendsInv'
  BY <1>j, <1>s, <1>u, ReceiptsAssumption DEF IInv, SendsInv, SourceSubmitted
<1>9. RetiredInv'
  BY <1>j, <1>s, <1>u, ReceiptsAssumption DEF IInv, RetiredInv, RetiredStaysRetired,
      TypeOK, HistoryTypeOK
<1>10. SingleFlight'
  BY <1>s, <1>u, ReceiptsAssumption DEF IInv, SingleFlight
<1> QED  BY <1>1, <1>2, <1>3, <1>4, <1>5, <1>6, <1>7, <1>8, <1>9, <1>10 DEF IInv, TypeOK

\* A stopped submission settles its receipt at once.
LEMMA StoppedGoes ==
  ASSUME IInv, SubmissionStopped
  PROVE  /\ up /\ pc = "stopped" /\ cur \in Receipts /\ pc' = "loop" /\ job' = None
         /\ state' = [state EXCEPT ![cur] = "done"] /\ attempts' = 0
         /\ submitted \subseteq submitted' /\ SourceSubmitted(cur)'
         /\ submitted' \subseteq (Activations \cup {None}) \X Sources
         /\ UNCHANGED <<activation, reply, journal, notice, enriched, up, cur, timer, other, ghost,
                        bounds>>
<1>1. /\ up /\ pc = "stopped" /\ cur \in Receipts /\ job' = None /\ reply[cur] = None
      /\ UNCHANGED <<activation, reply, journal, notice, enriched, up, cur, timer, other, ghost,
                     bounds>>
      /\ submitted' = submitted \cup ({Activation[cur]} \X job.sources)
      /\ GoOn(cur, SettledRow(cur, job, FALSE))
  BY DEF SubmissionStopped, IInv, StageInv
<1>2. job \in Job /\ Source[cur] \in job.sources
  BY <1>1 DEF IInv, JobInv, Covers, TypeOK, TaskTypeOK
<1>3. <<Activation[cur], Source[cur]>> \in submitted'
  BY <1>1, <1>2
<1>4. submitted' \subseteq (Activations \cup {None}) \X Sources
  BY <1>1, <1>2, ReceiptsAssumption DEF IInv, TypeOK, StoreTypeOK, Job
<1>5. Route(cur, reply', submitted', activation', enriched') = "finish"
  BY <1>1, <1>3 DEF Route
<1>6. state' = [state EXCEPT ![cur] = "done"] /\ pc' = "loop" /\ attempts' = 0
  BY <1>1, <1>5 DEF GoOn, SettledRow, IInv, TypeOK, StoreTypeOK
<1> QED  BY <1>1, <1>3, <1>4, <1>6 DEF SourceSubmitted

LEMMA SubmissionStoppedStep ==
  ASSUME IInv, SubmissionStopped
  PROVE  IInv'
<1>g. /\ up /\ pc = "stopped" /\ cur \in Receipts /\ pc' = "loop" /\ job' = None
      /\ state' = [state EXCEPT ![cur] = "done"] /\ attempts' = 0
      /\ submitted \subseteq submitted' /\ SourceSubmitted(cur)'
      /\ submitted' \subseteq (Activations \cup {None}) \X Sources
      /\ UNCHANGED <<activation, reply, journal, notice, enriched, up, cur, timer, other, ghost,
                     bounds>>
  BY StoppedGoes
<1>1. StoreTypeOK'
  BY <1>g DEF IInv, TypeOK, StoreTypeOK, ReceiptStates
<1>2. TaskTypeOK' /\ HistoryTypeOK'
  BY <1>g DEF IInv, TypeOK, TaskTypeOK, HistoryTypeOK
<1>3. StageInv'
  BY <1>g DEF IInv, StageInv
<1>4. JobInv'
  BY <1>g DEF IInv, JobInv
<1>5. RowInv'
  BY <1>g DEF IInv, RowInv, StageInv, SourceSubmitted, TypeOK, StoreTypeOK
<1>6. TurnsInv'
  BY <1>g DEF IInv, TurnsInv, SourceSubmitted, TypeOK, StoreTypeOK
<1>7. SendsInv'
  BY <1>g DEF IInv, SendsInv, StageInv, SourceSubmitted, TypeOK, StoreTypeOK
<1>8. RetiredInv'
  BY <1>g DEF IInv, RetiredInv, RetiredStaysRetired, TypeOK, StoreTypeOK, HistoryTypeOK
<1>9. SingleFlight'
  BY <1>g DEF IInv, SingleFlight, TypeOK, StoreTypeOK
<1> QED  BY <1>1, <1>2, <1>3, <1>4, <1>5, <1>6, <1>7, <1>8, <1>9 DEF IInv, TypeOK

LEMMA SendStartsGoes ==
  ASSUME IInv, SendStarts, state[cur] = "reply_pending"
  PROVE  IInv'
<1>p. /\ pc = "deliver" /\ cur \in Receipts /\ reply[cur] # None
      /\ reply[cur].part \in Parts /\ sends[cur][reply[cur].part] = 0
  BY DEF SendStarts, IInv, StageInv, SendsInv, TypeOK, StoreTypeOK, SavedReply
<1>s. /\ sends' \in [Receipts -> Tally]
      /\ \A f \in Receipts \ {cur} : sends'[f] = sends[f]
      /\ \A p \in Parts :
           sends'[cur][p] = IF p = reply[cur].part THEN 1 ELSE sends[cur][p]
  BY <1>p DEF SendStarts, IInv, TypeOK, HistoryTypeOK, Tally
<1>u. /\ state' = [state EXCEPT ![cur] = "sending"]
      /\ up /\ pc' = "send"
      /\ UNCHANGED <<activation, submitted, reply, journal, notice, enriched, up, cur,
                     job, timer, attempts, other, turns, inits, retired, late, bounds>>
  BY DEF SendStarts
<1>1. StoreTypeOK'
  BY <1>u DEF IInv, TypeOK, StoreTypeOK, ReceiptStates
<1>2. TaskTypeOK'
  BY <1>u DEF IInv, TypeOK, TaskTypeOK
<1>3. HistoryTypeOK'
  BY <1>s, <1>u DEF IInv, TypeOK, HistoryTypeOK
<1>4. StageInv'
  BY <1>p, <1>u DEF IInv, StageInv, TypeOK, StoreTypeOK
<1>5. JobInv'
  BY <1>p, <1>u DEF IInv, JobInv
<1>6. RowInv'
  BY <1>u DEF IInv, RowInv, SourceSubmitted
<1>7. TurnsInv'
  BY <1>p, <1>s, <1>u DEF IInv, TurnsInv, SourceSubmitted
<1>8. SendsInv'
  BY <1>p, <1>s, <1>u DEF IInv, SendsInv, SourceSubmitted, RowInv, TypeOK, StoreTypeOK
<1>9. RetiredInv'
  BY <1>s, <1>u DEF IInv, RetiredInv, RetiredStaysRetired
<1>10. SingleFlight'
  BY <1>u DEF IInv, SingleFlight
<1> QED  BY <1>1, <1>2, <1>3, <1>4, <1>5, <1>6, <1>7, <1>8, <1>9, <1>10 DEF IInv, TypeOK

LEMMA SendStartsStep == ASSUME IInv, SendStarts PROVE IInv'
<1>1. CASE state[cur] = "reply_pending"
  BY <1>1, SendStartsGoes
<1>2. CASE ~(state[cur] = "reply_pending")
  <2>1. pc \in Working /\ Raise(cur) /\ faults' \in Nat
    BY <1>2 DEF SendStarts, IInv, TypeOK, HistoryTypeOK
  <2> QED  BY <2>1, RaiseStep
<1> QED  BY <1>1, <1>2

LEMMA SendEndsStep ==
  ASSUME IInv, SendEnds
  PROVE  IInv'
<1>p. /\ pc = "send" /\ cur \in Receipts /\ reply[cur] \in SavedReply
      /\ [state EXCEPT ![cur] = reply[cur].next] \in [Receipts -> ReceiptStates]
      /\ reply[cur].next \in {"pending", "done"}
  BY DEF SendEnds, IInv, StageInv, TypeOK, StoreTypeOK, SavedReply, ReceiptStates
<1>s. /\ state' \in [Receipts -> ReceiptStates]
      /\ pc' \in {"loop", "deliver", "enrich", "submit", "load", "fence", "repeat"}
      /\ \A f \in Receipts \ {cur} : state'[f] = state[f]
      /\ IF pc' = "loop" THEN state'[cur] = "done" ELSE state'[cur] = reply[cur].next
      /\ pc' = "deliver" <=> reply'[cur] # None
      /\ pc' \in Preparing => ~(<<Activation[cur], Source[cur]>> \in submitted')
      /\ pc' = "load" => Phase[cur] # "ordinary"
      /\ attempts' \in Nat
  BY <1>p, GoOnFacts DEF SendEnds, IInv
<1>1. StoreTypeOK'
  BY <1>s DEF IInv, TypeOK, StoreTypeOK, SendEnds
<1>2. TaskTypeOK'
  BY <1>s DEF IInv, TypeOK, TaskTypeOK, SendEnds
<1>3. HistoryTypeOK'
  BY DEF IInv, TypeOK, HistoryTypeOK, SendEnds
<1>4. StageInv'
  BY <1>p, <1>s, ReceiptsAssumption DEF IInv, StageInv, TypeOK, StoreTypeOK, SendEnds
<1>5. JobInv'
  BY <1>s DEF IInv, JobInv, SendEnds
<1>6. RowInv'
  BY <1>p, <1>s, ReceiptsAssumption DEF IInv, RowInv, SourceSubmitted, TypeOK,
      StoreTypeOK, SendEnds
<1>7. TurnsInv'
  BY <1>p, <1>s, ReceiptsAssumption DEF IInv, TurnsInv, SourceSubmitted, RowInv,
      StageInv, SendEnds
<1>8. SendsInv'
  BY <1>p, <1>s, ReceiptsAssumption DEF IInv, SendsInv, SourceSubmitted, SendEnds
<1>9. RetiredInv'
  BY <1>p, <1>s, ReceiptsAssumption DEF IInv, RetiredInv, RetiredStaysRetired, TypeOK,
      HistoryTypeOK, SendEnds
<1>10. SingleFlight'
  BY <1>p, <1>s DEF IInv, SingleFlight, StageInv
<1> QED  BY <1>1, <1>2, <1>3, <1>4, <1>5, <1>6, <1>7, <1>8, <1>9, <1>10 DEF IInv, TypeOK

LEMMA RescueRecoversStep ==
  ASSUME IInv, RescueRecovers
  PROVE  IInv'
<1>p. PICK answer \in BOOLEAN :
        Settle(cur, journal[cur], answer) /\ state' = SettledRow(cur, journal[cur], answer)
  BY DEF RescueRecovers
<1>j. /\ pc = "rescue" /\ up /\ cur \in Receipts /\ reply[cur] = None
      /\ journal[cur] \in Job /\ Source[cur] \in journal[cur].sources
  BY DEF RescueRecovers, Recoverable, IInv, StageInv, JobInv, Covers, TypeOK, StoreTypeOK
<1>s. /\ state' \in [Receipts -> ReceiptStates]
      /\ \A f \in Receipts \ {cur} : state'[f] = state[f] /\ reply'[f] = reply[f]
      /\ \/ state'[cur] = "reply_pending" /\ reply'[cur] # None /\ reply'[cur].part \in Parts
         \/ state'[cur] \in {"pending", "done"} /\ reply'[cur] = None
      /\ submitted \subseteq submitted'
      /\ <<Activation[cur], Source[cur]>> \in submitted'
      /\ submitted' \subseteq (Activations \cup {None}) \X Sources
      /\ reply' \in [Receipts -> SavedReply \cup {None}]
      /\ activation' \in [Activations -> ActivationStates] /\ notice' \in BOOLEAN
  BY <1>p, <1>j, SettleFacts DEF IInv, Job
<1>u. /\ pc' = "loop" /\ clients' \subseteq clients
      /\ UNCHANGED <<journal, enriched, up, cur, job, timer, attempts, answering, ghost, bounds>>
  BY DEF RescueRecovers
<1>1. StoreTypeOK'
  BY <1>s, <1>u DEF IInv, TypeOK, StoreTypeOK
<1>2. TaskTypeOK'
  BY <1>u DEF IInv, TypeOK, TaskTypeOK
<1>3. HistoryTypeOK'
  BY <1>u DEF IInv, TypeOK, HistoryTypeOK
<1>4. StageInv'
  BY <1>j, <1>u DEF StageInv
<1>5. JobInv'
  BY <1>u DEF IInv, JobInv
<1>6. RowInv'
  BY <1>s DEF IInv, RowInv, SourceSubmitted
<1>7. TurnsInv'
  BY <1>j, <1>s, <1>u DEF IInv, TurnsInv, SourceSubmitted
<1>8. SendsInv'
  BY <1>j, <1>s, <1>u DEF IInv, SendsInv, SourceSubmitted
<1>9. RetiredInv'
  BY <1>j, <1>s, <1>u DEF IInv, RetiredInv, RetiredStaysRetired, TypeOK, HistoryTypeOK
<1>10. SingleFlight'
  BY <1>s, <1>u DEF IInv, SingleFlight
<1> QED  BY <1>1, <1>2, <1>3, <1>4, <1>5, <1>6, <1>7, <1>8, <1>9, <1>10 DEF IInv, TypeOK

LEMMA RescueQuarantinesStep ==
  ASSUME IInv, RescueQuarantines
  PROVE  IInv'
<1>1. StoreTypeOK'
  BY DEF IInv, TypeOK, StoreTypeOK, ReceiptStates, ActivationStates, RescueQuarantines,
      Interrupted
<1>2. TaskTypeOK'
  BY DEF IInv, TypeOK, TaskTypeOK, RescueQuarantines
<1>3. HistoryTypeOK'
  BY DEF IInv, TypeOK, HistoryTypeOK, RescueQuarantines
<1>4. StageInv'
  BY DEF StageInv, RescueQuarantines
<1>5. JobInv'
  BY DEF IInv, JobInv, RescueQuarantines
<1>6. RowInv'
  BY DEF IInv, RowInv, SourceSubmitted, RescueQuarantines
<1>7. TurnsInv'
  BY DEF IInv, TurnsInv, SourceSubmitted, RescueQuarantines
<1>8. SendsInv'
  BY DEF IInv, SendsInv, SourceSubmitted, RescueQuarantines
<1>9. RetiredInv'
  BY DEF IInv, RetiredInv, RetiredStaysRetired, RescueQuarantines
<1>10. SingleFlight'
  BY DEF IInv, SingleFlight, RescueQuarantines
<1> QED  BY <1>1, <1>2, <1>3, <1>4, <1>5, <1>6, <1>7, <1>8, <1>9, <1>10 DEF IInv, TypeOK

LEMMA TimerStep ==
  ASSUME IInv, Timer
  PROVE  IInv'
<1>1. StoreTypeOK'
  BY DEF IInv, TypeOK, StoreTypeOK, Timer
<1>2. TaskTypeOK'
  BY DEF IInv, TypeOK, TaskTypeOK, Timer, Schedule
<1>3. HistoryTypeOK'
  BY DEF IInv, TypeOK, HistoryTypeOK, Timer
<1>4. StageInv'
  BY DEF StageInv, Timer, Schedule
<1>5. JobInv'
  BY DEF IInv, JobInv, Timer, Schedule
<1>6. RowInv'
  BY DEF IInv, RowInv, SourceSubmitted, Timer
<1>7. TurnsInv'
  BY DEF IInv, TurnsInv, SourceSubmitted, Timer, Schedule
<1>8. SendsInv'
  BY DEF IInv, SendsInv, SourceSubmitted, Timer, Schedule
<1>9. RetiredInv'
  BY DEF IInv, RetiredInv, RetiredStaysRetired, Timer, Schedule
<1>10. SingleFlight'
  BY DEF IInv, SingleFlight, Timer
<1> QED  BY <1>1, <1>2, <1>3, <1>4, <1>5, <1>6, <1>7, <1>8, <1>9, <1>10 DEF IInv, TypeOK

LEMMA CrashStep ==
  ASSUME IInv, Crash
  PROVE  IInv'
<1>1. StoreTypeOK'
  BY DEF IInv, TypeOK, StoreTypeOK, Crash
<1>2. TaskTypeOK'
  BY DEF TaskTypeOK, Crash
<1>3. HistoryTypeOK'
  BY DEF IInv, TypeOK, HistoryTypeOK, Crash
<1>4. StageInv'
  BY DEF StageInv, Crash
<1>5. JobInv'
  BY DEF IInv, JobInv, Crash
<1>6. RowInv'
  BY DEF IInv, RowInv, SourceSubmitted, Crash
<1>7. TurnsInv'
  BY DEF IInv, TurnsInv, SourceSubmitted, Crash
<1>8. SendsInv'
  BY DEF IInv, SendsInv, SourceSubmitted, Crash
<1>9. RetiredInv'
  BY DEF IInv, RetiredInv, RetiredStaysRetired, Crash
<1>10. SingleFlight'
  BY DEF IInv, SingleFlight, Crash
<1> QED  BY <1>1, <1>2, <1>3, <1>4, <1>5, <1>6, <1>7, <1>8, <1>9, <1>10 DEF IInv, TypeOK

LEMMA RestartStep ==
  ASSUME IInv, Restart
  PROVE  IInv'
<1>1. StoreTypeOK'
  BY DEF IInv, TypeOK, StoreTypeOK, ReceiptStates, ActivationStates, Restart,
      MarkInFlight
<1>2. TaskTypeOK'
  BY DEF IInv, TypeOK, TaskTypeOK, Restart
<1>3. HistoryTypeOK'
  BY DEF IInv, TypeOK, HistoryTypeOK, Restart
<1>4. StageInv'
  BY DEF StageInv, Restart
<1>5. JobInv'
  BY DEF IInv, JobInv, Restart
<1>6. RowInv'
  BY DEF IInv, RowInv, SourceSubmitted, Restart, MarkInFlight
<1>7. TurnsInv'
  BY DEF IInv, TurnsInv, SourceSubmitted, Restart, MarkInFlight
<1>8. SendsInv'
  BY DEF IInv, SendsInv, SourceSubmitted, RowInv, Restart, MarkInFlight
<1>9. RetiredInv'
  BY DEF IInv, RetiredInv, RetiredStaysRetired, TypeOK, HistoryTypeOK, Restart,
      MarkInFlight
<1>10. SingleFlight'
  BY DEF SingleFlight, Restart, MarkInFlight
<1> QED  BY <1>1, <1>2, <1>3, <1>4, <1>5, <1>6, <1>7, <1>8, <1>9, <1>10 DEF IInv, TypeOK

LEMMA OperatorOpensStep ==
  ASSUME IInv, OperatorOpens
  PROVE  IInv'
<1>1. StoreTypeOK'
  BY DEF IInv, TypeOK, StoreTypeOK, ReceiptStates, ActivationStates, OperatorOpens,
      MarkInFlight
<1>2. TaskTypeOK'
  BY DEF IInv, TypeOK, TaskTypeOK, OperatorOpens
<1>3. HistoryTypeOK'
  BY DEF IInv, TypeOK, HistoryTypeOK, OperatorOpens
<1>4. StageInv'
  BY DEF IInv, StageInv, OperatorOpens
<1>5. JobInv'
  BY DEF IInv, JobInv, OperatorOpens
<1>6. RowInv'
  BY DEF IInv, RowInv, SourceSubmitted, OperatorOpens, MarkInFlight
<1>7. TurnsInv'
  BY DEF IInv, TurnsInv, SourceSubmitted, OperatorOpens, MarkInFlight
<1>8. SendsInv'
  BY DEF IInv, SendsInv, SourceSubmitted, RowInv, OperatorOpens, MarkInFlight
<1>9. RetiredInv'
  BY DEF IInv, RetiredInv, RetiredStaysRetired, TypeOK, HistoryTypeOK, OperatorOpens,
      MarkInFlight
<1>10. SingleFlight'
  BY DEF SingleFlight, OperatorOpens, MarkInFlight
<1> QED  BY <1>1, <1>2, <1>3, <1>4, <1>5, <1>6, <1>7, <1>8, <1>9, <1>10 DEF IInv, TypeOK

LEMMA RetireStep ==
  ASSUME IInv, NEW e \in Receipts, Retire(e)
  PROVE  IInv'
<1>1. StoreTypeOK'
  BY DEF IInv, TypeOK, StoreTypeOK, ReceiptStates, ActivationStates, Retire,
      SetActivation
<1>2. TaskTypeOK'
  BY DEF IInv, TypeOK, TaskTypeOK, Retire
<1>3. HistoryTypeOK'
  BY DEF IInv, TypeOK, HistoryTypeOK, Retire, Decidable
<1>4. StageInv'
  BY DEF IInv, StageInv, Retire
<1>5. JobInv'
  BY DEF IInv, JobInv, Retire
<1>6. RowInv'
  BY DEF IInv, RowInv, SourceSubmitted, Retire
<1>7. TurnsInv'
  BY DEF IInv, TurnsInv, SourceSubmitted, Retire
<1>8. SendsInv'
  BY DEF IInv, SendsInv, SourceSubmitted, RowInv, Retire
<1>9. RetiredInv'
  BY DEF IInv, RetiredInv, RetiredStaysRetired, Retire
<1>10. SingleFlight'
  BY DEF IInv, SingleFlight, Retire
<1> QED  BY <1>1, <1>2, <1>3, <1>4, <1>5, <1>6, <1>7, <1>8, <1>9, <1>10 DEF IInv, TypeOK

LEMMA RetryStep ==
  ASSUME IInv, NEW e \in Receipts, NEW ack \in BOOLEAN, Retry(e, ack)
  PROVE  IInv'
<1>a. activation' \in [Activations -> ActivationStates]
  BY DEF Retry, SetActivation, IInv, TypeOK, StoreTypeOK, ActivationStates
<1>s. /\ state' \in [Receipts -> ReceiptStates]
      /\ \A f \in Receipts \ {e} : state'[f] = state[f]
      /\ state'[e] = IF reply[e] = None THEN "pending" ELSE "reply_pending"
      /\ state[e] # "done"
  BY DEF Retry, Decidable, Resumed, IInv, TypeOK, StoreTypeOK, ReceiptStates
<1>g. /\ turns' \in [Receipts -> Nat] /\ inits' \in [Activations -> Nat]
      /\ sends' \in [Receipts -> Tally]
      /\ \A f \in Receipts \ {e} : turns'[f] = turns[f] /\ sends'[f] = sends[f]
      /\ \/ /\ turns'[e] = turns[e] /\ sends'[e] = sends[e]
            /\ state[e] \in {"pending", "failed", "reply_pending"}
         \/ turns'[e] = 0 /\ \A p \in Parts : sends'[e][p] = 0
  <2>1. CASE ack
    BY <2>1 DEF Retry, IInv, TypeOK, HistoryTypeOK, Tally
  <2>2. CASE ~ack
    <3>1. state[e] \in {"pending", "failed", "reply_pending"}
      BY <2>2 DEF Retry, Decidable, Ambiguous, Opened, IInv, TypeOK, StoreTypeOK,
         ReceiptStates
    <3> QED  BY <2>2, <3>1 DEF Retry, IInv, TypeOK, HistoryTypeOK
  <2> QED  BY <2>1, <2>2
<1>u. /\ ~up /\ decisions' \in Nat
      /\ UNCHANGED <<submitted, reply, journal, notice, enriched, up, task, other,
                     retired, late, faults, crashes>>
  BY DEF Retry, Decidable, IInv, TypeOK, HistoryTypeOK
<1>1. StoreTypeOK'
  BY <1>a, <1>s, <1>u DEF IInv, TypeOK, StoreTypeOK
<1>2. TaskTypeOK'
  BY <1>u DEF IInv, TypeOK, TaskTypeOK
<1>3. HistoryTypeOK'
  BY <1>g, <1>u DEF IInv, TypeOK, HistoryTypeOK
<1>4. StageInv'
  BY <1>u DEF IInv, StageInv
<1>5. JobInv'
  BY <1>u DEF IInv, JobInv
<1>6. RowInv'
  BY <1>s, <1>u DEF IInv, RowInv, SourceSubmitted
<1>7. TurnsInv'
  BY <1>a, <1>s, <1>g, <1>u DEF IInv, TurnsInv, SourceSubmitted
<1>8. SendsInv'
  BY <1>a, <1>s, <1>g, <1>u DEF IInv, SendsInv, SourceSubmitted, RowInv, TypeOK,
      StoreTypeOK, SavedReply
<1>9. RetiredInv'
  BY <1>s, <1>g, <1>u DEF IInv, RetiredInv, RetiredStaysRetired, TypeOK, HistoryTypeOK
<1>10. SingleFlight'
  BY <1>s, <1>u DEF IInv, SingleFlight
<1> QED  BY <1>1, <1>2, <1>3, <1>4, <1>5, <1>6, <1>7, <1>8, <1>9, <1>10 DEF IInv, TypeOK

-----------------------------------------------------------------------------
LEMMA InitHolds == Init => IInv
<1> SUFFICES ASSUME Init PROVE IInv
  OBVIOUS
<1>1. TypeOK
  BY DEF Init, TypeOK, StoreTypeOK, TaskTypeOK, HistoryTypeOK, ReceiptStates,
     ActivationStates, Tally
<1>2. StageInv /\ JobInv /\ RowInv /\ RetiredInv /\ SingleFlight
  BY DEF Init, StageInv, JobInv, RowInv, RetiredInv, RetiredStaysRetired, SingleFlight
<1>3. TurnsInv /\ SendsInv
  BY DEF Init, TurnsInv, SendsInv
<1> QED  BY <1>1, <1>2, <1>3 DEF IInv

LEMMA StutterStep == ASSUME IInv, UNCHANGED vars PROVE IInv'
<1>1. TypeOK'
  BY DEF vars, IInv, TypeOK, StoreTypeOK, TaskTypeOK, HistoryTypeOK
<1>2. StageInv' /\ JobInv' /\ RowInv'
  BY DEF vars, IInv, StageInv, JobInv, RowInv, SourceSubmitted
<1>3. TurnsInv' /\ SendsInv'
  BY DEF vars, IInv, TurnsInv, SendsInv, SourceSubmitted
<1>4. RetiredInv' /\ SingleFlight'
  BY DEF vars, IInv, RetiredInv, RetiredStaysRetired, SingleFlight
<1> QED  BY <1>1, <1>2, <1>3, <1>4 DEF IInv

LEMMA NextStep == ASSUME IInv, [Next]_vars PROVE IInv'
<1>1. ASSUME NEW e \in Receipts,
             \/ Admit(e) \/ AdmitAnswer(e) \/ AnswerSlowly(e) \/ InteractionReturns(e)
             \/ StopsPreparation(e) \/ Redeliver(e) \/ RedeliverAnswer(e) \/ RedeliverRevoked(e)
      PROVE  IInv'
  BY <1>1, StopsPreparationStep, AdmitStep, AdmitAnswerStep, AnswerSlowlyStep, InteractionReturnsStep,
     RedeliverStep, RedeliverAnswerStep, RedeliverRevokedStep
<1>2. CASE Deliveries
  BY <1>1, <1>2 DEF Deliveries
<1>3. CASE Drain
  BY <1>3, PickStep, EnrichStep, LoadStep, RepeatStep, FenceStep, BeforeSubmitStep,
     SubmissionStoppedStep, TurnEndsStep, SendStartsStep, SendEndsStep, RescueRecoversStep,
     RescueQuarantinesStep DEF Drain
<1>4. CASE Fault \/ Timer \/ Crash \/ Restart
  BY <1>4, FaultStep, TimerStep, CrashStep, RestartStep
<1>5. CASE Operator
  BY <1>5, OperatorOpensStep, RetireStep, RetryStep DEF Operator
<1>6. CASE UNCHANGED vars
  BY <1>6, StutterStep
<1> QED  BY <1>2, <1>3, <1>4, <1>5, <1>6 DEF Next

\* The inductive invariant holds in every reachable state.
THEOREM Invariant == Spec => []IInv
<1> QED  BY InitHolds, NextStep, PTL DEF Spec

\* The tables, the task and the history always hold values of their types.
THEOREM TypeCorrect == Spec => []TypeOK
<1>1. IInv => TypeOK
  BY DEF IInv
<1> QED  BY <1>1, Invariant, PTL

\* No automatic path submits an input or sends an answer twice: across crashes,
\* redeliveries, rescues and timers, only an acknowledged decision repeats one.
THEOREM NeverRepeated == Spec => []AtMostOnce
<1>1. IInv => AtMostOnce
  BY DEF IInv, TurnsInv, SendsInv, AtMostOnce
<1> QED  BY <1>1, Invariant, PTL

\* An answer that waits for its send is saved, and its input is on record.
THEOREM AnswersAreHeld == Spec => []AnswerHeld
<1>1. IInv => AnswerHeld
  BY DEF IInv, RowInv, AnswerHeld
<1> QED  BY <1>1, Invariant, PTL

\* One effect at a time, and it is the task's.
THEOREM OneEffectAtATime == Spec => []SingleFlight
<1>1. IInv => SingleFlight
  BY DEF IInv
<1> QED  BY <1>1, Invariant, PTL

\* A receipt settled by a revocation is never submitted.
THEOREM RevocationIsFinal == Spec => []RetiredStaysRetired
<1>1. IInv => RetiredStaysRetired
  BY DEF IInv, RetiredInv
<1> QED  BY <1>1, Invariant, PTL
-----------------------------------------------------------------------------
(* No input is repeated, dropped or stranded *)

\* The snapshot of an activation holds its trigger, and an initialization submits
\* one only for its own trigger (Slack apart).
Snapshot(e, j) ==
  j.part = "init" =>
    /\ Phase[e] # "ordinary" /\ Trigger[Activation[e]] \in j.sources
    /\ Phase[e] = "initialization" /\ Channel # "slack" => Trigger[Activation[e]] = Source[e]

\* Until an operator decides, an activation that was submitted has a row that says so,
\* and the task prepares a snapshot only of one that has no row.
TriggerInv ==
  decisions = 0 =>
    /\ \A a \in Activations : inits[a] \in {0, 1} /\ (inits[a] = 1 => activation[a] # "none")
    /\ pc = "load" \/ (pc = "submit" /\ job # None /\ job.part = "init")
         => activation[Activation[cur]] = "none"

SnapshotInv ==
  /\ pc \in {"submit", "stopped", "turn"} /\ job # None => Snapshot(cur, job)
  /\ \A e \in Receipts : journal[e] # None => Snapshot(e, journal[e])
  /\ pc = "enrich" => Channel = "whatsapp"

\* What is unfinished and older than the receipt under way came after it was picked.
LateInv == pc \in Working => \A f \in Unfinished : Sequence[f] < Sequence[cur] => f \in late

AccountInv == TriggerInv /\ SnapshotInv /\ SettledIsAccountedFor /\ NoStrandedScope /\ LateInv

\* The reasons that SettledIsAccountedFor accepts.
Accounted(e) ==
  \/ SourceSubmitted(e)
  \/ e \in Disallowed
  \/ /\ Phase[e] = "initialization" /\ Source[e] = Trigger[Activation[e]]
     /\ activation[Activation[e]] \notin {"none", "submitting"}

\* Where process goes next, and why.
LEMMA GoOnReasons ==
  ASSUME NEW e \in Receipts, NEW st \in [Receipts -> ReceiptStates], GoOn(e, st)
  PROVE  /\ pc' = "load" => activation'[Activation[e]] = "none"
         /\ pc' = "enrich" => Channel = "whatsapp"
         /\ pc' = "loop" => state'[e] = "done" /\ Accounted(e)'
         /\ pc' # "loop" => state' = st
         /\ reply'[e] = None /\ <<Activation[e], Source[e]>> \in submitted' => pc' = "loop"
         /\ pc' # "idle"
<1>1. /\ pc' = "load" => activation'[Activation[e]] = "none"
      /\ pc' = "enrich" => Channel = "whatsapp"
      /\ pc' # "loop" => state' = st
      /\ reply'[e] = None /\ <<Activation[e], Source[e]>> \in submitted' => pc' = "loop"
      /\ pc' # "idle"
  BY DEF GoOn, Route
<1>2. pc' = "loop" => Route(e, reply', submitted', activation', enriched') = "finish"
  BY DEF GoOn, Route
<1>3. Route(e, reply', submitted', activation', enriched') = "finish" => Accounted(e)'
  BY DEF Route, Accounted, SourceSubmitted
<1>4. pc' = "loop" => state'[e] = "done"
  BY <1>2 DEF GoOn
<1> QED  BY <1>1, <1>2, <1>3, <1>4

\* A row that a submission leaves done has its source on record.
LEMMA SettledRowIsCovered ==
  ASSUME NEW e \in Receipts, NEW j, Covers(e, j), Snapshot(e, j), j.part \in Parts,
         NextRow(e, j) = "done"
  PROVE  Source[e] \in j.sources
<1>1. Phase[e] \in {"ordinary", "initialization", "live"}
  BY ReceiptsAssumption
<1> QED  BY <1>1 DEF Covers, Snapshot, NextRow

LEMMA AccountedStays ==
  ASSUME NEW e \in Receipts, Accounted(e), submitted \subseteq submitted',
         \A a \in Activations : activation[a] \notin {"none", "submitting"}
            => activation'[a] \notin {"none", "submitting"}
  PROVE  Accounted(e)'
<1>1. Phase[e] = "initialization" => Activation[e] \in Activations
  BY ReceiptsAssumption
<1> QED  BY <1>1 DEF Accounted, SourceSubmitted

LEMMA SettledStays ==
  ASSUME SettledIsAccountedFor, submitted \subseteq submitted', decisions' = decisions,
         decisions = 0 => \A a \in Activations : activation[a] \notin {"none", "submitting"}
            => activation'[a] \notin {"none", "submitting"},
         \A f \in Receipts : state'[f] = "done" /\ decisions = 0 /\ Channel # "whatsapp"
            => state[f] = "done" \/ Accounted(f)'
  PROVE  SettledIsAccountedFor'
<1> SUFFICES ASSUME NEW e \in Receipts, state'[e] = "done", decisions = 0, Channel # "whatsapp"
             PROVE  Accounted(e)'
  BY DEF SettledIsAccountedFor, Accounted
<1>1. CASE state[e] = "done"
  <2>1. Accounted(e)
    BY <1>1 DEF SettledIsAccountedFor, Accounted
  <2> QED  BY <2>1, AccountedStays
<1>2. CASE Accounted(e)'
  BY <1>2
<1> QED  BY <1>1, <1>2

\* Of the numbers of a set of receipts, one is the lowest.
LEMMA LowestExists ==
  ASSUME NEW S \in SUBSET Receipts, S # {}
  PROVE  \E e \in S : \A f \in S : Sequence[e] <= Sequence[f]
<1> DEFINE R == OpToRel(<, Nat)
           T == {Sequence[e] : e \in S}
<1>1. IsWellFoundedOn(R, Nat)
  BY NatLessThanWellFounded, Zenon
<1>2. \A x, y \in Nat : x < y => <<x, y>> \in R
  BY DEF OpToRel
<1>3. T \subseteq Nat /\ T # {}
  BY ReceiptsAssumption
<1>4. \E x \in T : \A y \in T : ~ (<<y, x>> \in R)
  <2> HIDE DEF T, R
  <2> QED  BY <1>1, <1>3, WFMin, Zenon
<1>5. PICK e \in S : \A f \in S : ~(<<Sequence[f], Sequence[e]>> \in R)
  <2> HIDE DEF R
  <2> QED  BY <1>4
<1>6. \A f \in S : Sequence[f] \in Nat /\ ~(Sequence[f] < Sequence[e])
  <2> HIDE DEF R
  <2> QED  BY <1>2, <1>5, ReceiptsAssumption
<1> QED  BY <1>6, ReceiptsAssumption

\* A step that only adds receipts, or settles them: every webhook delivery.
Delivers ==
  /\ state' \in [Receipts -> ReceiptStates]
  /\ UNCHANGED <<activation, journal, cur, inits, decisions, up>>
  /\ submitted \subseteq submitted' /\ late \subseteq late'
  /\ pc' = pc \/ pc' = "loop" \/ (pc = "submit" /\ pc' = "stopped")
  /\ pc' # "idle"
  /\ job' = job \/ (pc = "submit" /\ job = None /\ job'.part = "turn")
  /\ \A f \in Receipts : \/ state'[f] = state[f]
                         \/ state'[f] = "pending" /\ f \in late'
                         \/ state'[f] = "done" /\ (SourceSubmitted(f)' \/ Channel = "whatsapp")

LEMMA DeliveriesDeliver ==
  ASSUME IInv, Deliveries
  PROVE  Delivers
<1> USE DEF Delivers
<1>0. TypeOK
  BY DEF IInv
<1>1. ASSUME NEW e \in Receipts, state[e] = "absent"
      PROVE  /\ Inserted(e) \in [Receipts -> ReceiptStates]
             /\ \A f \in Receipts : Inserted(e)[f] = IF f \in Superseded(e) THEN "done"
                                          ELSE IF f = e THEN "pending" ELSE state[f]
             /\ \A f \in Superseded(e) : Channel = "whatsapp"
  BY <1>1, InsertedFacts DEF Replaced
<1>2. ASSUME NEW e \in Receipts, Admit(e) PROVE Delivers
  <2>1. state[e] = "absent" /\ state' = Inserted(e) /\ late' = late \cup {e} /\ pc' # "idle"
    BY <1>2 DEF Admit, Schedule
  <2> QED  BY <1>1, <1>2, <2>1 DEF Admit, Schedule
<1>3. ASSUME NEW e \in Receipts, AdmitAnswer(e) PROVE Delivers
  <2>1. /\ state[e] = "absent" /\ state' = [Inserted(e) EXCEPT ![e] = "done"]
        /\ submitted' = submitted \cup {<<Activation[e], Source[e]>>} /\ pc = "turn"
    BY <1>3 DEF AdmitAnswer, Consume, Interacts
  <2>2. state' \in [Receipts -> ReceiptStates]
    BY <1>1, <2>1 DEF ReceiptStates
  <2> QED  BY <1>1, <1>3, <2>1, <2>2 DEF AdmitAnswer, SourceSubmitted
<1>4. ASSUME NEW e \in Receipts, AnswerSlowly(e) PROVE Delivers
  <2>1. /\ pc \in {"turn", "submit"} /\ submitted' = submitted
        /\ job' = job \/ (pc = "submit" /\ job = None /\ job'.part = "turn")
    BY <1>4, SubmissionFacts DEF AnswerSlowly, Interacts, Prepares
  <2>2. CASE UNCHANGED <<state, late>>
    BY <1>0, <1>4, <2>1, <2>2 DEF AnswerSlowly, TypeOK, StoreTypeOK
  <2>3. CASE state[e] = "absent" /\ state' = Inserted(e) /\ late' = late \cup {e}
    BY <1>1, <1>4, <2>1, <2>3 DEF AnswerSlowly
  <2> QED  BY <1>4, <2>2, <2>3 DEF AnswerSlowly
<1>5. ASSUME NEW e \in Receipts, InteractionReturns(e) PROVE Delivers
  <2>1. pc' # "idle"
    BY <1>5 DEF InteractionReturns, Schedule
  <2> QED  BY <1>0, <1>5, <2>1 DEF InteractionReturns, Schedule, Consume, SourceSubmitted,
     TypeOK, StoreTypeOK, ReceiptStates
<1>6. ASSUME NEW e \in Receipts, Redeliver(e) PROVE Delivers
  BY <1>0, <1>6 DEF Redeliver, Schedule, TypeOK, StoreTypeOK
<1>7. ASSUME NEW e \in Receipts, RedeliverAnswer(e) PROVE Delivers
  BY <1>0, <1>7 DEF RedeliverAnswer, Interacts, Consume, SourceSubmitted, TypeOK,
     StoreTypeOK, ReceiptStates
<1>8. ASSUME NEW e \in Receipts, RedeliverRevoked(e) PROVE Delivers
  BY <1>0, <1>8 DEF RedeliverRevoked, Schedule, TypeOK, StoreTypeOK, ReceiptStates
<1>9. ASSUME NEW e \in Receipts, StopsPreparation(e) PROVE Delivers
  <2>1. /\ pc = "submit" /\ pc' = "stopped"
        /\ job' = job \/ (job = None /\ job'.part = "turn")
    BY <1>9, SubmissionFacts DEF StopsPreparation, Prepares
  <2> QED  BY <1>0, <1>9, <2>1 DEF StopsPreparation, TypeOK, StoreTypeOK
<1> QED  BY <1>2, <1>3, <1>4, <1>5, <1>6, <1>7, <1>8, <1>9 DEF Deliveries

LEMMA DeliversAccounts ==
  ASSUME IInv, AccountInv, Delivers
  PROVE  AccountInv'
<1>1. TriggerInv'
  BY DEF AccountInv, TriggerInv, Delivers
<1>2. SnapshotInv'
  BY DEF AccountInv, SnapshotInv, Snapshot, Delivers
<1>3. SettledIsAccountedFor'
  BY SettledStays DEF AccountInv, Delivers, Accounted
<1>4. NoStrandedScope'
  BY DEF NoStrandedScope, Delivers
<1>5. LateInv'
  BY DEF AccountInv, LateInv, Delivers, Unfinished
<1> QED  BY <1>1, <1>2, <1>3, <1>4, <1>5 DEF AccountInv

LEMMA RaiseAccounts ==
  ASSUME IInv, AccountInv, pc \in Working, Raise(cur)
  PROVE  AccountInv'
<1>u. UNCHANGED <<activation, submitted, reply, journal, notice, enriched, up, cur,
                  job, other, ghost, crashes, decisions>>
  BY DEF Raise
<1>r. /\ cur \in Receipts
      /\ \A f \in Receipts : state'[f] = "done" => state[f] = "done"
      /\ pc' = "loop" \/ (pc' = "idle" /\ (timer' = TRUE \/ state'[cur] = "done"))
  <2>1. cur \in Receipts /\ cur # None /\ state \in [Receipts -> ReceiptStates]
    BY ReceiptsAssumption DEF IInv, StageInv, TypeOK, StoreTypeOK
  <2>2. CASE state[cur] = "done" /\ Channel = "whatsapp"
    BY <2>1, <2>2 DEF Raise
  <2>3. CASE LosesTrack(cur) /\ pc' = "idle"
    BY <2>1, <2>3 DEF LosesTrack
  <2>4. CASE PreflightFails(cur) /\ pc' = "idle"
    BY <2>1, <2>4 DEF PreflightFails, KeepsFailed
  <2>5. CASE /\ state[cur] = "uncertain" /\ timer' = TRUE /\ UNCHANGED <<state, attempts>>
             /\ pc' = "idle"
    BY <2>1, <2>5
  <2>6. CASE state[cur] = "done" /\ UNCHANGED <<state, timer, attempts>> /\ pc' = "idle"
    BY <2>1, <2>6
  <2> QED  BY <2>2, <2>3, <2>4, <2>5, <2>6 DEF Raise
<1>1. TriggerInv'
  BY <1>u, <1>r DEF AccountInv, TriggerInv
<1>2. SnapshotInv'
  BY <1>u, <1>r DEF AccountInv, SnapshotInv, Snapshot
<1>3. SettledIsAccountedFor'
  BY <1>u, <1>r, SettledStays DEF AccountInv
<1>4. NoStrandedScope'
  BY <1>u, <1>r, ReceiptsAssumption DEF NoStrandedScope, LeftBehind
<1>5. LateInv'
  BY <1>r DEF LateInv
<1> QED  BY <1>1, <1>2, <1>3, <1>4, <1>5 DEF AccountInv

LEMMA PickAccounts ==
  ASSUME IInv, AccountInv, Pick
  PROVE  AccountInv'
<1>c. /\ pc = "loop" /\ up /\ job' = None /\ late' = {}
      /\ UNCHANGED <<activation, submitted, reply, journal, enriched, up, inits, bounds>>
  BY DEF Pick
<1>s. \/ /\ pc' = "idle" /\ cur' = None /\ UNCHANGED state
         /\ Unfinished = {}
      \/ /\ cur' \in Receipts /\ IsHead(cur') /\ pc' # "idle"
         /\ \A f \in Receipts \ {cur'} : state'[f] = state[f]
         /\ pc' = "load" => activation'[Activation[cur']] = "none"
         /\ pc' = "enrich" => Channel = "whatsapp"
         /\ \A f \in Receipts : state'[f] = "done" => state[f] = "done" \/ Accounted(f)'
  <2>1. CASE ~(\E e \in Receipts : Ready(e)) /\ pc' = "idle" /\ cur' = None /\ UNCHANGED state
    <3>1. ASSUME Unfinished # {} PROVE FALSE
      <4>1. PICK e \in Unfinished : \A f \in Unfinished : Sequence[e] <= Sequence[f]
        BY <3>1, LowestExists DEF Unfinished
      <4>2. e \in Receipts /\ IsHead(e) /\ state[e] \in {"submitting", "sending"}
        BY <2>1, <4>1 DEF Ready, IsHead, Unfinished, IInv, TypeOK, StoreTypeOK, ReceiptStates
      <4> QED  BY <1>c, <4>2 DEF IInv, SingleFlight
    <3> QED  BY <2>1, <3>1
  <2>2. CASE \E e \in Receipts :
               /\ Ready(e) /\ cur' = e
               /\ IF state[e] = "uncertain"
                  THEN pc' = "rescue" /\ UNCHANGED <<state, attempts>>
                  ELSE GoOn(e, IF state[e] # "failed" THEN state
                               ELSE [state EXCEPT ![e] = Resumed(e)])
    <3>1. PICK e \in Receipts :
               /\ Ready(e) /\ cur' = e
               /\ IF state[e] = "uncertain"
                  THEN pc' = "rescue" /\ UNCHANGED <<state, attempts>>
                  ELSE GoOn(e, IF state[e] # "failed" THEN state
                               ELSE [state EXCEPT ![e] = Resumed(e)])
      BY <2>2
    <3>2. IsHead(e) /\ state[e] # "done"
      BY <3>1 DEF Ready
    <3>3. CASE state[e] = "uncertain"
      BY <3>1, <3>2, <3>3
    <3>4. CASE state[e] # "uncertain"
      <4> DEFINE st == IF state[e] # "failed" THEN state ELSE [state EXCEPT ![e] = Resumed(e)]
      <4>1. /\ st \in [Receipts -> ReceiptStates]
            /\ \A f \in Receipts \ {e} : st[f] = state[f]
        BY DEF Resumed, ReceiptStates, IInv, TypeOK, StoreTypeOK
      <4>2. GoOn(e, st) /\ st[e] # "done"
        BY <3>1, <3>2, <3>4 DEF Resumed, IInv, TypeOK, StoreTypeOK
      <4> HIDE DEF st
      <4>3. /\ pc' = "load" => activation'[Activation[e]] = "none"
            /\ pc' = "enrich" => Channel = "whatsapp"
            /\ state'[e] = "done" => Accounted(e)'
            /\ pc' # "idle"
        BY <4>1, <4>2, GoOnReasons
      <4>4. \A f \in Receipts \ {e} : state'[f] = state[f]
        BY <4>1, <4>2, GoOnFacts DEF IInv
      <4> QED  BY <3>1, <3>2, <4>3, <4>4
    <3> QED  BY <3>3, <3>4
  <2> QED  BY <2>1, <2>2 DEF Pick
<1>1. TriggerInv'
  BY <1>c, <1>s DEF AccountInv, TriggerInv
<1>2. SnapshotInv'
  BY <1>c, <1>s DEF AccountInv, SnapshotInv, Snapshot
<1>3. SettledIsAccountedFor'
  BY <1>c, <1>s, SettledStays DEF AccountInv
<1>4. NoStrandedScope'
  BY <1>s DEF NoStrandedScope, Unfinished
<1>5. LateInv'
  <2>1. CASE pc' = "idle"
    BY <2>1 DEF LateInv
  <2>2. ASSUME pc' # "idle", NEW f \in Receipts, f \in Unfinished', Sequence[f] < Sequence[cur']
        PROVE  FALSE
    <3>1. cur' \in Receipts /\ IsHead(cur') /\ (f # cur' => f \in Unfinished)
      BY <1>s, <2>2 DEF Unfinished
    <3>2. Sequence[cur'] <= Sequence[f] /\ Sequence[f] \in Nat /\ Sequence[cur'] \in Nat
      BY <3>1, ReceiptsAssumption DEF IsHead
    <3> QED  BY <2>2, <3>2
  <2> QED  BY <2>1, <2>2 DEF LateInv, Unfinished
<1> QED  BY <1>1, <1>2, <1>3, <1>4, <1>5 DEF AccountInv

\* A step of the task within the work on cur: what it leaves of the other rows, and why
\* it settles its own.
WorksOn ==
  /\ up /\ pc \in Working /\ cur \in Receipts
  /\ UNCHANGED <<cur, up, late, decisions>>
  /\ pc' # "idle" /\ submitted \subseteq submitted'
  /\ \A f \in Receipts \ {cur} : state'[f] = state[f]

LEMMA WorkAccounts ==
  ASSUME IInv, AccountInv, WorksOn, TriggerInv', SnapshotInv',
         \A f \in Receipts : state'[f] = "done" /\ decisions = 0 /\ Channel # "whatsapp"
            => state[f] = "done" \/ Accounted(f)',
         decisions = 0 => \A a \in Activations : activation[a] \notin {"none", "submitting"}
            => activation'[a] \notin {"none", "submitting"}
  PROVE  AccountInv'
<1>1. SettledIsAccountedFor'
  BY SettledStays DEF AccountInv, WorksOn
<1>2. NoStrandedScope'
  BY DEF NoStrandedScope, WorksOn
<1>3. LateInv'
  <2>1. \A f \in Receipts : f \in Unfinished' => f \in Unfinished \/ f = cur
    BY DEF WorksOn, Unfinished
  <2>2. ~(Sequence[cur] < Sequence[cur])
    BY ReceiptsAssumption DEF WorksOn
  <2> QED  BY <2>1, <2>2 DEF WorksOn, LateInv, AccountInv, Unfinished
<1> QED  BY <1>1, <1>2, <1>3 DEF AccountInv

LEMMA EnrichAccounts ==
  ASSUME IInv, AccountInv, Enrich
  PROVE  AccountInv'
<1>1. /\ up /\ pc = "enrich" /\ cur \in Receipts /\ job = None /\ Channel = "whatsapp"
      /\ state \in [Receipts -> ReceiptStates]
  BY DEF Enrich, IInv, StageInv, JobInv, AccountInv, SnapshotInv, TypeOK, StoreTypeOK
<1>2. UNCHANGED <<activation, submitted, journal, cur, job, up, late, inits, decisions>>
  BY DEF Enrich
<1>3. /\ \A f \in Receipts \ {cur} : state'[f] = state[f]
      /\ pc' # "idle"
      /\ pc' = "load" => activation'[Activation[cur]] = "none"
  <2>1. CASE GoOn(cur, state)
    BY <1>1, <2>1, GoOnReasons, GoOnFacts DEF IInv
  <2>2. CASE state' = [state EXCEPT ![cur] = "done"] /\ pc' = "loop"
    BY <1>1, <2>2
  <2> QED  BY <2>1, <2>2 DEF Enrich
<1>4. TriggerInv'
  BY <1>1, <1>2, <1>3 DEF AccountInv, TriggerInv
<1>5. SnapshotInv'
  BY <1>1, <1>2, <1>3 DEF AccountInv, SnapshotInv, Snapshot
<1> QED  BY <1>1, <1>2, <1>3, <1>4, <1>5, WorkAccounts DEF WorksOn

LEMMA LoadAccounts ==
  ASSUME IInv, AccountInv, Load
  PROVE  AccountInv'
<1>1. up /\ pc = "load" /\ cur \in Receipts /\ Phase[cur] # "ordinary"
  BY DEF Load, IInv, StageInv
<1>2. CASE Raise(cur)
  BY <1>1, <1>2, RaiseAccounts
<1>3. CASE ~Raise(cur)
  <2>1. /\ Phase[cur] = "initialization" /\ Channel # "slack"
             => Trigger[Activation[cur]] = Source[cur]
        /\ \E S \in Snapshots(cur), answers \in BOOLEAN :
             job' = [part |-> "init", sources |-> S, answers |-> answers, explains |-> notice]
        /\ pc' = "submit" /\ UNCHANGED <<store, up, cur, timer, attempts, other, ghost, bounds>>
    BY <1>3 DEF Load
  <2>2. job'.part = "init" /\ Trigger[Activation[cur]] \in job'.sources
    BY <2>1 DEF Snapshots
  <2>3. TriggerInv'
    BY <1>1, <2>1 DEF AccountInv, TriggerInv
  <2>4. SnapshotInv'
    BY <1>1, <2>1, <2>2 DEF AccountInv, SnapshotInv, Snapshot
  <2> QED  BY <1>1, <2>1, <2>3, <2>4, WorkAccounts DEF WorksOn
<1> QED  BY <1>2, <1>3

LEMMA FenceAccounts ==
  ASSUME IInv, AccountInv, Fence
  PROVE  AccountInv'
<1>1. /\ up /\ pc = "fence" /\ cur \in Receipts /\ job = None /\ GoOn(cur, state)
      /\ state \in [Receipts -> ReceiptStates] /\ activation \in [Activations -> ActivationStates]
  BY DEF Fence, IInv, StageInv, JobInv, TypeOK, StoreTypeOK
<1>2. /\ UNCHANGED <<submitted, journal, cur, job, up, late, inits, decisions>>
      /\ activation' = [activation EXCEPT ![Activation[cur]] = "interrupted"]
  BY DEF Fence
<1>3. /\ pc' # "idle" /\ (pc' = "load" => activation'[Activation[cur]] = "none")
      /\ pc' = "enrich" => Channel = "whatsapp"
      /\ \A f \in Receipts : state'[f] = "done" => state[f] = "done" \/ Accounted(f)'
      /\ \A f \in Receipts \ {cur} : state'[f] = state[f]
  <2>1. PICK e \in Receipts : e = cur
    BY <1>1
  <2>2. /\ pc' # "idle" /\ (pc' = "load" => activation'[Activation[e]] = "none")
        /\ pc' = "enrich" => Channel = "whatsapp"
        /\ IF pc' = "loop" THEN Accounted(e)' ELSE state' = state
        /\ \A f \in Receipts \ {e} : state'[f] = state[f]
    BY <1>1, <2>1, GoOnReasons, GoOnFacts DEF IInv
  <2> QED  BY <2>1, <2>2
<1>4. \A a \in Activations :
         /\ activation[a] # "none" => activation'[a] # "none"
         /\ activation[a] \notin {"none", "submitting"}
              => activation'[a] \notin {"none", "submitting"}
  BY <1>1, <1>2
<1>5. TriggerInv'
  BY <1>1, <1>2, <1>3, <1>4 DEF AccountInv, TriggerInv
<1>6. SnapshotInv'
  BY <1>1, <1>2, <1>3 DEF AccountInv, SnapshotInv, Snapshot
<1> QED  BY <1>1, <1>2, <1>3, <1>4, <1>5, <1>6, WorkAccounts DEF WorksOn

LEMMA BeforeSubmitAccounts ==
  ASSUME IInv, AccountInv, BeforeSubmit
  PROVE  AccountInv'
<1>1. /\ up /\ pc = "submit" /\ cur \in Receipts
      /\ UNCHANGED <<submitted, cur, up, late, decisions>>
      /\ state \in [Receipts -> ReceiptStates]
      /\ activation \in [Activations -> ActivationStates]
      /\ inits \in [Activations -> Nat] /\ journal \in [Receipts -> Job \cup {None}]
      /\ Activation[cur] \in Activations \cup {None}
  BY ReceiptsAssumption DEF BeforeSubmit, IInv, StageInv, TypeOK, StoreTypeOK, HistoryTypeOK
<1>2. CASE RetiredMeanwhile
  <2>1. pc' = "loop" /\ UNCHANGED <<state, activation, journal, job, inits>>
    BY <1>2 DEF BeforeSubmit
  <2>2. TriggerInv' /\ SnapshotInv'
    BY <1>1, <2>1 DEF AccountInv, TriggerInv, SnapshotInv, Snapshot
  <2> QED  BY <1>1, <2>1, <2>2, WorkAccounts DEF WorksOn
<1>3. CASE ~RetiredMeanwhile
  <2>1. /\ pc' = "turn" /\ state' = [state EXCEPT ![cur] = "submitting"]
        /\ job' \in Submission
        /\ journal' = journal \/ journal' = [journal EXCEPT ![cur] = job']
        /\ activation' = IF job'.part = "turn" THEN activation
             ELSE [activation EXCEPT ![Activation[cur]] = "submitting"]
        /\ inits' = IF job'.part = "turn" THEN inits
             ELSE [inits EXCEPT ![Activation[cur]] = @ + 1]
    BY <1>3 DEF BeforeSubmit
  <2>2. /\ job'.part \in Parts
        /\ job'.part = "init" => /\ job' = job /\ job # None /\ Snapshot(cur, job)
                                 /\ decisions = 0 => activation[Activation[cur]] = "none"
    BY <1>1, <2>1, SubmissionFacts DEF AccountInv, SnapshotInv, TriggerInv, Job
  <2>3. Snapshot(cur, job')
    BY <2>2 DEF Snapshot
  <2>4. SnapshotInv'
    <3>1. ASSUME NEW e \in Receipts, journal'[e] # None PROVE Snapshot(e, journal'[e])
      BY <1>1, <2>1, <2>3, <3>1 DEF AccountInv, SnapshotInv
    <3> QED  BY <1>1, <2>1, <2>3, <3>1 DEF SnapshotInv, Snapshot
  <2>5. CASE job'.part = "turn"
    <3>1. UNCHANGED <<activation, inits>>
      BY <2>1, <2>2, <2>5
    <3>2. TriggerInv'
      BY <1>1, <2>1, <3>1 DEF AccountInv, TriggerInv
    <3> QED  BY <1>1, <2>1, <2>4, <3>1, <3>2, WorkAccounts DEF WorksOn
  <2>6. CASE job'.part = "init"
    <3>1. Activation[cur] \in Activations
      BY <1>1, <2>2, <2>6, ReceiptsAssumption DEF Snapshot
    <3>2. /\ activation' = [activation EXCEPT ![Activation[cur]] = "submitting"]
          /\ inits' = [inits EXCEPT ![Activation[cur]] = @ + 1]
      BY <2>1, <2>2, <2>6
    <3>3. TriggerInv'
      <4>1. ASSUME decisions = 0, NEW a \in Activations
            PROVE  inits'[a] \in {0, 1} /\ (inits'[a] = 1 => activation'[a] # "none")
        <5>1. inits[a] \in {0, 1} /\ (inits[a] = 1 => activation[a] # "none")
          BY <4>1 DEF AccountInv, TriggerInv
        <5>2. a = Activation[cur] => inits[a] = 0
          BY <2>2, <2>6, <4>1, <5>1
        <5> QED  BY <1>1, <3>1, <3>2, <5>1, <5>2
      <4> QED  BY <1>1, <2>1, <4>1 DEF TriggerInv
    <3>4. decisions = 0 => \A a \in Activations : activation[a] \notin {"none", "submitting"}
            => activation'[a] \notin {"none", "submitting"}
      BY <1>1, <2>2, <2>6, <3>1, <3>2
    <3> QED  BY <1>1, <2>1, <2>4, <3>3, <3>4, WorkAccounts DEF WorksOn
  <2> QED  BY <2>2, <2>5, <2>6
<1> QED  BY <1>2, <1>3

LEMMA SubmissionStoppedAccounts ==
  ASSUME IInv, AccountInv, SubmissionStopped
  PROVE  AccountInv'
<1>1. /\ up /\ pc = "stopped" /\ cur \in Receipts /\ pc' = "loop" /\ job' = None
      /\ state' = [state EXCEPT ![cur] = "done"] /\ state \in [Receipts -> ReceiptStates]
      /\ submitted \subseteq submitted' /\ SourceSubmitted(cur)'
      /\ UNCHANGED <<activation, reply, journal, up, cur, ghost, bounds>>
  BY StoppedGoes DEF IInv, TypeOK, StoreTypeOK
<1>2. TriggerInv' /\ SnapshotInv'
  BY <1>1 DEF AccountInv, TriggerInv, SnapshotInv, Snapshot
<1>3. \A f \in Receipts : state'[f] = "done" => state[f] = "done" \/ Accounted(f)'
  BY <1>1 DEF Accounted
<1> QED  BY <1>1, <1>2, <1>3, WorkAccounts DEF WorksOn

\* What _settle_submission leaves of the activations.
LEMMA SettleActivations ==
  ASSUME NEW e \in Receipts, NEW j \in Job, NEW answer \in BOOLEAN, Settle(e, j, answer),
         activation \in [Activations -> ActivationStates]
  PROVE  \A a \in Activations :
            /\ activation[a] # "none" => activation'[a] # "none"
            /\ activation[a] \notin {"none", "submitting"}
                 => activation'[a] \notin {"none", "submitting"}
BY DEF Settle

LEMMA TurnEndsAccounts ==
  ASSUME IInv, AccountInv, TurnEnds
  PROVE  AccountInv'
<1>p. PICK e \in Receipts, answer \in BOOLEAN :
        /\ e = cur /\ (answer => job.answers)
        /\ Settle(e, job, answer) /\ GoOn(e, SettledRow(e, job, answer))
  BY DEF TurnEnds, IInv, StageInv, JobInv, TypeOK, TaskTypeOK, Job
<1>1. /\ up /\ pc = "turn" /\ cur \in Receipts /\ job \in Job
      /\ Covers(e, job) /\ Snapshot(e, job) /\ job.part \in Parts
      /\ job' = None /\ UNCHANGED <<journal, cur, up, late, inits, decisions>>
      /\ state \in [Receipts -> ReceiptStates] /\ activation \in [Activations -> ActivationStates]
  BY <1>p DEF TurnEnds, IInv, StageInv, JobInv, AccountInv, SnapshotInv, TypeOK, StoreTypeOK,
     TaskTypeOK, Job
<1>2. /\ SettledRow(e, job, answer) \in [Receipts -> ReceiptStates]
      /\ \A f \in Receipts \ {e} : SettledRow(e, job, answer)[f] = state[f]
      /\ submitted \subseteq submitted'
      /\ Source[e] \in job.sources => <<Activation[e], Source[e]>> \in submitted'
      /\ SettledRow(e, job, answer)[e] = IF answer THEN "reply_pending" ELSE NextRow(e, job)
  <2>1. SettledRow(e, job, answer)[e] = IF answer THEN "reply_pending" ELSE NextRow(e, job)
    BY <1>1 DEF SettledRow
  <2> QED  BY <1>p, <1>1, <2>1, SettleFacts DEF IInv
<1>3. SettledRow(e, job, answer)[e] = "done" => SourceSubmitted(e)'
  BY <1>1, <1>2, SettledRowIsCovered DEF SourceSubmitted
<1>4. /\ pc' # "idle" /\ (pc' = "load" => activation'[Activation[e]] = "none")
      /\ pc' = "enrich" => Channel = "whatsapp"
      /\ IF pc' = "loop" THEN Accounted(e)' ELSE state' = SettledRow(e, job, answer)
      /\ \A f \in Receipts \ {e} : state'[f] = state[f]
  BY <1>p, <1>2, GoOnReasons, GoOnFacts DEF IInv
<1>5. \A f \in Receipts : state'[f] = "done" => state[f] = "done" \/ Accounted(f)'
  BY <1>3, <1>4 DEF Accounted
<1>6. \A a \in Activations :
         /\ activation[a] # "none" => activation'[a] # "none"
         /\ activation[a] \notin {"none", "submitting"}
              => activation'[a] \notin {"none", "submitting"}
  BY <1>p, <1>1, SettleActivations
<1>7. TriggerInv'
  BY <1>p, <1>1, <1>4, <1>6 DEF AccountInv, TriggerInv
<1>8. SnapshotInv'
  BY <1>1, <1>4 DEF AccountInv, SnapshotInv, Snapshot
<1> QED  BY <1>p, <1>1, <1>2, <1>4, <1>5, <1>6, <1>7, <1>8, WorkAccounts DEF WorksOn

LEMMA SendStartsAccounts ==
  ASSUME IInv, AccountInv, SendStarts
  PROVE  AccountInv'
<1>1. up /\ pc = "deliver" /\ cur \in Receipts /\ state \in [Receipts -> ReceiptStates]
  BY DEF SendStarts, IInv, StageInv, TypeOK, StoreTypeOK
<1>2. CASE Raise(cur)
  BY <1>1, <1>2, RaiseAccounts
<1>3. CASE ~Raise(cur)
  <2>1. /\ state' = [state EXCEPT ![cur] = "sending"] /\ pc' = "send"
        /\ UNCHANGED <<activation, submitted, journal, cur, job, up, late, inits, decisions>>
    BY <1>3 DEF SendStarts
  <2>2. TriggerInv' /\ SnapshotInv'
    BY <2>1 DEF AccountInv, TriggerInv, SnapshotInv, Snapshot
  <2> QED  BY <1>1, <2>1, <2>2, WorkAccounts DEF WorksOn
<1> QED  BY <1>2, <1>3

LEMMA SendEndsAccounts ==
  ASSUME IInv, AccountInv, SendEnds
  PROVE  AccountInv'
<1>p. PICK e \in Receipts : e = cur
  BY DEF SendEnds, IInv, StageInv
<1> DEFINE st == [state EXCEPT ![e] = reply[e].next]
<1>1. /\ up /\ pc = "send" /\ cur \in Receipts /\ job = None
      /\ st \in [Receipts -> ReceiptStates] /\ SourceSubmitted(e)
      /\ \A f \in Receipts \ {e} : st[f] = state[f]
      /\ UNCHANGED <<activation, submitted, journal, cur, job, up, late, inits, decisions>>
  BY <1>p DEF SendEnds, IInv, StageInv, JobInv, RowInv, TypeOK, StoreTypeOK, SavedReply,
     ReceiptStates
<1>2. GoOn(e, st)
  BY <1>p DEF SendEnds
<1> HIDE DEF st
<1>3. /\ pc' # "idle" /\ (pc' = "load" => activation'[Activation[e]] = "none")
      /\ pc' = "enrich" => Channel = "whatsapp"
      /\ \A f \in Receipts \ {e} : state'[f] = state[f]
  <2>1. /\ pc' # "idle" /\ (pc' = "load" => activation'[Activation[e]] = "none")
        /\ pc' = "enrich" => Channel = "whatsapp"
    BY <1>1, <1>2, GoOnReasons
  <2>2. \A f \in Receipts \ {e} : state'[f] = st[f]
    BY <1>1, <1>2, GoOnFacts DEF IInv
  <2> QED  BY <1>1, <2>1, <2>2
<1>4. \A f \in Receipts : state'[f] = "done" => state[f] = "done" \/ Accounted(f)'
  BY <1>1, <1>3 DEF Accounted, SourceSubmitted
<1>5. TriggerInv'
  BY <1>p, <1>1, <1>3 DEF AccountInv, TriggerInv
<1>6. SnapshotInv'
  BY <1>1, <1>3 DEF AccountInv, SnapshotInv, Snapshot
<1> QED  BY <1>p, <1>1, <1>3, <1>4, <1>5, <1>6, WorkAccounts DEF WorksOn

LEMMA RescueRecoversAccounts ==
  ASSUME IInv, AccountInv, RescueRecovers
  PROVE  AccountInv'
<1>p. PICK e \in Receipts, answer \in BOOLEAN :
        e = cur /\ Settle(e, journal[e], answer) /\ state' = SettledRow(e, journal[e], answer)
  BY DEF RescueRecovers, IInv, StageInv
<1>1. /\ up /\ pc = "rescue" /\ pc' = "loop" /\ cur \in Receipts
      /\ journal[e] \in Job /\ Covers(e, journal[e]) /\ Snapshot(e, journal[e])
      /\ journal[e].part \in Parts
      /\ UNCHANGED <<journal, cur, job, up, late, inits, decisions>>
      /\ state \in [Receipts -> ReceiptStates] /\ activation \in [Activations -> ActivationStates]
  BY <1>p DEF RescueRecovers, Recoverable, IInv, StageInv, JobInv, AccountInv, SnapshotInv,
     TypeOK, StoreTypeOK, Job
<1>2. /\ \A f \in Receipts \ {e} : state'[f] = state[f]
      /\ submitted \subseteq submitted'
      /\ Source[e] \in journal[e].sources => <<Activation[e], Source[e]>> \in submitted'
      /\ state'[e] = IF answer THEN "reply_pending" ELSE NextRow(e, journal[e])
  <2>1. state'[e] = IF answer THEN "reply_pending" ELSE NextRow(e, journal[e])
    BY <1>p, <1>1 DEF SettledRow
  <2> QED  BY <1>p, <1>1, <2>1, SettleFacts DEF IInv
<1>3. state'[e] = "done" => SourceSubmitted(e)'
  BY <1>1, <1>2, SettledRowIsCovered DEF SourceSubmitted
<1>4. \A f \in Receipts : state'[f] = "done" => state[f] = "done" \/ Accounted(f)'
  BY <1>2, <1>3 DEF Accounted
<1>5. \A a \in Activations :
         /\ activation[a] # "none" => activation'[a] # "none"
         /\ activation[a] \notin {"none", "submitting"}
              => activation'[a] \notin {"none", "submitting"}
  BY <1>p, <1>1, SettleActivations
<1>6. TriggerInv'
  BY <1>1, <1>5 DEF AccountInv, TriggerInv
<1>7. SnapshotInv'
  BY <1>1 DEF AccountInv, SnapshotInv, Snapshot
<1> QED  BY <1>p, <1>1, <1>2, <1>4, <1>5, <1>6, <1>7, WorkAccounts DEF WorksOn

LEMMA RescueQuarantinesAccounts ==
  ASSUME IInv, AccountInv, RescueQuarantines
  PROVE  AccountInv'
<1>1. /\ up /\ pc = "rescue" /\ pc' = "loop" /\ cur \in Receipts
      /\ state \in [Receipts -> ReceiptStates]
      /\ state' = [state EXCEPT ![cur] = "quarantined"] /\ activation' = Interrupted(cur)
      /\ UNCHANGED <<submitted, journal, cur, job, up, late, inits, decisions>>
  BY DEF RescueQuarantines, IInv, StageInv, TypeOK, StoreTypeOK
<1>2. \A a \in Activations :
         /\ activation[a] # "none" => activation'[a] # "none"
         /\ activation[a] \notin {"none", "submitting"}
              => activation'[a] \notin {"none", "submitting"}
  BY <1>1 DEF Interrupted
<1>3. TriggerInv'
  BY <1>1, <1>2 DEF AccountInv, TriggerInv
<1>4. SnapshotInv'
  BY <1>1 DEF AccountInv, SnapshotInv, Snapshot
<1> QED  BY <1>1, <1>2, <1>3, <1>4, WorkAccounts DEF WorksOn

LEMMA StopsAccount ==
  ASSUME IInv, AccountInv, Timer \/ Crash \/ Restart \/ Operator
  PROVE  AccountInv'
<1>1. CASE Timer
  BY <1>1, DeliversAccounts DEF Timer, Schedule, Delivers, IInv, TypeOK, StoreTypeOK
<1>2. CASE Crash
  <2>1. /\ ~up' /\ pc' = "idle"
        /\ UNCHANGED <<activation, submitted, journal, state, inits, decisions>>
    BY <1>2 DEF Crash
  <2>2. TriggerInv' /\ SnapshotInv' /\ NoStrandedScope' /\ LateInv'
    BY <2>1 DEF AccountInv, TriggerInv, SnapshotInv, Snapshot, NoStrandedScope, LateInv
  <2>3. SettledIsAccountedFor'
    BY <2>1, SettledStays DEF AccountInv
  <2> QED  BY <2>2, <2>3 DEF AccountInv
<1>3. ASSUME MarkInFlight, UNCHANGED <<submitted, journal, inits, decisions>>,
             pc' \in {"idle", "loop"},
             pc' = "idle" /\ up' => ~up /\ Unfinished = {}
      PROVE  AccountInv'
  <2>1. \A a \in Activations :
           /\ activation[a] # "none" => activation'[a] # "none"
           /\ activation[a] \notin {"none", "submitting"}
                => activation'[a] \notin {"none", "submitting"}
    BY <1>3 DEF MarkInFlight
  <2>2. \A f \in Receipts : state'[f] = state[f] \/ (f \in Unfinished /\ state'[f] = "uncertain")
    BY <1>3 DEF MarkInFlight, Unfinished
  <2>3. TriggerInv' /\ SnapshotInv' /\ NoStrandedScope' /\ LateInv'
    BY <1>3, <2>1, <2>2 DEF AccountInv, TriggerInv, SnapshotInv, Snapshot, NoStrandedScope,
       LateInv, Unfinished
  <2>4. SettledIsAccountedFor'
    BY <1>3, <2>1, <2>2, SettledStays DEF AccountInv
  <2> QED  BY <2>3, <2>4 DEF AccountInv
<1>4. CASE Restart
  BY <1>3, <1>4 DEF Restart
<1>5. CASE OperatorOpens
  BY <1>3, <1>5 DEF OperatorOpens, IInv, StageInv
<1>6. ASSUME NEW e \in Receipts, Decidable(e),
             UNCHANGED <<journal, up, task>>
      PROVE  AccountInv'
  <2>1. decisions' # 0 /\ ~up' /\ pc' = "idle"
    BY <1>6 DEF Decidable, IInv, TypeOK, HistoryTypeOK, StageInv
  <2> QED  BY <1>6, <2>1 DEF AccountInv, TriggerInv, SnapshotInv, Snapshot,
     SettledIsAccountedFor, NoStrandedScope, LateInv
<1>7. ASSUME NEW e \in Receipts, Retire(e) \/ (\E ack \in BOOLEAN : Retry(e, ack))
      PROVE  AccountInv'
  BY <1>6, <1>7 DEF Retire, Retry
<1> QED  BY <1>1, <1>2, <1>4, <1>5, <1>7 DEF Operator

LEMMA NextAccounts ==
  ASSUME IInv, AccountInv, [Next]_vars
  PROVE  AccountInv'
<1>1. CASE Deliveries
  BY <1>1, DeliveriesDeliver, DeliversAccounts
<1>2. CASE Repeat
  BY <1>2, RaiseAccounts DEF Repeat
<1>3. CASE Drain
  BY <1>2, <1>3, PickAccounts, EnrichAccounts, LoadAccounts, FenceAccounts,
     BeforeSubmitAccounts, SubmissionStoppedAccounts, TurnEndsAccounts, SendStartsAccounts,
     SendEndsAccounts,
     RescueRecoversAccounts, RescueQuarantinesAccounts DEF Drain
<1>4. CASE Fault
  <2>1. pc \in Working
    BY <1>4 DEF Fault, IInv, TypeOK, TaskTypeOK
  <2> QED  BY <1>4, <2>1, RaiseAccounts DEF Fault
<1>5. CASE Timer \/ Crash \/ Restart \/ Operator
  BY <1>5, StopsAccount
<1>6. CASE UNCHANGED vars
  <2>1. TriggerInv' /\ SnapshotInv' /\ LateInv'
    BY <1>6 DEF vars, AccountInv, TriggerInv, SnapshotInv, Snapshot, LateInv, Unfinished
  <2>2. SettledIsAccountedFor' /\ NoStrandedScope'
    BY <1>6 DEF vars, AccountInv, SettledIsAccountedFor, SourceSubmitted, NoStrandedScope,
       LeftBehind, Unfinished
  <2> QED  BY <2>1, <2>2 DEF AccountInv
<1> QED  BY <1>1, <1>3, <1>4, <1>5, <1>6 DEF Next

LEMMA InitAccounts == Init => AccountInv
<1> SUFFICES ASSUME Init PROVE AccountInv
  OBVIOUS
<1>1. TriggerInv /\ SnapshotInv /\ LateInv
  BY DEF Init, TriggerInv, SnapshotInv, LateInv
<1>2. SettledIsAccountedFor /\ NoStrandedScope
  BY DEF Init, SettledIsAccountedFor, NoStrandedScope, Unfinished
<1> QED  BY <1>1, <1>2 DEF AccountInv

\* The second inductive invariant, relative to the first.
THEOREM Accounts == Spec => []AccountInv
<1>1. IInv /\ AccountInv /\ [Next]_vars => AccountInv'
  BY NextAccounts
<1> QED  BY <1>1, InitAccounts, Invariant, PTL DEF Spec

\* No input is repeated, dropped or stranded: the trigger of an activation is submitted once,
\* what is settled has a reason, and what is unfinished will be woken (the scope that a
\* failure behind a slow interaction leaves behind excepted).
THEOREM InputsAreKept == Spec => []InputsAreAccountedFor
<1>1. AccountInv => InputsAreAccountedFor
  BY DEF AccountInv, TriggerInv, TriggerOnce, InputsAreAccountedFor
<1> QED  BY <1>1, Accounts, PTL

\* Only BeforeSubmit submits, and only what the task works on.
LEMMA SubmitsOnlyCur ==
  ASSUME IInv, AccountInv, [Next]_vars, NEW e \in Receipts, Submits(e)
  PROVE  pc = "submit" /\ e = cur
<1> USE DEF Submits
<1>0. state \in [Receipts -> ReceiptStates]
  BY DEF IInv, TypeOK, StoreTypeOK
<1>1. CASE Deliveries
  BY <1>1, DeliveriesDeliver DEF Delivers
<1>2. CASE Raise(cur)
  BY <1>0, <1>2 DEF Raise, LosesTrack, PreflightFails, KeepsFailed
<1>3. CASE Pick
  BY <1>0, <1>3 DEF Pick, GoOn, Resumed
<1>4. CASE Enrich \/ Load \/ Repeat \/ Fence
  BY <1>0, <1>2, <1>4 DEF Enrich, Load, Repeat, Fence, GoOn
<1>5. CASE BeforeSubmit
  BY <1>0, <1>5 DEF BeforeSubmit
<1>6. CASE TurnEnds
  BY <1>0, <1>6 DEF TurnEnds, GoOn, SettledRow, NextRow
<1>7. CASE SendStarts
  BY <1>0, <1>2, <1>7 DEF SendStarts
<1>8. CASE SendEnds
  <2>1. cur \in Receipts /\ reply[cur].next \in {"pending", "done"}
    BY <1>8 DEF SendEnds, IInv, StageInv, TypeOK, StoreTypeOK, SavedReply
  <2> QED  BY <1>0, <1>8, <2>1 DEF SendEnds, GoOn
<1>9. CASE RescueRecovers \/ RescueQuarantines
  BY <1>0, <1>9 DEF RescueRecovers, RescueQuarantines, SettledRow, NextRow
<1>10. CASE Fault
  BY <1>2, <1>10 DEF Fault
<1>11. CASE Timer \/ Crash \/ Restart \/ OperatorOpens
  BY <1>0, <1>11 DEF Timer, Crash, Restart, OperatorOpens, MarkInFlight
<1>12. ASSUME NEW f \in Receipts, Retire(f) \/ (\E ack \in BOOLEAN : Retry(f, ack))
       PROVE  FALSE
  BY <1>0, <1>12 DEF Retire, Retry, Resumed
<1>13. CASE UNCHANGED vars
  BY <1>13 DEF vars
<1>14. CASE SubmissionStopped
  BY <1>0, <1>14, StoppedGoes
<1>15. Drain => \/ Pick \/ Enrich \/ Load \/ Repeat \/ Fence \/ BeforeSubmit
                \/ SubmissionStopped \/ TurnEnds \/ SendStarts \/ SendEnds \/ RescueRecovers \/ RescueQuarantines
  BY DEF Drain
<1> QED  BY <1>1, <1>3, <1>4, <1>5, <1>6, <1>7, <1>8, <1>9, <1>10, <1>11, <1>12, <1>13, <1>14, <1>15
   DEF Next, Operator

\* A submission overtakes an older unfinished receipt only if that one came after the task
\* had picked the newer one.
THEOREM LateArrivalsOnly == Spec => OvertakesOnlyLateArrivals
<1>1. IInv /\ AccountInv /\ [Next]_vars
        => [\A e, f \in Receipts : Submits(e) /\ Older(e, f) => f \in late]_vars
  <2> SUFFICES ASSUME IInv, AccountInv, [Next]_vars, NEW e \in Receipts, NEW f \in Receipts,
                      Submits(e), Older(e, f)
               PROVE  f \in late
    OBVIOUS
  <2>1. pc = "submit" /\ e = cur
    BY SubmitsOnlyCur
  <2> QED  BY <2>1 DEF AccountInv, LateInv, Older
<1> QED  BY <1>1, Invariant, Accounts, PTL DEF Spec, OvertakesOnlyLateArrivals
-----------------------------------------------------------------------------
(* The inbox keeps the promise of ReceiptLedger *)

\* A delivery settled the receipt under way: a revocation may, while it is prepared.
Overtaken == pc \in Working /\ state[cur] = "done" /\ ~(Channel = "whatsapp" /\ pc \in Preparing)

\* When no interaction is slow, nothing else overtakes the task.
FastInv == answering = {} /\ ~Overtaken

LEMMA FastDeliveries ==
  ASSUME IInv, FastInv, SlowAnswers = {}, Deliveries
  PROVE  FastInv'
<1>0. TypeOK
  BY DEF IInv
<1>1. PICK e \in Receipts :
        \/ Admit(e) \/ AdmitAnswer(e) \/ Redeliver(e) \/ RedeliverAnswer(e) \/ RedeliverRevoked(e)
        \/ StopsPreparation(e)
  BY DEF Deliveries, AnswerSlowly, InteractionReturns, FastInv
<1>2. /\ UNCHANGED <<cur, answering>>
      /\ \/ pc' = pc \/ (pc = "idle" /\ pc' = "loop")
         \/ pc = "submit" /\ pc' = "stopped"
      /\ state \in [Receipts -> ReceiptStates]
  BY <1>0, <1>1 DEF Admit, AdmitAnswer, Redeliver, RedeliverAnswer, RedeliverRevoked,
     StopsPreparation, Prepares, Schedule, TypeOK, StoreTypeOK
<1> SUFFICES ASSUME pc \in Working, state'[cur] = "done"
             PROVE  Channel = "whatsapp" /\ pc \in Preparing
  BY <1>2 DEF FastInv, Overtaken
<1>3. /\ cur \in Receipts /\ state[cur] # "absent"
      /\ state[cur] \in {"pending", "failed"} => pc \in Preparing
  BY DEF IInv, StageInv
<1>4. CASE state[cur] = "done"
  BY <1>4 DEF FastInv, Overtaken
<1>5. CASE state[cur] # "done" /\ Admit(e)
  <2>1. cur \in Superseded(e) /\ cur # e
    BY <1>3, <1>5, InsertedFacts DEF Admit
  <2> QED  BY <1>3, <1>5, <2>1, InsertedFacts DEF Admit, Replaced
<1>6. CASE state[cur] # "done" /\ AdmitAnswer(e)
  <2>1. cur \in Superseded(e) /\ cur # e /\ state[e] = "absent"
    BY <1>3, <1>6, InsertedFacts DEF AdmitAnswer, Consume
  <2> QED  BY <1>3, <1>6, <2>1, InsertedFacts DEF Replaced
<1>7. CASE state[cur] # "done" /\ Redeliver(e)
  BY <1>7 DEF Redeliver
<1>8. CASE state[cur] # "done" /\ RedeliverAnswer(e)
  <2>1. pc = "turn" /\ cur = e /\ state[e] = "pending"
    BY <1>2, <1>3, <1>8 DEF RedeliverAnswer, Interacts, Consume
  <2> QED  BY <1>3, <2>1
<1>9. CASE state[cur] # "done" /\ RedeliverRevoked(e)
  <2>1. Channel = "whatsapp" /\ cur = e /\ state[e] \in {"pending", "failed"}
    BY <1>2, <1>3, <1>9 DEF RedeliverRevoked, Retirable
  <2> QED  BY <1>3, <2>1
<1>10. CASE state[cur] # "done" /\ StopsPreparation(e)
  BY <1>10 DEF StopsPreparation
<1> QED  BY <1>1, <1>4, <1>5, <1>6, <1>7, <1>8, <1>9, <1>10

LEMMA FastStep ==
  ASSUME IInv, AccountInv, FastInv, SlowAnswers = {}, [Next]_vars
  PROVE  FastInv'
<1>0. /\ state \in [Receipts -> ReceiptStates]
      /\ pc \in Working => cur \in Receipts
  BY DEF IInv, TypeOK, StoreTypeOK, StageInv
<1>r. ASSUME Raise(cur) PROVE FastInv'
  BY <1>r DEF Raise, FastInv, Overtaken
<1>1. CASE Deliveries
  BY <1>1, FastDeliveries
<1>2. CASE Pick
  <2>1. pc' \notin Working \/ state'[cur'] # "done"
    <3>1. CASE pc' = "idle"
      BY <3>1
    <3>2. ASSUME NEW e \in Receipts, Ready(e), cur' = e, state[e] = "uncertain", UNCHANGED state
          PROVE  state'[cur'] # "done"
      BY <3>2
    <3>3. ASSUME NEW e \in Receipts, Ready(e), cur' = e,
                 GoOn(e, IF state[e] # "failed" THEN state
                         ELSE [state EXCEPT ![e] = Resumed(e)])
          PROVE  pc' = "loop" \/ state'[cur'] # "done"
      BY <1>0, <3>3 DEF GoOn, Ready, Resumed
    <3> QED  BY <1>2, <3>1, <3>2, <3>3 DEF Pick
  <2>2. UNCHANGED answering
    BY <1>2 DEF Pick
  <2> QED  BY <2>1, <2>2 DEF FastInv, Overtaken
<1>3. CASE Enrich
  BY <1>0, <1>3 DEF Enrich, GoOn, FastInv, Overtaken
<1>4. CASE Load
  BY <1>0, <1>4, <1>r DEF Load, FastInv, Overtaken
<1>5. CASE Repeat
  BY <1>5, <1>r DEF Repeat
<1>6. CASE Fence
  <2>1. /\ UNCHANGED <<cur, answering, reply>> /\ GoOn(cur, state)
        /\ cur \in Receipts /\ reply[cur] = None
        /\ state[cur] = "done" => Channel = "whatsapp"
    BY <1>6 DEF Fence, IInv, StageInv, FastInv, Overtaken
  <2>2. pc' = "loop" \/ (pc' \in Preparing /\ state' = state)
    BY <2>1 DEF GoOn, Route
  <2> QED  BY <2>1, <2>2 DEF FastInv, Overtaken
<1>7. CASE BeforeSubmit
  BY <1>0, <1>7 DEF BeforeSubmit, FastInv, Overtaken
<1>8. CASE TurnEnds
  <2>1. PICK e \in Receipts, answer \in BOOLEAN :
          /\ e = cur /\ (answer => job.answers)
          /\ Settle(e, job, answer) /\ GoOn(e, SettledRow(e, job, answer))
    BY <1>8 DEF TurnEnds, IInv, StageInv, JobInv, TypeOK, TaskTypeOK, Job
  <2>2. /\ job \in Job /\ Covers(e, job) /\ Snapshot(e, job) /\ job.part \in Parts
        /\ reply[e] = None /\ UNCHANGED <<cur, answering>>
    BY <1>8, <2>1 DEF TurnEnds, IInv, StageInv, JobInv, AccountInv, SnapshotInv, TypeOK,
       TaskTypeOK, Job
  <2>3. /\ SettledRow(e, job, answer) \in [Receipts -> ReceiptStates]
        /\ SettledRow(e, job, answer)[e] = IF answer THEN "reply_pending" ELSE NextRow(e, job)
        /\ Source[e] \in job.sources => <<Activation[e], Source[e]>> \in submitted'
        /\ ~answer => reply'[e] = None
    <3>1. SettledRow(e, job, answer)[e] = IF answer THEN "reply_pending" ELSE NextRow(e, job)
      BY <1>0 DEF SettledRow
    <3> QED  BY <2>1, <2>2, <3>1, SettleFacts DEF IInv
  <2>4. SettledRow(e, job, answer)[e] = "done"
          => ~answer /\ <<Activation[e], Source[e]>> \in submitted'
    BY <2>2, <2>3, SettledRowIsCovered
  <2>5. pc' = "loop" \/ state'[e] # "done"
    BY <2>1, <2>3, <2>4, GoOnReasons
  <2> QED  BY <2>1, <2>2, <2>5 DEF FastInv, Overtaken
<1>9. CASE SendStarts
  BY <1>0, <1>9, <1>r DEF SendStarts, FastInv, Overtaken
<1>10. CASE SendEnds
  <2>1. PICK e \in Receipts : e = cur /\ <<Activation[e], Source[e]>> \in submitted
    BY <1>10 DEF SendEnds, IInv, StageInv, RowInv, SourceSubmitted
  <2>2. /\ submitted' = submitted /\ reply'[e] = None /\ UNCHANGED <<cur, answering>>
        /\ GoOn(e, [state EXCEPT ![e] = reply[e].next])
    BY <1>10, <2>1 DEF SendEnds, IInv, TypeOK, StoreTypeOK
  <2>3. pc' = "loop"
    BY <2>1, <2>2 DEF GoOn, Route
  <2> QED  BY <2>2, <2>3 DEF FastInv, Overtaken
<1>11. CASE RescueRecovers \/ RescueQuarantines
  BY <1>11 DEF RescueRecovers, RescueQuarantines, FastInv, Overtaken
<1>12. CASE Fault
  BY <1>12, <1>r DEF Fault
<1>13. CASE Timer \/ Crash \/ Restart
  BY <1>13 DEF Timer, Schedule, Crash, Restart, FastInv, Overtaken
<1>14. CASE Operator
  <2>1. pc = "idle" /\ UNCHANGED <<pc, answering>>
    BY <1>14 DEF Operator, OperatorOpens, Retire, Retry, Decidable, IInv, StageInv
  <2> QED  BY <2>1 DEF FastInv, Overtaken
<1>15. CASE UNCHANGED vars
  BY <1>15 DEF vars, FastInv, Overtaken
<1>16. CASE SubmissionStopped
  BY <1>16, StoppedGoes DEF FastInv, Overtaken
<1>17. Drain => \/ Pick \/ Enrich \/ Load \/ Repeat \/ Fence \/ BeforeSubmit
                \/ SubmissionStopped \/ TurnEnds \/ SendStarts \/ SendEnds \/ RescueRecovers \/ RescueQuarantines
  BY DEF Drain
<1> QED  BY <1>1, <1>2, <1>3, <1>4, <1>5, <1>6, <1>7, <1>8, <1>9, <1>10, <1>11, <1>12, <1>13,
            <1>14, <1>15, <1>16, <1>17 DEF Next

LedgerFate == [e \in Receipts |-> Fate(state[e])]

LEMMA Fates ==
  ASSUME NEW s \in ReceiptStates
  PROVE  /\ Fate(s) = "unknown" <=> s = "absent"
         /\ Fate(s) = "queued" <=> s \in {"pending", "failed", "reply_pending"}
         /\ Fate(s) = "trying" <=> s \in {"submitting", "sending"}
         /\ Fate(s) = "doubt" <=> s = "uncertain"
         /\ Fate(s) = "parked" <=> s = "quarantined"
         /\ Fate(s) = "settled" <=> s = "done"
BY DEF Fate, ReceiptStates

\* A step that changes one row changes one fate.
LEMMA OneFate ==
  ASSUME NEW e \in Receipts, \A f \in Receipts \ {e} : state'[f] = state[f]
  PROVE  LedgerFate' = [LedgerFate EXCEPT ![e] = Fate(state'[e])]
BY DEF LedgerFate

\* The moves of one row that the ledger allows while the gateway runs.
Moves(e) ==
  /\ up /\ up' = up
  /\ state' \in [Receipts -> ReceiptStates]
  /\ \A f \in Receipts \ {e} : state'[f] = state[f]
  /\ \/ state'[e] = state[e]
     \/ /\ Fate(state[e]) \in {"queued", "trying"}
        /\ Fate(state'[e]) \in {"queued", "settled"}
     \/ Fate(state[e]) = "trying" /\ Fate(state'[e]) = "doubt"
     \/ Fate(state[e]) = "doubt" /\ Fate(state'[e]) \in {"queued", "settled", "parked"}
     \/ /\ Fate(state[e]) = "queued" /\ Fate(state'[e]) = "trying"
        /\ \A f \in Receipts : Fate(state[f]) # "trying"

LEMMA MovesAreKept ==
  ASSUME NEW e \in Receipts, Moves(e)
  PROVE  Ledger!LedgerNext \/ UNCHANGED Ledger!ledgerVars
<1>1. LedgerFate' = [LedgerFate EXCEPT ![e] = Fate(state'[e])] /\ up /\ up' = up
  BY OneFate DEF Moves
<1>2. LedgerFate[e] = Fate(state[e]) /\ \A f \in Receipts : LedgerFate[f] = Fate(state[f])
  BY DEF LedgerFate
<1>3. CASE state'[e] = state[e]
  BY <1>1, <1>2, <1>3 DEF LedgerFate, Ledger!ledgerVars
<1>4. CASE Fate(state[e]) \in {"queued", "trying"} /\ Fate(state'[e]) \in {"queued", "settled"}
  <2>1. Ledger!Advance(e)
    BY <1>1, <1>2, <1>4 DEF Ledger!Advance, LedgerFate
  <2> QED  BY <2>1 DEF Ledger!LedgerNext
<1>5. CASE Fate(state[e]) = "trying" /\ Fate(state'[e]) = "doubt"
  <2>1. Ledger!LoseTrack(e)
    BY <1>1, <1>2, <1>5 DEF Ledger!LoseTrack, LedgerFate
  <2> QED  BY <2>1 DEF Ledger!LedgerNext
<1>6. CASE Fate(state[e]) = "doubt" /\ Fate(state'[e]) \in {"queued", "settled", "parked"}
  <2>1. Ledger!Resolve(e)
    BY <1>1, <1>2, <1>6 DEF Ledger!Resolve, LedgerFate
  <2> QED  BY <2>1 DEF Ledger!LedgerNext
<1>7. CASE /\ Fate(state[e]) = "queued" /\ Fate(state'[e]) = "trying"
           /\ \A f \in Receipts : Fate(state[f]) # "trying"
  <2>1. Ledger!Try(e)
    BY <1>1, <1>2, <1>7 DEF Ledger!Try, LedgerFate
  <2> QED  BY <2>1 DEF Ledger!LedgerNext
<1> QED  BY <1>3, <1>4, <1>5, <1>6, <1>7 DEF Moves

LEMMA DeliveriesAreKept ==
  ASSUME IInv, Deliveries, ~\E e \in Receipts : InteractionReturns(e)
  PROVE  Ledger!LedgerNext \/ UNCHANGED Ledger!ledgerVars
<1>0. state \in [Receipts -> ReceiptStates]
  BY DEF IInv, TypeOK, StoreTypeOK
<1>1. PICK e \in Receipts :
        \/ Admit(e) \/ AdmitAnswer(e) \/ AnswerSlowly(e) \/ StopsPreparation(e) \/ Redeliver(e)
        \/ RedeliverAnswer(e) \/ RedeliverRevoked(e)
  BY DEF Deliveries
<1>2. ASSUME up, up' = up, state[e] = "absent",
             NEW new \in {"pending", "done"},
             \A f \in Receipts \ {e} :
               state'[f] = IF f \in Superseded(e) THEN "done" ELSE state[f],
             state'[e] = new
      PROVE  Ledger!LedgerNext
  <2>1. /\ Superseded(e) \subseteq Receipts
        /\ \A f \in Superseded(e) \ {e} : state[f] \in {"pending", "failed"}
    BY <1>2, InsertedFacts DEF Replaced
  <2>2. /\ Fate("done") = "settled" /\ Fate("pending") = "queued" /\ Fate("absent") = "unknown"
        /\ \A f \in Superseded(e) \ {e} : Fate(state[f]) = "queued"
    BY <2>1 DEF Fate
  <2>3. \A f \in Receipts :
           LedgerFate'[f] = IF f = e THEN Fate(new)
                            ELSE IF f \in Superseded(e) \ {e} THEN "settled" ELSE LedgerFate[f]
    BY <1>2, <2>2 DEF LedgerFate
  <2>4. Ledger!Arrive(e)
    <3>1. up /\ LedgerFate[e] = "unknown" /\ up' = up
      BY <1>2, <2>2 DEF LedgerFate
    <3>2. Fate(new) \in {"queued", "settled"} /\ Superseded(e) \ {e} \in SUBSET Receipts
      BY <2>1, <2>2
    <3>3. \A f \in Superseded(e) \ {e} : LedgerFate[f] = "queued"
      BY <2>1, <2>2 DEF LedgerFate
    <3>4. LedgerFate' = [f \in Receipts |->
             IF f = e THEN Fate(new)
             ELSE IF f \in Superseded(e) \ {e} THEN "settled" ELSE LedgerFate[f]]
      BY <2>3 DEF LedgerFate
    <3> QED  BY <3>1, <3>2, <3>3, <3>4 DEF Ledger!Arrive, LedgerFate
  <2> QED  BY <2>4 DEF Ledger!LedgerNext
<1>3. CASE Admit(e)
  <2>1. /\ state[e] = "absent" /\ up /\ up' = up
        /\ \A f \in Receipts : state'[f] = IF f \in Superseded(e) THEN "done"
                                           ELSE IF f = e THEN "pending" ELSE state[f]
    BY <1>3, InsertedFacts DEF Admit
  <2> QED  BY <1>2, <2>1
<1>4. CASE AdmitAnswer(e)
  <2>1. /\ state[e] = "absent" /\ up /\ up' = up /\ state'[e] = "done"
        /\ \A f \in Receipts \ {e} :
             state'[f] = IF f \in Superseded(e) THEN "done" ELSE state[f]
    BY <1>4, InsertedFacts DEF AdmitAnswer, Consume
  <2> QED  BY <1>2, <2>1
<1>5. CASE Redeliver(e)
  BY <1>0, <1>5, MovesAreKept DEF Redeliver, Moves
<1>6. CASE RedeliverAnswer(e) \/ RedeliverRevoked(e)
  <2>1. /\ up /\ up' = up /\ state' = [state EXCEPT ![e] = "done"]
        /\ state[e] \in {"pending", "failed"}
    BY <1>6 DEF RedeliverAnswer, RedeliverRevoked, Consume, Retirable
  <2>2. Fate(state[e]) = "queued" /\ Fate("done") = "settled"
    BY <2>1 DEF Fate
  <2> QED  BY <1>0, <2>1, <2>2, MovesAreKept DEF Moves, ReceiptStates
<1>7. CASE AnswerSlowly(e)
  <2>1. CASE UNCHANGED state
    BY <1>7, <2>1 DEF AnswerSlowly, Ledger!ledgerVars
  <2>2. CASE ~UNCHANGED state
    <3>1. /\ state[e] = "absent" /\ up /\ up' = up
          /\ \A f \in Receipts : state'[f] = IF f \in Superseded(e) THEN "done"
                                             ELSE IF f = e THEN "pending" ELSE state[f]
      BY <1>7, <2>2, InsertedFacts DEF AnswerSlowly
    <3> QED  BY <1>2, <3>1
  <2> QED  BY <2>1, <2>2
<1>8. CASE StopsPreparation(e)
  BY <1>8 DEF StopsPreparation, Ledger!ledgerVars
<1> QED  BY <1>1, <1>3, <1>4, <1>5, <1>6, <1>7, <1>8

LEMMA RaiseIsKept ==
  ASSUME IInv, pc \in Working, up, Raise(cur)
  PROVE  Ledger!LedgerNext \/ UNCHANGED Ledger!ledgerVars
<1>1. cur \in Receipts /\ state \in [Receipts -> ReceiptStates] /\ up' = up
  BY DEF IInv, StageInv, TypeOK, StoreTypeOK, Raise
<1>2. /\ state' \in [Receipts -> ReceiptStates]
      /\ \A f \in Receipts \ {cur} : state'[f] = state[f]
      /\ \/ state'[cur] = state[cur]
         \/ state[cur] \in {"submitting", "sending"} /\ state'[cur] = "uncertain"
         \/ state[cur] \in {"pending", "reply_pending"} /\ state'[cur] = "failed"
  BY <1>1 DEF Raise, LosesTrack, PreflightFails, KeepsFailed, ReceiptStates
<1>3. \/ state'[cur] = state[cur]
      \/ Fate(state[cur]) = "trying" /\ Fate(state'[cur]) = "doubt"
      \/ Fate(state[cur]) = "queued" /\ Fate(state'[cur]) = "queued"
  BY <1>2 DEF Fate
<1>4. PICK e \in Receipts : e = cur
  BY <1>1
<1>5. Moves(e)
  BY <1>1, <1>2, <1>3, <1>4 DEF Moves
<1> QED  BY <1>5, MovesAreKept

\* A step of the task that goes on with its receipt: the row it leaves is queued or settled.
LEMMA GoOnIsKept ==
  ASSUME up, up' = up, NEW e \in Receipts, NEW st \in [Receipts -> ReceiptStates], GoOn(e, st),
         state \in [Receipts -> ReceiptStates],
         \A f \in Receipts \ {e} : st[f] = state[f],
         st[e] \in {"pending", "reply_pending", "done"},
         \/ Fate(state[e]) \in {"queued", "trying"}
         \/ state[e] = "done" /\ st[e] = "done"
  PROVE  Ledger!LedgerNext \/ UNCHANGED Ledger!ledgerVars
<1>1. /\ state' \in [Receipts -> ReceiptStates]
      /\ \A f \in Receipts \ {e} : state'[f] = st[f]
      /\ state'[e] = st[e] \/ state'[e] = "done"
  BY DEF GoOn, ReceiptStates
<1>2. Fate(state'[e]) \in {"queued", "settled"}
  BY <1>1 DEF Fate
<1>3. Moves(e)
  BY <1>1, <1>2 DEF Moves
<1> QED  BY <1>3, MovesAreKept

LEMMA DrainIsKept ==
  ASSUME IInv, ~Overtaken, Drain
  PROVE  Ledger!LedgerNext \/ UNCHANGED Ledger!ledgerVars
<1>0. /\ state \in [Receipts -> ReceiptStates]
      /\ pc \in Working => cur \in Receipts
      /\ up /\ up' = up
  BY DEF IInv, TypeOK, StoreTypeOK, StageInv, Drain, Pick, Enrich, Load, Raise, Repeat, Fence,
     BeforeSubmit, SubmissionStopped, TurnEnds, SendStarts, SendEnds, RescueRecovers,
     RescueQuarantines
<1>s. UNCHANGED state => UNCHANGED Ledger!ledgerVars
  BY <1>0 DEF Ledger!ledgerVars
<1>f. \A s \in ReceiptStates :
        /\ s \in {"pending", "failed", "reply_pending"} => Fate(s) = "queued"
        /\ s \in {"submitting", "sending"} <=> Fate(s) = "trying"
        /\ s = "uncertain" => Fate(s) = "doubt"
        /\ s = "quarantined" => Fate(s) = "parked"
        /\ s = "done" => Fate(s) = "settled"
  BY Fates
<1>1. CASE Pick
  <2>1. CASE UNCHANGED state
    BY <1>s, <2>1
  <2>2. ASSUME NEW e \in Receipts, Ready(e), state[e] # "uncertain",
               GoOn(e, IF state[e] # "failed" THEN state ELSE [state EXCEPT ![e] = Resumed(e)])
        PROVE  Ledger!LedgerNext \/ UNCHANGED Ledger!ledgerVars
    <3> DEFINE st == IF state[e] # "failed" THEN state ELSE [state EXCEPT ![e] = Resumed(e)]
    <3>1. /\ st \in [Receipts -> ReceiptStates]
          /\ \A f \in Receipts \ {e} : st[f] = state[f]
          /\ st[e] \in {"pending", "reply_pending", "done"}
      BY <1>0, <2>2 DEF Ready, Resumed, ReceiptStates
    <3>2. Fate(state[e]) = "queued" /\ GoOn(e, st)
      BY <1>0, <1>f, <2>2 DEF Ready
    <3> HIDE DEF st
    <3> QED  BY <1>0, <3>1, <3>2, GoOnIsKept
  <2> QED  BY <1>1, <2>1, <2>2 DEF Pick
<1>2. CASE Enrich
  <2>1. PICK e \in Receipts : e = cur /\ state[e] \in {"pending", "done"}
    BY <1>2 DEF Enrich, IInv, StageInv
  <2>2. CASE state[e] # "done" /\ GoOn(e, state)
    BY <1>0, <1>f, <2>1, <2>2, GoOnIsKept
  <2>3. CASE state' = [state EXCEPT ![e] = "done"]
    <3>1. Moves(e)
      BY <1>0, <1>f, <2>1, <2>3 DEF Moves, ReceiptStates
    <3> QED  BY <3>1, MovesAreKept
  <2> QED  BY <1>2, <2>1, <2>2, <2>3 DEF Enrich
<1>3. CASE Load \/ Repeat
  <2>1. CASE Raise(cur)
    BY <1>0, <1>3, <2>1, RaiseIsKept DEF Load, Repeat
  <2>2. CASE ~Raise(cur)
    BY <1>3, <1>s, <2>2 DEF Load, Repeat
  <2> QED  BY <2>1, <2>2
<1>4. CASE Fence
  <2>1. PICK e \in Receipts : e = cur /\ state[e] \in {"pending", "done"} /\ GoOn(e, state)
    BY <1>4 DEF Fence, IInv, StageInv
  <2> QED  BY <1>0, <1>f, <2>1, GoOnIsKept
<1>5. CASE BeforeSubmit
  <2>1. PICK e \in Receipts : e = cur /\ pc = "submit" /\ state[e] \in {"pending", "done"}
    BY <1>5 DEF BeforeSubmit, IInv, StageInv
  <2>2. CASE RetiredMeanwhile
    BY <1>5, <1>s, <2>2 DEF BeforeSubmit
  <2>3. CASE ~RetiredMeanwhile
    <3>1. state' = [state EXCEPT ![e] = "submitting"] /\ state[e] = "pending"
      BY <1>5, <2>1, <2>3 DEF BeforeSubmit, RetiredMeanwhile, Overtaken
    <3>2. \A f \in Receipts : Fate(state[f]) # "trying"
      BY <1>0, <1>f, <2>1 DEF IInv, SingleFlight
    <3>3. Fate(state'[e]) = "trying" /\ Fate(state[e]) = "queued"
      BY <1>0, <3>1 DEF Fate
    <3>4. Moves(e)
      BY <1>0, <3>1, <3>2, <3>3 DEF Moves, ReceiptStates
    <3> QED  BY <3>4, MovesAreKept
  <2> QED  BY <2>2, <2>3
<1>6. CASE TurnEnds
  <2>1. PICK e \in Receipts, answer \in BOOLEAN :
          e = cur /\ Settle(e, job, answer) /\ GoOn(e, SettledRow(e, job, answer))
    BY <1>6 DEF TurnEnds, IInv, StageInv, JobInv, TypeOK, TaskTypeOK, Job
  <2>2. job \in Job /\ state[e] = "submitting"
    BY <1>6, <2>1 DEF TurnEnds, IInv, StageInv, JobInv, TypeOK, TaskTypeOK, Overtaken
  <2>3. /\ SettledRow(e, job, answer) \in [Receipts -> ReceiptStates]
        /\ \A f \in Receipts \ {e} : SettledRow(e, job, answer)[f] = state[f]
        /\ SettledRow(e, job, answer)[e] \in {"pending", "reply_pending", "done"}
    BY <1>0 DEF SettledRow, NextRow, ReceiptStates
  <2>4. Fate(state[e]) = "trying"
    BY <1>0, <1>f, <2>2
  <2> QED  BY <1>0, <2>1, <2>3, <2>4, GoOnIsKept
<1>7. CASE SendStarts
  <2>1. PICK e \in Receipts : e = cur /\ pc = "deliver"
    BY <1>7 DEF SendStarts, IInv, StageInv
  <2>2. CASE Raise(cur)
    BY <1>0, <2>1, <2>2, RaiseIsKept
  <2>3. CASE state[e] = "reply_pending" /\ state' = [state EXCEPT ![e] = "sending"]
    <3>1. \A f \in Receipts : Fate(state[f]) # "trying"
      BY <1>0, <1>f, <2>1 DEF IInv, SingleFlight
    <3>2. Fate(state'[e]) = "trying" /\ Fate(state[e]) = "queued"
      BY <1>0, <2>3 DEF Fate
    <3>3. Moves(e)
      BY <1>0, <2>3, <3>1, <3>2 DEF Moves, ReceiptStates
    <3> QED  BY <3>3, MovesAreKept
  <2> QED  BY <1>7, <2>1, <2>2, <2>3 DEF SendStarts
<1>8. CASE SendEnds
  <2>1. PICK e \in Receipts : /\ e = cur /\ state[e] = "sending"
                              /\ reply[e].next \in {"pending", "done"}
                              /\ GoOn(e, [state EXCEPT ![e] = reply[e].next])
    BY <1>8 DEF SendEnds, IInv, StageInv, TypeOK, StoreTypeOK, SavedReply, Overtaken
  <2> DEFINE st == [state EXCEPT ![e] = reply[e].next]
  <2>2. /\ st \in [Receipts -> ReceiptStates] /\ st[e] \in {"pending", "done"}
        /\ \A f \in Receipts \ {e} : st[f] = state[f]
        /\ Fate(state[e]) = "trying" /\ GoOn(e, st)
    BY <1>0, <1>f, <2>1 DEF ReceiptStates
  <2> HIDE DEF st
  <2> QED  BY <1>0, <2>2, GoOnIsKept
<1>9. CASE RescueRecovers \/ RescueQuarantines
  <2>1. PICK e \in Receipts : e = cur /\ state[e] = "uncertain"
    BY <1>9 DEF RescueRecovers, RescueQuarantines, IInv, StageInv, Overtaken
  <2>2. /\ \A f \in Receipts \ {e} : state'[f] = state[f]
        /\ state' \in [Receipts -> ReceiptStates]
        /\ state'[e] \in {"reply_pending", "pending", "done", "quarantined"}
    BY <1>0, <1>9, <2>1 DEF RescueRecovers, RescueQuarantines, SettledRow, NextRow, ReceiptStates
  <2>3. Fate(state'[e]) \in {"queued", "settled", "parked"} /\ Fate(state[e]) = "doubt"
    BY <2>1, <2>2 DEF Fate
  <2>4. Moves(e)
    BY <1>0, <2>2, <2>3 DEF Moves
  <2> QED  BY <2>4, MovesAreKept
<1>10. CASE SubmissionStopped
  <2>1. PICK e \in Receipts : e = cur /\ state' = [state EXCEPT ![e] = "done"]
    BY <1>10, StoppedGoes
  <2>2. state[e] \in {"pending", "done"}
    BY <1>10, <2>1 DEF SubmissionStopped, IInv, StageInv
  <2>3. Moves(e)
    BY <1>0, <1>f, <2>1, <2>2 DEF Moves, ReceiptStates
  <2> QED  BY <2>3, MovesAreKept
<1> QED  BY <1>1, <1>2, <1>3, <1>4, <1>5, <1>6, <1>7, <1>8, <1>9, <1>10 DEF Drain

LEMMA StopsAreKept ==
  ASSUME IInv, Timer \/ Crash \/ Restart \/ Operator
  PROVE  Ledger!LedgerNext \/ UNCHANGED Ledger!ledgerVars
<1>0. state \in [Receipts -> ReceiptStates] /\ up \in BOOLEAN
  BY DEF IInv, TypeOK, StoreTypeOK, TaskTypeOK
<1>1. CASE Timer
  BY <1>1 DEF Timer, Ledger!ledgerVars
<1>2. CASE Crash
  BY <1>2 DEF Crash, Ledger!LedgerNext, Ledger!Stop, Raise
<1>3. ASSUME ~up, up' \in BOOLEAN, MarkInFlight
      PROVE  Ledger!LedgerNext
  <2>1. \A e \in Receipts :
           Fate(state'[e]) = IF Fate(state[e]) = "trying" THEN "doubt" ELSE Fate(state[e])
    <3> SUFFICES ASSUME NEW e \in Receipts
                 PROVE  Fate(state'[e]) = IF Fate(state[e]) = "trying" THEN "doubt"
                                          ELSE Fate(state[e])
      OBVIOUS
    <3>1. /\ state[e] \in ReceiptStates
          /\ state'[e] = IF state[e] \in {"submitting", "sending"} THEN "uncertain" ELSE state[e]
      BY <1>0, <1>3 DEF MarkInFlight
    <3>2. Fate(state[e]) = "trying" <=> state[e] \in {"submitting", "sending"}
      BY <3>1, Fates
    <3>3. Fate("uncertain") = "doubt"
      BY DEF Fate
    <3> QED  BY <3>1, <3>2, <3>3
  <2>2. LedgerFate' = [e \in Receipts |->
           IF LedgerFate[e] = "trying" THEN "doubt" ELSE LedgerFate[e]]
    BY <2>1 DEF LedgerFate
  <2>3. Ledger!Reopen
    BY <1>3, <2>2 DEF Ledger!Reopen, LedgerFate
  <2> QED  BY <2>3 DEF Ledger!LedgerNext
<1>4. CASE Restart \/ OperatorOpens
  BY <1>0, <1>3, <1>4 DEF Restart, OperatorOpens
<1>5. ASSUME NEW e \in Receipts, Decidable(e), up' = up,
             NEW new \in {"pending", "reply_pending", "done"},
             state' = [state EXCEPT ![e] = new]
      PROVE  Ledger!LedgerNext
  <2>1. /\ ~up /\ state[e] \notin {"absent", "done"}
        /\ \A f \in Receipts : state[f] \notin {"submitting", "sending"}
    BY <1>5 DEF Decidable, Opened
  <2>2. \A f \in Receipts : LedgerFate[f] # "trying"
    BY <1>0, <2>1, Fates DEF LedgerFate
  <2>3. LedgerFate[e] \in {"queued", "doubt", "parked"}
    <3>1. state[e] \in {"pending", "failed", "reply_pending", "uncertain", "quarantined"}
      BY <1>0, <2>1 DEF ReceiptStates
    <3> QED  BY <3>1 DEF LedgerFate, Fate
  <2>4. Fate(new) \in {"queued", "settled"}
    BY <1>5 DEF Fate
  <2>5. LedgerFate' = [LedgerFate EXCEPT ![e] = Fate(new)]
    BY <1>0, <1>5, OneFate
  <2>6. Ledger!Decide(e)
    BY <1>5, <2>1, <2>2, <2>3, <2>4, <2>5 DEF Ledger!Decide, LedgerFate
  <2> QED  BY <2>6 DEF Ledger!LedgerNext
<1>6. ASSUME NEW e \in Receipts, Retire(e) \/ (\E ack \in BOOLEAN : Retry(e, ack))
      PROVE  Ledger!LedgerNext
  BY <1>5, <1>6 DEF Retire, Retry, Resumed
<1> QED  BY <1>1, <1>2, <1>4, <1>6 DEF Operator

LEMMA NextIsKept ==
  ASSUME IInv, [Next]_vars, ~Overtaken, ~\E e \in Receipts : InteractionReturns(e)
  PROVE  Ledger!LedgerNext \/ UNCHANGED Ledger!ledgerVars
<1>1. CASE Deliveries
  BY <1>1, DeliveriesAreKept
<1>2. CASE Drain
  BY <1>2, DrainIsKept
<1>3. CASE Fault
  <2>1. pc \in Working /\ up
    BY <1>3 DEF Fault, IInv, TypeOK, TaskTypeOK
  <2> QED  BY <1>3, <2>1, RaiseIsKept DEF Fault
<1>4. CASE Timer \/ Crash \/ Restart \/ Operator
  BY <1>4, StopsAreKept
<1>5. CASE UNCHANGED vars
  BY <1>5 DEF vars, Ledger!ledgerVars
<1> QED  BY <1>1, <1>2, <1>3, <1>4, <1>5 DEF Next

\* Whatever else happens, a step that breaks the ledger's rules is the return of a slow
\* interaction, or one of a task whose receipt such an interaction has settled.
THEOREM OnlySlowAnswersBreakTheLedger ==
  Spec => [][\/ Ledger!LedgerNext
             \/ Overtaken
             \/ \E e \in Receipts : InteractionReturns(e)]_(Ledger!ledgerVars)
<1>1. IInv /\ [Next]_vars
        => [\/ Ledger!LedgerNext
            \/ Overtaken
            \/ \E e \in Receipts : InteractionReturns(e)]_(Ledger!ledgerVars)
  BY NextIsKept
<1> QED  BY <1>1, Invariant, PTL DEF Spec

\* So with interactions that answer at once the inbox keeps the ledger's promise: one attempt
\* at a time, and no attempt whose outcome was lost is repeated but by an operator.
THEOREM LedgerIsKept == ASSUME SlowAnswers = {} PROVE Spec => KeepsLedger
<1>1. Init => Ledger!LedgerInit
  BY DEF Init, Ledger!LedgerInit, Fate
<1>2. Init => FastInv
  BY DEF Init, FastInv, Overtaken
<1>3. IInv /\ AccountInv /\ FastInv /\ [Next]_vars => FastInv'
  BY FastStep
<1>4. IInv /\ FastInv /\ [Next]_vars => [Ledger!LedgerNext]_(Ledger!ledgerVars)
  BY NextIsKept DEF FastInv, InteractionReturns
<1> QED  BY <1>1, <1>2, <1>3, <1>4, Invariant, Accounts, PTL DEF Spec, KeepsLedger,
            Ledger!LedgerSpec
=============================================================================
