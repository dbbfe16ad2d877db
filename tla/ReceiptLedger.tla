---------------------------- MODULE ReceiptLedger ----------------------------
(***************************************************************************)
(* What the Companion inbox promises for the receipts of one conversation, *)
(* whatever its tables and tasks: one attempt at a time, and an attempt    *)
(* whose outcome is unknown is never repeated unless an operator decides   *)
(* so while the gateway is stopped.                                        *)
(***************************************************************************)
CONSTANT Receipts

VARIABLES
  fate,     \* what became of each receipt so far
  running   \* the gateway runs

ledgerVars == <<fate, running>>

Fates ==
  {"unknown",   \* never delivered
   "queued",    \* admitted; its next attempt (a turn or a send) has not begun
   "trying",    \* an external effect may be under way
   "doubt",     \* the effect's outcome was lost
   "parked",    \* set aside without repeating the effect
   "settled"}   \* nothing is left to do

LedgerInit == fate = [e \in Receipts |-> "unknown"] /\ running = TRUE

Arrive(e) ==
  /\ running /\ fate[e] = "unknown"
  /\ \E S \in SUBSET Receipts, new \in {"queued", "settled"} :
       /\ \A f \in S : fate[f] = "queued"      \* receipts that e replaces
       /\ fate' = [f \in Receipts |-> IF f = e THEN new
                                      ELSE IF f \in S THEN "settled" ELSE fate[f]]
  /\ UNCHANGED running

Try(e) ==
  /\ running /\ fate[e] = "queued"
  /\ \A f \in Receipts : fate[f] # "trying"
  /\ fate' = [fate EXCEPT ![e] = "trying"]
  /\ UNCHANGED running

\* The effect's outcome is known, or nothing needs to be tried.
Advance(e) ==
  /\ running /\ fate[e] \in {"queued", "trying"}
  /\ fate' \in {[fate EXCEPT ![e] = "queued"], [fate EXCEPT ![e] = "settled"]}
  /\ UNCHANGED running

LoseTrack(e) ==
  /\ running /\ fate[e] = "trying"
  /\ fate' = [fate EXCEPT ![e] = "doubt"]
  /\ UNCHANGED running

\* The outcome was established afterwards, or the receipt is set aside.
Resolve(e) ==
  /\ running /\ fate[e] = "doubt"
  /\ \E new \in {"queued", "settled", "parked"} : fate' = [fate EXCEPT ![e] = new]
  /\ UNCHANGED running

Stop == running /\ running' = FALSE /\ UNCHANGED fate

\* What was under way when the gateway stopped is in doubt from then on.
Reopen ==
  /\ ~running
  /\ running' \in BOOLEAN
  /\ fate' = [e \in Receipts |-> IF fate[e] = "trying" THEN "doubt" ELSE fate[e]]

Decide(e) ==
  /\ ~running
  /\ \A f \in Receipts : fate[f] # "trying"
  /\ fate[e] \in {"queued", "doubt", "parked"}
  /\ \E new \in {"queued", "settled"} : fate' = [fate EXCEPT ![e] = new]
  /\ UNCHANGED running

LedgerNext ==
  \/ \E e \in Receipts : \/ Arrive(e) \/ Try(e) \/ Advance(e) \/ LoseTrack(e)
                         \/ Resolve(e) \/ Decide(e)
  \/ Stop \/ Reopen

LedgerSpec == LedgerInit /\ [][LedgerNext]_ledgerVars
=============================================================================
