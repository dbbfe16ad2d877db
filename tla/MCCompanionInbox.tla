-------------------------- MODULE MCCompanionInbox --------------------------
(***************************************************************************)
(* Small conversations for TLC: three or four webhook events of one scope, *)
(* in the order of their sequence numbers.  What they carry differs from   *)
(* one conversation to the next; the .cfg files choose the channel, the    *)
(* events that are refused, that are slash commands or whose interaction   *)
(* awaits a send, and the bounds on faults, crashes and decisions.         *)
(***************************************************************************)
EXTENDS CompanionInbox

CONSTANTS e1, e2, e3, e4, a, b, s1, s2, s3

Numbers == [e \in Receipts |-> CASE e = e1 -> 1 [] e = e2 -> 2 [] e = e3 -> 3 [] e = e4 -> 4]
Messages == [e \in Receipts |-> CASE e = e1 -> s1 [] e = e2 -> s2 [] e \in {e3, e4} -> s3]

\* An initialization whose message is not the trigger, the trigger, delivered live,
\* and an ordinary message behind them.
OrdinaryLast == [e \in Receipts |-> CASE e = e1 -> 3 [] e = e2 -> 1 [] e = e3 -> 2]
MixedPhase == [e \in Receipts |-> IF e = e1 THEN "ordinary"
                                  ELSE IF e = e2 THEN "initialization" ELSE "live"]
MixedActivation == [e \in Receipts |-> IF e = e1 THEN None ELSE a]
MixedTrigger == [x \in Activations |-> s3]

\* Two grants of a WhatsApp group: the first with an initialization whose message is
\* not the trigger and two live messages, the second with its initialization alone,
\* which supersedes what has not started.
TwoGrantsPhase == [e \in Receipts |-> IF e \in {e1, e4} THEN "initialization" ELSE "live"]
TwoGrantsActivation == [e \in Receipts |-> IF e = e4 THEN b ELSE a]
TwoGrantsTrigger == [x \in Activations |-> s3]
=============================================================================
