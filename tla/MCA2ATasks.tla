----------------------------- MODULE MCA2ATasks -----------------------------
(* The run of A2ATasks.                                                    *)
EXTENDS A2ATasks

\* With webhooks while the gateway starts, nothing fails but that the caller may cancel
\* before the start, and what follows the first message taken up twice is not explored.
EarlyIsBounded ==
  early => raced' = {} /\ (faults' = faults \/ (phase = "down" /\ phase' = "down"))
=============================================================================
