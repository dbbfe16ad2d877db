--------------------------- MODULE MCHostedCalls ---------------------------
(* Model values for the runs of HostedCalls.                               *)
EXTENDS HostedCalls

CONSTANTS c1, c2
=============================================================================
